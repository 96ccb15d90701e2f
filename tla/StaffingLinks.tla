---------------------------- MODULE StaffingLinks ----------------------------
(***************************************************************************)
(* Which staffing company a worker is from.  A PersonnelCompany is a row   *)
(* with a unique name; a worker refers to it twice: by foreign key         *)
(* (ON DELETE SET NULL) and by a copy of its name, which also holds what   *)
(* was typed before companies were rows.                                   *)
(*                                                                         *)
(* A manager edits a worker in a form of the web front end that is filled  *)
(* once from what the page then holds and sends all of it back.  When the  *)
(* worker has no company by key, the form looks for one with the copied    *)
(* name.  Meanwhile other managers link the worker, and create, rename,    *)
(* archive and remove companies.  One form and one worker; everything is   *)
(* one tenant's.                                                           *)
(***************************************************************************)
EXTENDS Naturals, FiniteSets

CONSTANTS
  Companies,    \* primary keys of PersonnelCompany; a removed one is not reused
  Names,
  Others,       \* PATCH /workers calls not sent by the form, in flight at once
  FormCall,     \* the PATCH call of the form
  MaxChanges,   \* bounds the changes of the table of companies and of the text alone
  NoCompany, NoName, NoCall, NoForm

Callers == Others \cup {FormCall}
Link    == Companies \cup {NoCompany}
Text    == Names \cup {NoName}

\* What GET /workers/:id shows of the company.
Seen == [link : Link, text : Text]

\* The form: its selection, whether it has preselected, the worker and the companies
\* the page holds.  History: the key and the matches by name it was filled from, and
\* whether the user has chosen at all.
Form == [pick : Link, preselected : BOOLEAN, seen : Seen,
         listed : [Companies -> Text], loaded : BOOLEAN,
         key : Link, matches : SUBSET Companies,
         touched : BOOLEAN]

\* A PATCH call; `text` once the company is found, `renamed` since then.  History: sent
\* by a form whose company the user had not touched, and what filled that form.
Call == [want : Link, found : BOOLEAN, text : Text, renamed : BOOLEAN,
         untouched : BOOLEAN, key : Link, matches : SUBSET Companies]

ASSUME CallersAssumption == FormCall \notin Others /\ MaxChanges \in Nat
ASSUME NullsAssumption   == NoCompany \notin Companies /\ NoName \notin Names

VARIABLES
  name,       \* PersonnelCompany.name, NoName when there is no row
  archived,
  gone,       \* keys of removed rows
  link,       \* Worker.personnelCompanyId
  text,       \* Worker.personnelCompany
  form,       \* the open form
  call,
  changes,    \* such changes so far
  apart       \* history: the copy was typed, or its company renamed since it was copied

table  == <<name, archived, gone>>
worker == <<link, text>>
vars   == <<table, worker, form, call, changes, apart>>

Exist  == {c \in Companies : name[c] # NoName}
Active == Exist \ archived

TypeOK ==
  /\ name \in [Companies -> Text]
  /\ archived \subseteq Exist
  /\ gone \subseteq Companies \ Exist
  /\ link \in Exist \cup {NoCompany}
  /\ text \in Text
  /\ form = NoForm \/ form \in Form
  /\ call \in [Callers -> Call \cup {NoCall}]
  /\ changes \in 0..MaxChanges
  /\ apart \in BOOLEAN
  /\ \A c, d \in Exist : name[c] = name[d] => c = d

Init ==
  /\ name = [c \in Companies |-> NoName] /\ archived = {} /\ gone = {}
  /\ link = NoCompany /\ text \in Text
  /\ form = NoForm
  /\ call = [c \in Callers |-> NoCall]
  /\ changes = 0 /\ apart = FALSE

-----------------------------------------------------------------------------
(* The companies.  Their lookups before a write only choose the answer;    *)
(* the unique index decides.                                               *)

Change == changes < MaxChanges /\ changes' = changes + 1

FreeName(n) == \A c \in Exist : name[c] # n

Create(c, n) ==
  /\ Change
  /\ c \notin Exist \cup gone
  /\ FreeName(n)
  /\ name' = [name EXCEPT ![c] = n]
  /\ UNCHANGED <<archived, gone, worker, form, call, apart>>

\* update leaves the copies as they are.
Rename(c, n) ==
  /\ Change
  /\ c \in Exist
  /\ FreeName(n)
  /\ name'  = [name EXCEPT ![c] = n]
  /\ apart' = (apart \/ link = c)
  /\ call'  = [k \in Callers |->
                IF call[k] # NoCall /\ call[k].want = c /\ call[k].found
                THEN [call[k] EXCEPT !.renamed = TRUE] ELSE call[k]]
  /\ UNCHANGED <<archived, gone, worker, form>>

Archive(c) ==
  /\ Change
  /\ c \in Active
  /\ archived' = archived \cup {c}
  /\ UNCHANGED <<name, gone, worker, form, call, apart>>

Unarchive(c) ==
  /\ Change
  /\ c \in archived
  /\ archived' = archived \ {c}
  /\ UNCHANGED <<name, gone, worker, form, call, apart>>

\* Mutant: the foreign key has no ON DELETE action.
RemoveDangling(c) ==
  /\ Change
  /\ c \in Exist
  /\ name'     = [name EXCEPT ![c] = NoName]
  /\ archived' = archived \ {c}
  /\ gone'     = gone \cup {c}
  /\ UNCHANGED <<worker, form, call, apart>>

\* The foreign key is set to null; the copy of the name stays.
Remove(c) ==
  /\ Change
  /\ c \in Exist
  /\ name'     = [name EXCEPT ![c] = NoName]
  /\ archived' = archived \ {c}
  /\ gone'     = gone \cup {c}
  /\ link'     = IF link = c THEN NoCompany ELSE link
  /\ UNCHANGED <<text, form, call, apart>>

-----------------------------------------------------------------------------
(* The form (WorkerDetail, DetailsCard).                                   *)

\* toForm: by key, else the listed company that has the copied name.
Matching(seen, listed) == {c \in Companies : seen.text # NoName /\ listed[c] = seen.text}

\* Mutant: the copied name is looked at first.
PreselectionByName(seen, listed) ==
  IF Matching(seen, listed) # {} THEN CHOOSE c \in Matching(seen, listed) : TRUE
  ELSE seen.link

Preselection(seen, listed) ==
  IF seen.link # NoCompany THEN seen.link
  ELSE IF Matching(seen, listed) # {} THEN CHOOSE c \in Matching(seen, listed) : TRUE
  ELSE NoCompany

\* The effect that preselects: it runs when the selection, the worker or the list have
\* changed, and sees an empty selection, whoever emptied it.
Preselect(f) ==
  IF f.preselected \/ f.pick # NoCompany \/ ~f.loaded THEN f
  ELSE [f EXCEPT !.pick = Preselection(f.seen, f.listed), !.preselected = TRUE,
                 !.key = f.seen.link, !.matches = Matching(f.seen, f.listed)]

SeenNow   == [link |-> link, text |-> text]
ListNow   == [c \in Companies |-> IF c \in Active THEN name[c] ELSE NoName]
EmptyList == [c \in Companies |-> NoName]

\* The page has the worker: the selection is its key, with no list to match against.
Open ==
  /\ form = NoForm
  /\ form' = [pick |-> link, preselected |-> FALSE, seen |-> SeenNow,
              listed |-> EmptyList, loaded |-> FALSE, key |-> link, matches |-> {},
              touched |-> FALSE]
  /\ UNCHANGED <<table, worker, call, changes, apart>>

Close ==
  /\ form # NoForm
  /\ form' = NoForm
  /\ UNCHANGED <<table, worker, call, changes, apart>>

\* The active companies arrive, at first or again.
LoadList ==
  /\ form # NoForm
  /\ form' = Preselect([form EXCEPT !.listed = ListNow, !.loaded = TRUE])
  /\ UNCHANGED <<table, worker, call, changes, apart>>

\* The worker arrives again (focus, the invalidation after a save): the selection stays.
Refetch ==
  /\ form # NoForm
  /\ form' = Preselect([form EXCEPT !.seen = SeenNow])
  /\ UNCHANGED <<table, worker, call, changes, apart>>

\* A <select> without an option for the selection shows its first one, "none".
Options == {c \in Companies : form.listed[c] # NoName}
Shown   == IF form.pick \in Options THEN form.pick ELSE NoCompany

Choose(c) ==
  /\ form # NoForm
  /\ Options # {}
  /\ c \in (Options \cup {NoCompany}) \ {Shown}
  /\ form' = Preselect([form EXCEPT !.pick = c, !.touched = TRUE])
  /\ UNCHANGED <<table, worker, call, changes, apart>>

\* One save at a time; the whole form is sent.
Save ==
  /\ form # NoForm
  /\ call[FormCall] = NoCall
  /\ call' = [call EXCEPT ![FormCall] =
                [want |-> form.pick, found |-> FALSE, text |-> NoName, renamed |-> FALSE,
                 untouched |-> ~form.touched, key |-> form.key,
                 matches |-> form.matches]]
  /\ UNCHANGED <<table, worker, form, changes, apart>>

-----------------------------------------------------------------------------
(* PATCH /workers/:id.                                                     *)

\* Another manager's call.
Send(k, c) ==
  /\ k \in Others /\ call[k] = NoCall
  /\ call' = [call EXCEPT ![k] =
                [want |-> c, found |-> FALSE, text |-> NoName, renamed |-> FALSE,
                 untouched |-> FALSE, key |-> NoCompany, matches |-> {}]]
  /\ UNCHANGED <<table, worker, form, changes, apart>>

\* resolvePersonnelCompany: an active company and its name; null clears both.
Resolve(k) ==
  /\ call[k] # NoCall /\ ~call[k].found
  /\ call[k].want \in Active \cup {NoCompany}
  /\ call' = [call EXCEPT ![k].found = TRUE,
                          ![k].text = IF call[k].want = NoCompany THEN NoName
                                      ELSE name[call[k].want]]
  /\ UNCHANGED <<table, worker, form, changes, apart>>

\* Mutant: the copy is left as it was.
WriteKeyOnly(k) ==
  /\ call[k] # NoCall /\ call[k].found
  /\ call[k].want \in Exist \cup {NoCompany}
  /\ link'  = call[k].want
  /\ apart' = call[k].renamed
  /\ call'  = [call EXCEPT ![k] = NoCall]
  /\ UNCHANGED <<table, text, form, changes>>

\* worker.update: the foreign key still has to exist.
Write(k) ==
  /\ call[k] # NoCall /\ call[k].found
  /\ call[k].want \in Exist \cup {NoCompany}
  /\ link'  = call[k].want
  /\ text'  = call[k].text
  /\ apart' = call[k].renamed
  /\ call'  = [call EXCEPT ![k] = NoCall]
  /\ UNCHANGED <<table, form, changes>>

\* 400, a violated foreign key, any failure: nothing of the company is written.
Fail(k) ==
  /\ call[k] # NoCall
  /\ call' = [call EXCEPT ![k] = NoCall]
  /\ UNCHANGED <<table, worker, form, changes, apart>>

\* A client that still sends the text alone: the key stays.
TypeText(n) ==
  /\ Change
  /\ text'  = n
  /\ apart' = TRUE
  /\ UNCHANGED <<table, link, form, call>>

-----------------------------------------------------------------------------
Companyside ==
  \E c \in Companies :
    \/ Archive(c) \/ Unarchive(c) \/ Remove(c)
    \/ \E n \in Names : Create(c, n) \/ Rename(c, n)

Formside == Open \/ Close \/ LoadList \/ Refetch \/ Save \/ \E c \in Link : Choose(c)

Callside ==
  \/ \E k \in Others, c \in Link : Send(k, c)
  \/ \E k \in Callers : Resolve(k) \/ Write(k) \/ Fail(k)
  \/ \E n \in Text : TypeText(n)

Next == Companyside \/ Formside \/ Callside
Spec == Init /\ [][Next]_vars

-----------------------------------------------------------------------------
\* The copied name is the name of the linked company, whatever calls overlap, unless
\* the company was renamed since it was copied or the text was typed over it.
CopyMatchesLink == link # NoCompany /\ ~apart => text = name[link]

\* Saving a form whose company the user has not touched leaves the worker linked as it
\* is, if it is linked as when the form was filled; an unlinked worker may become linked
\* only to a company that was then listed under the worker's copied name.
UntouchedSaveKeepsLink ==
  [][\A k \in Callers :
       (call[k] # NoCall /\ call[k].untouched /\ call[k].key = link /\ Write(k)) =>
         \/ link' = link
         \/ link = NoCompany /\ link' \in call[k].matches]_vars
=============================================================================
