---------------------------- MODULE WorkerFiles ----------------------------
(***************************************************************************)
(* The files of one worker: documents (WorkerDoc rows) and the picture (a  *)
(* column of Worker), and the objects in Supabase Storage they refer to.   *)
(* Keys carry the worker's id and are checked against it, so workers do    *)
(* not meet and one is enough.                                             *)
(*                                                                         *)
(* An upload is three calls of a client: get a signed URL for a fresh key, *)
(* PUT the object straight into the store, confirm.  The back end sees the *)
(* first and the last, takes them in any order and never looks whether     *)
(* there is an object.  Every call that changes files has the same shape:  *)
(* read the rows, remove the objects they make superfluous one by one,     *)
(* write the rows with one statement.  A removal that the store refuses is *)
(* swallowed (.catch(() => undefined)).                                    *)
(***************************************************************************)
EXTENDS Naturals, FiniteSets

CONSTANTS
  DocKeys, ImageKeys,   \* storage keys of the two buckets
  Rows,                 \* primary keys of WorkerDoc
  Callers,              \* HTTP calls in flight at once
  MaxConfirms,          \* how often a client confirms one upload
  NoKey, NoRow, NoCall

Keys == DocKeys \cup ImageKeys

Call == [op  : {"confirmDoc", "removeDoc", "confirmImage", "removeWorker"},
         key : Keys \cup {NoKey},
         row : Rows \cup {NoRow}]

ASSUME ConfirmsAssumption == MaxConfirms \in Nat \ {0}
ASSUME KeysAssumption     == DocKeys \cap ImageKeys = {}
ASSUME NullsAssumption    == NoKey \notin Keys /\ NoRow \notin Rows /\ NoCall \notin Call

VARIABLES
  present,    \* the Worker row exists
  docs,       \* WorkerDoc.storageKey of each row
  image,      \* Worker.imageStorageKey
  objects,    \* what the store holds
  uploaded,   \* keys whose object a client has PUT
  confirms,   \* confirmations sent per key
  call,       \* the call each caller serves
  sweep,      \* objects it still has to remove
  removed,    \* objects it has removed
  saved,      \* history: keys whose confirmation was written
  astray,     \* history: keys confirmed while another call wrote the same rows,
              \* keys the store refused to remove, keys PUT after their confirmation
  retired,    \* history: keys removed for the sake of something else
  broken      \* history: keys removed by a call that then stopped

files   == <<present, docs, image, objects>>
client  == <<uploaded, confirms>>
calls   == <<call, sweep, removed>>
history == <<saved, astray, retired, broken>>
vars    == <<files, client, calls, history>>

TypeOK ==
  /\ present  \in BOOLEAN
  /\ docs     \in [Rows -> DocKeys \cup {NoKey}]
  /\ image    \in ImageKeys \cup {NoKey}
  /\ objects  \subseteq Keys
  /\ uploaded \subseteq Keys
  /\ confirms \in [Keys -> 0..MaxConfirms]
  /\ call     \in [Callers -> Call \cup {NoCall}]
  /\ sweep    \in [Callers -> SUBSET Keys]
  /\ removed  \in [Callers -> SUBSET Keys]
  /\ \A h \in {saved, astray, retired, broken} : h \subseteq Keys
  \* Rows belong to a worker (onDelete: Cascade), objects to an upload.
  /\ ~present => image = NoKey /\ \A r \in Rows : docs[r] = NoKey
  /\ objects \subseteq uploaded

-----------------------------------------------------------------------------
Busy == {c \in Callers : call[c] # NoCall}

\* Rows nobody has used or still refers to: a fresh cuid.
FreeRows == {r \in Rows : docs[r] = NoKey /\ \A c \in Busy : call[c].row # r}

Referenced == ({docs[r] : r \in Rows} \cup {image}) \ {NoKey}

\* createSignedRead finds the object; otherwise the reader is answered 404.
Readable(k) == k \in objects

\* Two calls compete when both rewrite the picture, or one removes the worker.
Compete(a, b) ==
  \/ "removeWorker" \in {a.op, b.op}
  \/ a.op = "confirmImage" /\ b.op = "confirmImage"

Init ==
  /\ present = TRUE /\ objects = {}
  /\ docs     = [r \in Rows |-> NoKey] /\ image = NoKey
  /\ uploaded = {}
  /\ confirms = [k \in Keys |-> 0]
  /\ call     = [c \in Callers |-> NoCall]
  /\ sweep    = [c \in Callers |-> {}]
  /\ removed  = [c \in Callers |-> {}]
  /\ saved = {} /\ astray = {} /\ retired = {} /\ broken = {}

-----------------------------------------------------------------------------
(* The client.                                                             *)

\* requestDocUpload / requestImageUpload hand out a fresh key with a signed URL, and the
\* client PUTs: once per key, late or never.  The back end keeps nothing of the first,
\* and a URL it gave while the worker existed stays good when the worker is gone.
Upload(k) ==
  /\ k \notin uploaded
  /\ uploaded' = uploaded \cup {k}
  /\ objects'  = objects \cup {k}
  /\ astray'   = IF confirms[k] > 0 THEN astray \cup {k} ELSE astray
  /\ UNCHANGED <<present, docs, image, confirms, calls, saved, retired, broken>>

-----------------------------------------------------------------------------
(* The back end.                                                           *)

\* A call has read what it needs and knows which objects to remove.
Begin(c, a, ks) ==
  LET rivals == {b \in {call[d] : d \in Busy} : Compete(a, b)}
  IN  /\ call[c] = NoCall
      /\ call'  = [call EXCEPT ![c] = a]
      /\ sweep' = [sweep EXCEPT ![c] = ks]
      /\ astray' = astray \cup
           IF rivals = {} THEN {} ELSE {b.key : b \in rivals \cup {a}} \ {NoKey}
      /\ UNCHANGED <<files, uploaded, removed, saved, retired, broken>>

\* Any key with the worker's id is confirmed, before its PUT, after it or without one,
\* and as often as the confirmation is sent.
Confirming(k) ==
  /\ present
  /\ confirms[k] < MaxConfirms
  /\ confirms' = [confirms EXCEPT ![k] = @ + 1]

\* confirmDoc, up to the insert.
StartConfirmDoc(c, k) ==
  /\ Confirming(k)
  /\ Begin(c, [op |-> "confirmDoc", key |-> k, row |-> NoRow], {})

\* Mutant: the picture in place is not purged.
StartConfirmImageKeeping(c, k) ==
  /\ Confirming(k)
  /\ Begin(c, [op |-> "confirmImage", key |-> k, row |-> NoRow], {})

\* Mutant: the picture in place is purged even when it is the one confirmed.
StartConfirmImageAnyKey(c, k) ==
  /\ Confirming(k)
  /\ Begin(c, [op |-> "confirmImage", key |-> k, row |-> NoRow], {image} \ {NoKey})

\* confirmImage: the picture in place goes, unless it is the one confirmed.
StartConfirmImage(c, k) ==
  /\ Confirming(k)
  /\ Begin(c, [op |-> "confirmImage", key |-> k, row |-> NoRow], {image} \ {NoKey, k})

StartRemoveDoc(c, r) ==
  /\ docs[r] # NoKey
  /\ Begin(c, [op |-> "removeDoc", key |-> NoKey, row |-> r], {docs[r]})
  /\ UNCHANGED confirms

\* remove: the documents and the picture as findUnique returned them.
StartRemoveWorker(c) ==
  /\ present
  /\ Begin(c, [op |-> "removeWorker", key |-> NoKey, row |-> NoRow], Referenced)
  /\ UNCHANGED confirms

\* The documents go first, the picture last.
Upcoming(ks) == IF ks \cap DocKeys # {} THEN ks \cap DocKeys ELSE ks

RemoveObject(c) ==
  \E k \in Upcoming(sweep[c]) :
    /\ sweep' = [sweep EXCEPT ![c] = @ \ {k}]
    /\ \/ /\ objects' = objects \ {k}
          /\ removed' = [removed EXCEPT ![c] = @ \cup {k}]
          /\ retired' = retired \cup ({k} \ {call[c].key})
          /\ UNCHANGED astray
       \/ /\ astray' = astray \cup {k}
          /\ UNCHANGED <<objects, removed, retired>>
    /\ UNCHANGED <<present, docs, image, client, call, saved, broken>>

Return(c) ==
  /\ call'    = [call EXCEPT ![c] = NoCall]
  /\ sweep'   = [sweep EXCEPT ![c] = {}]
  /\ removed' = [removed EXCEPT ![c] = {}]

\* All objects are gone, the statement that ends the call is next.
AtWrite(c, op) == call[c] # NoCall /\ call[c].op = op /\ sweep[c] = {}

WriteDoc(c) ==
  /\ AtWrite(c, "confirmDoc")
  /\ present
  /\ \E r \in FreeRows : docs' = [docs EXCEPT ![r] = call[c].key]
  /\ saved' = saved \cup {call[c].key}
  /\ Return(c)
  /\ UNCHANGED <<present, image, objects, client, astray, retired, broken>>

WriteImage(c) ==
  /\ AtWrite(c, "confirmImage")
  /\ present
  /\ image' = call[c].key
  /\ saved' = saved \cup {call[c].key}
  /\ Return(c)
  /\ UNCHANGED <<present, docs, objects, client, astray, retired, broken>>

DeleteDoc(c) ==
  /\ AtWrite(c, "removeDoc")
  /\ docs[call[c].row] # NoKey
  /\ docs' = [docs EXCEPT ![call[c].row] = NoKey]
  /\ Return(c)
  /\ UNCHANGED <<present, image, objects, client, history>>

\* Mutant: the documents do not go with the worker.
DeleteWorkerOnly(c) ==
  /\ AtWrite(c, "removeWorker")
  /\ present
  /\ present' = FALSE
  /\ image'   = NoKey
  /\ Return(c)
  /\ UNCHANGED <<docs, objects, client, history>>

\* The rows of the documents go with the worker's (onDelete: Cascade).
DeleteWorker(c) ==
  /\ AtWrite(c, "removeWorker")
  /\ present
  /\ present' = FALSE
  /\ docs'    = [r \in Rows |-> NoKey]
  /\ image'   = NoKey
  /\ Return(c)
  /\ UNCHANGED <<objects, client, history>>

\* The row the statement needs is gone: a foreign key or P2025 refuses it.
WriteRefused(c) ==
  /\ call[c] # NoCall /\ sweep[c] = {}
  /\ IF call[c].op = "removeDoc" THEN docs[call[c].row] = NoKey ELSE ~present
  /\ Return(c)
  /\ UNCHANGED <<files, client, history>>

\* The process stops, or the statement fails: nothing undoes the removals.
Crash(c) ==
  /\ call[c] # NoCall
  /\ broken' = broken \cup removed[c]
  /\ Return(c)
  /\ UNCHANGED <<files, client, saved, astray, retired>>

Start(c) ==
  \/ \E k \in DocKeys : StartConfirmDoc(c, k)
  \/ \E k \in ImageKeys : StartConfirmImage(c, k)
  \/ \E r \in Rows : StartRemoveDoc(c, r)
  \/ StartRemoveWorker(c)

Step(c) ==
  \/ RemoveObject(c)
  \/ WriteDoc(c)  \/ WriteImage(c)
  \/ DeleteDoc(c) \/ DeleteWorker(c)
  \/ WriteRefused(c)

Next ==
  \/ \E k \in Keys : Upload(k)
  \/ \E c \in Callers : Start(c) \/ Step(c) \/ Crash(c)

Spec == Init /\ [][Next]_vars
-----------------------------------------------------------------------------
\* A document in the list and a picture in the profile can be opened, whatever
\* uploads, replacements and removals overlapped.  Every purge runs before the
\* row is written, so the exceptions are the rows of a call that is between the
\* two and those of a call that stopped there.  confirmDoc and confirmImage accept a
\* key as often as it comes and never look whether the object is there: so are a key
\* that was not PUT and one confirmed again after it had been replaced or removed.
ReferencesOpen ==
  \A k \in Referenced :
    \/ Readable(k)
    \/ k \notin uploaded
    \/ k \in broken
    \/ \E c \in Callers : k \in removed[c]
    \/ confirms[k] > 1 /\ k \in retired

\* "If an image already existed, purge the old object to avoid orphaned bytes" and
\* "purge stored objects to stay in sync": a confirmed object that no row refers
\* to any more is gone from the store.  Left behind are only those the store
\* refused to remove, those PUT after their confirmation and those whose own
\* confirmation ran while another call replaced the picture or removed the worker;
\* calls that overlap later do no harm.
NoStrayObject ==
  \A k \in (objects \cap saved) \ Referenced : k \in astray

-----------------------------------------------------------------------------
(* What a comment of the back end says and no code does.                   *)

\* "The FileRef row is only persisted after the back end re-validates the stored
\* object" (createSignedUpload): what a row begins to refer to is in the store.
RowsAreValidated ==
  [][\A k \in Keys : k \in Referenced' \ Referenced => k \in objects]_vars
=============================================================================
