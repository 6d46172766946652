---------------------------- MODULE CustomFields ----------------------------
(***************************************************************************)
(* Custom fields: an administrator defines a field by a file name pattern  *)
(* and a regular expression (api_customfields.go); parseCustomFields       *)
(* applies the definition to the files of a host in the transaction of     *)
(* parseFile, and hostinfo_customfields holds the value it found.  The     *)
(* handlers change the definition and then mark the files that match it as *)
(* unparsed, in two statements, while the parse job is running.            *)
(*                                                                         *)
(* One host and one name of a field.  A pattern is the set of file names   *)
(* it matches, a content the set of regular expressions that match in it,  *)
(* and a value the version and the expression it was cut out with.  The    *)
(* steps of an upload and the row of hostinfo are the subject of           *)
(* Inventory; here an upload is one step, and the host is known.           *)
(***************************************************************************)
EXTENDS Naturals, Sequences, SequencesExt

CONSTANTS File,         \* file names
          Regexp,       \* regular expressions
          Pattern,      \* the file name patterns that are used: sets of names
          Worker,       \* the goroutines of parseFilesJob (eight in the code)
          Contents,     \* the contents that are uploaded: sets of expressions
          Requests,     \* bound: requests that change the field at the same time
          MaxRows,      \* bound: versions that are uploaded
          MaxEdits,     \* bound: changes of the field
          MaxFailures   \* bound: statements that fail

ASSUME PatternAssumption ==
  Pattern \subseteq SUBSET File \ {{}} /\ Contents \subseteq SUBSET Regexp

VARIABLES field,        \* the row of customfields, or NoField
          rows,         \* the table files: the index is the fileid
          value,        \* the row of hostinfo_customfields, or NoValue
          todo,         \* ids that this run of the job has not started on
          worker,       \* the goroutines
          marking,      \* for each pattern, the requests that have yet to mark it
          edits, ids, failures,     \* the bounds; ids is the serial fieldid
          overtaken     \* history: an outdated parse wrote last

fieldVars == <<field, rows, value, todo, worker, marking, edits, ids, failures, overtaken>>

NoField == [id |-> 0, files |-> {}, regexp |-> "none"]
NoValue == [id |-> 0, row |-> 0, regexp |-> "none"]
IdleWorker == [pc |-> "idle", row |-> 0, def |-> NoField]

(* WHERE $1 LIKE filename, and current AND filename LIKE $1. *)
Matches(def, r) == rows[r].file \in def.files
CurrentRows(def) == {r \in DOMAIN rows : rows[r].current /\ Matches(def, r)}

(* FindStringSubmatch on the content of a version. *)
Found(def, r) == def.regexp \in rows[r].hits
ValueOf(def, r) ==
  IF Found(def, r) THEN [id |-> def.id, row |-> r, regexp |-> def.regexp] ELSE NoValue

FieldInit ==
  /\ field = NoField /\ rows = <<>> /\ value = NoValue /\ todo = {}
  /\ worker = [w \in Worker |-> IdleWorker] /\ marking = [p \in Pattern |-> 0]
  /\ edits = 0 /\ ids = 0 /\ failures = 0 /\ overtaken = FALSE

-----------------------------------------------------------------------------
(* An archive brings a changed file: the old version is no longer current. *)
Upload(f, hits) ==
  /\ Len(rows) < MaxRows
  /\ rows' = Append([r \in DOMAIN rows |->
                       [rows[r] EXCEPT !.current = @ /\ rows[r].file # f]],
                    [file |-> f, hits |-> hits, current |-> TRUE, parsed |-> FALSE])
  /\ UNCHANGED <<field, value, todo, worker, marking, edits, ids, failures, overtaken>>

(* The requests write the definition first ...                             *)
Change(def) ==
  /\ edits < MaxEdits /\ edits' = edits + 1
  /\ field' = def
  /\ UNCHANGED <<rows, todo, worker, failures, overtaken>>

ThenMark(p) ==
  /\ FoldFunction(+, 0, marking) < Requests
  /\ marking' = [marking EXCEPT ![p] = @ + 1]

Create(p, re) ==
  /\ field = NoField
  /\ ids' = ids + 1
  /\ Change([id |-> ids + 1, files |-> p, regexp |-> re]) /\ ThenMark(p)
  /\ UNCHANGED value

PutMarksOld(p, re) ==   \* Slip: marks the files of the definition it replaces
  /\ field # NoField
  /\ Change([id |-> field.id, files |-> p, regexp |-> re]) /\ ThenMark(field.files)
  /\ UNCHANGED <<ids, value>>

Put(p, re) ==
  /\ field # NoField
  /\ Change([id |-> field.id, files |-> p, regexp |-> re]) /\ ThenMark(p)
  /\ UNCHANGED <<ids, value>>

(* DELETE: the key of hostinfo_customfields cascades; nothing is marked.   *)
Delete ==
  /\ field # NoField
  /\ Change(NoField)
  /\ value' = NoValue
  /\ UNCHANGED <<ids, marking>>

(* ... and mark the files for the parser in a second statement.            *)
Mark(p) ==
  /\ marking[p] > 0
  /\ rows' = [r \in DOMAIN rows |->
                [rows[r] EXCEPT !.parsed =
                   @ /\ ~(rows[r].current /\ rows[r].file \in p)]]
  /\ marking' = [marking EXCEPT ![p] = @ - 1]
  /\ UNCHANGED <<field, value, todo, worker, edits, ids, failures, overtaken>>

(* The outcome of that statement is ignored, so the new definition may     *)
(* stay unapplied.                                                         *)
MarkFails(p) ==
  /\ marking[p] > 0 /\ failures < MaxFailures
  /\ failures' = failures + 1 /\ overtaken' = TRUE
  /\ marking' = [marking EXCEPT ![p] = @ - 1]
  /\ UNCHANGED <<field, rows, value, todo, worker, edits, ids>>

-----------------------------------------------------------------------------
Resting == todo = {} /\ \A w \in Worker : worker[w].pc = "idle"

(* The job selects the unparsed files, old versions too, in the order of   *)
(* their ids.                                                              *)
RunBegins ==
  /\ Resting
  /\ \E r \in DOMAIN rows : ~rows[r].parsed
  /\ todo' = {r \in DOMAIN rows : ~rows[r].parsed}
  /\ UNCHANGED <<field, rows, value, worker, marking, edits, ids, failures, overtaken>>

Pick(w) ==
  /\ worker[w].pc = "idle"
  /\ \E r \in todo :
       /\ \A q \in todo : r <= q
       /\ todo' = todo \ {r}
       /\ worker' = [worker EXCEPT ![w] = [pc |-> "picked", row |-> r, def |-> NoField]]
  /\ UNCHANGED <<field, rows, value, marking, edits, ids, failures, overtaken>>

(* parseCustomFields selects the definitions for the name of its file.     *)
Read(w) ==
  /\ worker[w].pc = "picked"
  /\ worker' = [worker EXCEPT ![w].pc = "read",
                              ![w].def = IF Matches(field, worker[w].row)
                                         THEN field ELSE NoField]
  /\ UNCHANGED <<field, rows, value, todo, marking, edits, ids, failures, overtaken>>

KeyFailsNever(def, r) == FALSE  \* Slip: no foreign key to customfields

(* What the transaction does to the value: nothing without a definition;   *)
(* DELETE when the expression finds nothing; UPDATE or INSERT otherwise.   *)
(* The definition may have been deleted since; then DELETE and UPDATE find *)
(* no row, and the foreign key makes the INSERT, and with it the           *)
(* transaction, fail.                                                      *)
Written(def, r) ==
  IF def = NoField \/ (field.id # def.id /\ ~Found(def, r)) THEN value ELSE ValueOf(def, r)

KeyFails(def, r) == def # NoField /\ field.id # def.id /\ Found(def, r)

(* An outdated parse: of a version that is not current any more, or by     *)
(* another definition than the one for its file now, when the files of the *)
(* new one were marked already.                                            *)
Applies(r) == IF Matches(field, r) THEN field ELSE NoField
MarkPending == \E p \in Pattern : marking[p] > 0 /\ field.files \subseteq p

Outdated(def, r) ==
  \/ def # NoField /\ ~rows[r].current
  \/ def # Applies(r) /\ ~MarkPending

Free(w) == worker' = [worker EXCEPT ![w] = IdleWorker]

Commit(w) ==
  LET def == worker[w].def  r == worker[w].row IN
  /\ worker[w].pc = "read"
  /\ ~KeyFails(def, r)
  /\ value' = Written(def, r)
  /\ rows' = [rows EXCEPT ![r].parsed = TRUE]
  /\ overtaken' = (Outdated(def, r) \/ (overtaken /\ (def = NoField \/ def # field)))
  /\ Free(w)
  /\ UNCHANGED <<field, todo, marking, edits, ids, failures>>

RollbackKeepsSlot(w) ==         \* Slip: the slot is not given back
  /\ worker[w].pc = "read"
  /\ KeyFails(worker[w].def, worker[w].row)
  /\ worker' = [worker EXCEPT ![w].pc = "gone"]
  /\ UNCHANGED <<field, rows, value, todo, marking, edits, ids, failures, overtaken>>

(* The transaction is rolled back and the file stays unparsed: the foreign *)
(* key, or any other failing statement (such as a second INSERT of the     *)
(* value by a goroutine with another version of the file).                 *)
Rollback(w) ==
  LET fails == KeyFails(worker[w].def, worker[w].row) IN
  /\ worker[w].pc = "read"
  /\ fails \/ failures < MaxFailures
  /\ failures' = IF fails THEN failures ELSE failures + 1
  /\ Free(w)
  /\ UNCHANGED <<field, rows, value, todo, marking, edits, ids, overtaken>>

FieldNext ==
  \/ \E f \in File, hits \in Contents : Upload(f, hits)
  \/ \E p \in Pattern, re \in Regexp : Create(p, re) \/ Put(p, re)
  \/ Delete
  \/ \E p \in Pattern : Mark(p) \/ MarkFails(p)
  \/ RunBegins
  \/ \E w \in Worker : Pick(w) \/ Read(w) \/ Commit(w) \/ Rollback(w)


(* The job runs every three seconds and its goroutines finish; a request   *)
(* gets to its second statement.                                           *)
FieldFairness ==
  /\ WF_fieldVars(RunBegins)
  /\ \A w \in Worker : /\ WF_fieldVars(Pick(w)) /\ WF_fieldVars(Read(w))
                       /\ WF_fieldVars(Commit(w) \/ Rollback(w))
  /\ \A p \in Pattern : WF_fieldVars(Mark(p) \/ MarkFails(p))

FieldSpec == FieldInit /\ [][FieldNext]_fieldVars /\ FieldFairness

-----------------------------------------------------------------------------
(* A value belongs to a definition that exists, under the id of that       *)
(* definition, and to a version that was uploaded: a field that is deleted *)
(* and created anew under its name does not show the values of the old one *)
(* (parseCustomFields against DELETE).                                     *)
NoOrphan ==
  value # NoValue => value.id = field.id /\ value.row \in DOMAIN rows

Quiet ==
  /\ Resting
  /\ \A p \in Pattern : marking[p] = 0
  /\ \A r \in DOMAIN rows : rows[r].parsed

(* When every file is parsed and no request is under way, the value of the *)
(* field is what its present definition finds in the current version of    *)
(* its file (nothing, when it finds nothing), whatever was edited, deleted *)
(* and uploaded while the job was running; unless the last transaction to  *)
(* commit for it was outdated, or the statement that marks the files       *)
(* failed (serveHTTP marks after it writes, parseFile commits parsed with  *)
(* the values).                                                            *)
ValueFollows ==
  Quiet /\ field # NoField /\ ~overtaken =>
    \A r \in DOMAIN rows : CurrentRows(field) = {r} => value = ValueOf(field, r)

(* In the end every file is parsed and the job rests, although definitions *)
(* are deleted under a transaction that uses them (the deferred function   *)
(* of parseFilesJob gives its slot back, the next run tries again).        *)
ParsedInTheEnd == <>[]Quiet

=============================================================================
