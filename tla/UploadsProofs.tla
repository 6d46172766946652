------------------------------ MODULE UploadsProofs ----------------------------
(***************************************************************************)
(* The queue and the task runner, for any certificates, slots and bounds:  *)
(* the state has its types, rows and running tasks have different ids, and *)
(* when clients post hourly, two executions never work on the archive of   *)
(* one certificate and none processes a package that was gone.             *)
(***************************************************************************)
EXTENDS Uploads, TLAPS

Pc == {"exists", "unpack", "meta", "process", "removeArchive", "removeMeta", "finish", "unmark"}
Running == [pc : Pc, task : Task, archive : {NoFile} \cup Upload,
            outcome : {"none", "missing", "failed", "done"}]

Row == [nonce : Nonce \cup {NoNonce}, revoked : BOOLEAN]
Request == [pc : {"idle", "nonce", "archive", "meta", "reply"},
            upload : {NoFile} \cup Upload, nonce : Nonce]
Files == [archive : {NoFile} \cup Upload, meta : {NoFile} \cup Upload]
Counts == [upload : 0..MaxUploads, failure : Nat, restart : Nat, reset : Nat,
           missed : SUBSET Cert]

Types ==
    /\ client \in [Cert -> Nonce]
    /\ certificates \in [Cert -> Row]
    /\ post \in [Cert -> Request]
    /\ dir \in [Cert -> Files]
    /\ found \subseteq Cert
    /\ tasks \subseteq Task /\ seen \subseteq Task /\ ready \subseteq Task
    /\ exec \in [Slot -> {IdleExec} \cup Running]
    /\ used \in Counts

\* The rows that somebody holds, one by one
Held(t) == t \in seen \/ t \in ready \/ \E s \in Slot : exec[s].pc # "idle" /\ exec[s].task = t

\* What taskRunner holds was selected in one query, and what is ready was
\* not running when it was looked up: nothing is started in between.
Ids ==
    /\ \A t, u \in tasks : t.id = u.id \/ t.url = u.url => t = u
    /\ \A t, u \in seen \cup ready : t.id = u.id => t = u
    /\ \A i : i \in runningTasks <=> \E s \in Slot : exec[s].pc # "idle" /\ exec[s].task.id = i
    /\ \A t \in ready : t.id \notin runningTasks
    /\ \A r, s \in Slot : exec[r].pc # "idle" /\ exec[s].pc # "idle"
                          /\ exec[r].task.id = exec[s].task.id => r = s
    /\ \A t \in tasks : \A u \in Task : Held(u) /\ t.id = u.id => t.url = u.url

\* A request that has not moved its archive yet is alone with its certificate.
Alone ==
    \A c \in Cert : post[c].pc \in {"nonce", "archive"} =>
      /\ dir[c].archive = NoFile /\ c \notin found
      /\ \A t \in Task : t \in tasks \/ Held(t) => t.url # c

\* While an archive is there, its row is, so that there is only one id for it.
RowStays ==
    \A t \in Task : Held(t) /\ dir[t.url].archive # NoFile => \E u \in tasks : u.id = t.id

\* The archive is there from "exists" to the clean-up, and gone after that.
Progress ==
    \A s \in Slot : exec[s].pc # "idle" =>
      LET x == exec[s]
          gone == dir[x.task.url].archive = NoFile
      IN /\ x.pc \in {"unpack", "meta", "process", "removeArchive"} => ~gone
         /\ x.pc = "removeMeta" => gone
         /\ x.outcome \in {"missing", "done"} /\ x.pc \in {"finish", "unmark"} => gone
         /\ x.outcome = "missing" => x.pc \in {"finish", "unmark"}
         /\ x.outcome = "none" <=> x.pc \in {"exists", "unpack", "meta", "process"}
         /\ x.pc \in {"meta", "process"} \/ x.outcome = "done" => x.archive # NoFile

Uploading == \A c \in Cert : post[c].pc # "idle" => post[c].upload # NoFile

\* At most one goroutine is past the question whether the archive exists,
\* or found that it does not.
OneAtWork ==
    \A r, s \in Slot :
      /\ exec[r].pc \notin {"idle", "exists"} /\ exec[s].pc \notin {"idle", "exists"}
      /\ exec[r].task.url = exec[s].task.url
      /\ exec[r].outcome # "missing" /\ exec[s].outcome # "missing"
      => r = s

HourlyInv == Alone /\ RowStays /\ Progress /\ OneAtWork

QueueInv == Types /\ Ids /\ Uploading /\ (Hourly => HourlyInv)

-----------------------------------------------------------------------------
(* Types *)

\* A place that is taken is taken by a goroutine with all its fields.
LEMMA BusyRuns ==
    ASSUME Types, NEW s \in Slot, exec[s].pc # "idle"
    PROVE  exec[s] \in Running
BY DEF Types, IdleExec

\* The next row of a task: the url stays and the delays stay in their range.
LEMMA FinishedRows ==
    ASSUME tasks \subseteq Task, NEW t \in Task, NEW o
    PROVE  /\ Finished(t, o) \subseteq Task
           /\ \A u \in Finished(t, o) :
                \/ u \in tasks /\ u.id # t.id
                \/ /\ o = "failed" /\ u.id = t.id /\ u.url = t.url
                   /\ \E v \in tasks : v.id = t.id
           /\ \A v \in tasks : v.id # t.id => v \in Finished(t, o)
           /\ o = "failed" => \A v \in tasks : \E u \in Finished(t, o) : u.id = v.id
<1> DEFINE next    == IF t.delay = 0 /\ t.delay2 = 0 THEN 1 ELSE t.delay + t.delay2
           capped  == IF next > MaxDelay THEN MaxDelay ELSE next
           delayed == [t EXCEPT !.tried = TRUE, !.delay = capped, !.delay2 = t.delay]
<1>1. capped \in 0..MaxDelay
  BY MaxDelayAssumption DEF Task
<1>2. delayed \in Task /\ delayed.id = t.id /\ delayed.url = t.url
  <2> HIDE DEF capped
  <2> QED BY <1>1 DEF Task
<1> HIDE DEF delayed
<1>3. Finished(t, o) = IF o = "failed"
                       THEN {IF u.id = t.id THEN delayed ELSE u : u \in tasks}
                       ELSE {u \in tasks : u.id # t.id}
  BY DEF Finished, delayed
<1> QED BY <1>2, <1>3

\* A step of the goroutine at s in its own variables: it keeps its task.
Works(s) ==
    /\ exec[s] \in Running
    /\ exec' \in [Slot -> {IdleExec} \cup Running]
    /\ exec'[s] \in Running /\ exec'[s].task = exec[s].task
    /\ \A r \in Slot : r # s => exec'[r] = exec[r]

LEMMA ExecWorks ==
    ASSUME Types, NEW s \in Slot,
           \/ ExecExists(s) \/ ExecNoTempDir(s) \/ ExecUnpack(s) \/ ExecMeta(s)
           \/ ExecProcess(s) \/ ExecRemoveArchive(s) \/ ExecRemoveMeta(s) \/ ExecFinish(s)
    PROVE  Works(s)
<1>0. exec[s] \in Running
  BY BusyRuns DEF ExecExists, ExecNoTempDir, ExecUnpack, ExecMeta, ExecProcess,
                  ExecRemoveArchive, ExecRemoveMeta, ExecFinish
<1> SUFFICES ASSUME NEW x \in Running, x.task = exec[s].task,
                    exec' = [exec EXCEPT ![s] = x]
             PROVE  Works(s)
  <2>1. CASE ExecExists(s)
    BY <1>0, <2>1 DEF ExecExists, Running, Pc
  <2>2. CASE ExecNoTempDir(s)
    BY <1>0, <2>2 DEF ExecNoTempDir, Running, Pc
  <2>3. CASE ExecUnpack(s)
    <3>1. dir[exec[s].task.url].archive \in {NoFile} \cup Upload
      BY <1>0 DEF Types, Running, Task, Files
    <3> QED  BY <1>0, <2>3, <3>1 DEF ExecUnpack, Running, Pc
  <2>4. CASE ExecMeta(s)
    BY <1>0, <2>4 DEF ExecMeta, Running, Pc
  <2>5. CASE ExecProcess(s)
    BY <1>0, <2>5 DEF ExecProcess, Running, Pc
  <2>6. CASE ExecRemoveArchive(s)
    BY <1>0, <2>6 DEF ExecRemoveArchive, Running, Pc
  <2>7. CASE ExecRemoveMeta(s)
    BY <1>0, <2>7 DEF ExecRemoveMeta, Running, Pc
  <2>8. CASE ExecFinish(s)
    BY <1>0, <2>8 DEF ExecFinish, Running, Pc
  <2> QED
    BY <2>1, <2>2, <2>3, <2>4, <2>5, <2>6, <2>7, <2>8
<1> QED
  BY <1>0 DEF Works, Types

LEMMA TypesStart == Init => Types /\ Ids /\ Uploading
BY NonceAssumption, BoundsAssumption
   DEF Init, Types, Ids, Uploading, IdlePost, IdleExec, NoFile, Held, Row, Request, Files, Counts

\* One more of what is counted
LEMMA UsedStep ==
    ASSUME used \in Counts
    PROVE  /\ used.upload < MaxUploads =>
                /\ [used EXCEPT !.upload = @ + 1] \in Counts
                /\ used.upload + 1 \in Upload
           /\ [used EXCEPT !.failure = @ + 1] \in Counts
           /\ \A m \in SUBSET Cert :
                /\ [used EXCEPT !.failure = @ + 1, !.missed = @ \cup m] \in Counts
                /\ [used EXCEPT !.restart = @ + 1, !.missed = @ \cup m] \in Counts
           /\ [used EXCEPT !.reset = @ + 1] \in Counts
<1>1. used.upload \in 0..MaxUploads /\ used.failure \in Nat /\ used.restart \in Nat /\ used.reset \in Nat
      /\ used.missed \subseteq Cert
  BY DEF Counts
<1>2. MaxUploads \in Nat
  BY BoundsAssumption
<1>3. used.upload < MaxUploads =>
        used.upload + 1 \in 0..MaxUploads /\ used.upload + 1 \in Upload
  BY <1>1, <1>2 DEF Upload
<1>4. used.failure + 1 \in Nat /\ used.restart + 1 \in Nat /\ used.reset + 1 \in Nat
  BY <1>1
<1> QED
  BY <1>3, <1>4 DEF Counts

LEMMA TaskRows ==
    /\ \A id \in TaskId, c \in Cert :
         [id |-> id, url |-> c, tried |-> FALSE, delay |-> 0, delay2 |-> 0] \in Task
    /\ \A t \in Task : [t EXCEPT !.delay = 0, !.delay2 = 0] \in Task
<1>1. 0 \in 0..MaxDelay
  BY MaxDelayAssumption
<1>2. \A id \in TaskId, c \in Cert :
        [id |-> id, url |-> c, tried |-> FALSE, delay |-> 0, delay2 |-> 0] \in Task
  BY <1>1, Zenon DEF Task
<1>3. ASSUME NEW t \in Task PROVE [t EXCEPT !.delay = 0, !.delay2 = 0] \in Task
  BY <1>1 DEF Task
<1> QED
  BY <1>2, <1>3

LEMMA RequestRows ==
    /\ IdlePost \in Request
    /\ \A u \in Upload : [pc |-> "nonce", nonce |-> 0, upload |-> u] \in Request
    /\ \A r \in Request, n \in Nonce : [r EXCEPT !.pc = "archive", !.nonce = n] \in Request
    /\ \A r \in Request : [r EXCEPT !.pc = "meta"] \in Request /\ [r EXCEPT !.pc = "reply"] \in Request
    /\ \A u \in Upload : u # NoFile
    /\ \A r \in Request : r.nonce \in Nonce /\ r.upload \in {NoFile} \cup Upload
<1>1. IdlePost \in Request
  BY NonceAssumption DEF Request, IdlePost, NoFile
<1>2. \A u \in Upload : [pc |-> "nonce", nonce |-> 0, upload |-> u] \in Request
  BY NonceAssumption DEF Request
<1>3. ASSUME NEW r \in Request, NEW n \in Nonce
      PROVE  [r EXCEPT !.pc = "archive", !.nonce = n] \in Request
  BY DEF Request
<1>4. ASSUME NEW r \in Request
      PROVE  [r EXCEPT !.pc = "meta"] \in Request /\ [r EXCEPT !.pc = "reply"] \in Request
  BY DEF Request
<1>5. \A u \in Upload : u # NoFile
  BY BoundsAssumption DEF Upload, NoFile
<1>6. \A r \in Request : r.nonce \in Nonce /\ r.upload \in {NoFile} \cup Upload
  BY DEF Request
<1> QED
  BY <1>1, <1>2, <1>3, <1>4, <1>5, <1>6

\* The steps of the client's request
LEMMA PostTypes ==
    ASSUME Types, Uploading, NEW c \in Cert,
           PostCheck(c) \/ PostNonce(c) \/ PostArchive(c) \/ PostMeta(c) \/ PostReply(c) \/ PostFail(c)
    PROVE  Types' /\ Uploading'
<1>1. post[c] \in Request /\ certificates[c] \in Row /\ dir[c] \in Files
  BY DEF Types
<1>2. \E r \in Request : /\ post' = post \/ post' = [post EXCEPT ![c] = r]
                         /\ r.pc # "idle" => r.upload # NoFile
  <2>1. CASE PostCheck(c)
    BY <2>1, <1>1, UsedStep, RequestRows DEF PostCheck, Types, Uploading
  <2>2. CASE PostNonce(c)
    <3>1. PICK n \in Nonce : post' = [post EXCEPT ![c] = [post[c] EXCEPT !.pc = "archive", !.nonce = n]]
      BY <2>2 DEF PostNonce
    <3>2. [post[c] EXCEPT !.pc = "archive", !.nonce = n].upload = post[c].upload
      BY <1>1 DEF Request
    <3> QED  BY <3>1, <3>2, <1>1, <2>2, RequestRows DEF PostNonce, Uploading
  <2>3. CASE PostArchive(c)
    <3>1. [post[c] EXCEPT !.pc = "meta"].upload = post[c].upload
      BY <1>1 DEF Request
    <3> QED  BY <3>1, <1>1, <2>3, RequestRows DEF PostArchive, Uploading
  <2>4. CASE PostMeta(c)
    <3>1. [post[c] EXCEPT !.pc = "reply"].upload = post[c].upload
      BY <1>1 DEF Request
    <3> QED  BY <3>1, <1>1, <2>4, RequestRows DEF PostMeta, Uploading
  <2>5. CASE PostReply(c) \/ PostFail(c)
    BY <2>5, RequestRows DEF PostReply, PostFail, IdlePost
  <2> QED
    BY <2>1, <2>2, <2>3, <2>4, <2>5
<1>3. post' \in [Cert -> Request] /\ Uploading'
  BY <1>2 DEF Types, Uploading
<1>4. used' \in Counts
  <2>1. CASE PostFail(c)
    <3>1. NonceStored \cap {c} \in SUBSET Cert
      BY DEF NonceStored
    <3> QED
      BY <2>1, <3>1, UsedStep DEF PostFail, Types
  <2> QED
    BY <2>1, UsedStep DEF PostCheck, PostNonce, PostArchive, PostMeta, PostReply, Types
<1>5. certificates' \in [Cert -> Row]
  <2>1. [certificates[c] EXCEPT !.revoked = TRUE] \in Row
    BY <1>1 DEF Row
  <2>2. \A n \in Nonce : [certificates[c] EXCEPT !.nonce = n] \in Row
    BY <1>1 DEF Row
  <2>3. \/ certificates' = certificates
        \/ certificates' = [certificates EXCEPT ![c] = [certificates[c] EXCEPT !.revoked = TRUE]]
        \/ \E n \in Nonce : certificates' = [certificates EXCEPT ![c] = [certificates[c] EXCEPT !.nonce = n]]
    BY DEF PostCheck, PostNonce, PostArchive, PostMeta, PostReply, PostFail
  <2> QED  BY <2>1, <2>2, <2>3 DEF Types
<1>6. dir' \in [Cert -> Files]
  <2>1. post[c].upload \in {NoFile} \cup Upload
    BY <1>1, RequestRows
  <2> QED
    BY <2>1 DEF PostCheck, PostNonce, PostArchive, PostMeta, PostReply, PostFail, Types, Files
<1>7. client' \in [Cert -> Nonce]
  BY <1>1, RequestRows DEF PostCheck, PostNonce, PostArchive, PostMeta, PostReply, PostFail, Types
<1>8. UNCHANGED <<tasks, found, seen, ready, exec>>
  BY DEF PostCheck, PostNonce, PostArchive, PostMeta, PostReply, PostFail, server
<1> QED
  BY <1>3, <1>4, <1>5, <1>6, <1>7, <1>8 DEF Types

LEMMA TypesStep ==
    ASSUME Types, Uploading, [Next]_vars
    PROVE  Types' /\ Uploading'
<1>1. ASSUME NEW c \in Cert,
             PostCheck(c) \/ PostNonce(c) \/ PostArchive(c) \/ PostMeta(c) \/ PostReply(c) \/ PostFail(c)
      PROVE  Types' /\ Uploading'
  BY <1>1, PostTypes
<1>2. ASSUME NEW c \in Cert, ScanInsert(c) PROVE Types' /\ Uploading'
  <2>1. tasks' \subseteq Task
    <3> DEFINE row(id) == [id |-> id, url |-> c, tried |-> FALSE, delay |-> 0, delay2 |-> 0]
    <3>1. tasks' = tasks \/ \E id \in TaskId : tasks' = tasks \cup {row(id)}
      BY <1>2 DEF ScanInsert
    <3>2. \A id \in TaskId : row(id) \in Task
      BY TaskRows
    <3> HIDE DEF row
    <3> QED  BY <3>1, <3>2 DEF Types
  <2> QED  BY <1>2, <2>1 DEF ScanInsert, Types, Uploading
<1>3. CASE ScanList
  BY <1>3 DEF ScanList, Types, Uploading
<1>4. CASE RunnerSelect \/ RunnerCheck \/ RunnerLeave
  BY <1>4 DEF RunnerSelect, RunnerCheck, RunnerLeave, Types, Uploading
<1>5. ASSUME NEW s \in Slot, RunnerStart(s) PROVE Types' /\ Uploading'
  BY <1>5 DEF RunnerStart, Running, Pc, Types, Uploading
<1>6. ASSUME NEW s \in Slot, ExecUnmark(s) PROVE Types' /\ Uploading'
  BY <1>6 DEF ExecUnmark, Types, Uploading
<1>7. ASSUME NEW s \in Slot,
              \/ ExecExists(s) \/ ExecNoTempDir(s) \/ ExecUnpack(s) \/ ExecMeta(s)
              \/ ExecProcess(s) \/ ExecRemoveArchive(s) \/ ExecRemoveMeta(s) \/ ExecFinish(s)
      PROVE  Types' /\ Uploading'
  <2>1. Works(s)
    BY <1>7, ExecWorks
  <2>2. exec' \in [Slot -> {IdleExec} \cup Running] /\ exec[s].task \in Task
    BY <2>1 DEF Works, Running
  <2>3. used' \in Counts
    BY <1>7, UsedStep
       DEF ExecExists, ExecNoTempDir, ExecUnpack, ExecMeta, ExecProcess,
           ExecRemoveArchive, ExecRemoveMeta, ExecFinish, Types
  <2>4. dir' \in [Cert -> Files]
    BY <1>7 DEF ExecExists, ExecNoTempDir, ExecUnpack, ExecMeta, ExecProcess,
                ExecRemoveArchive, ExecRemoveMeta, ExecFinish, Types, Files
  <2>5. tasks' \subseteq Task
    BY <1>7, <2>2, FinishedRows
       DEF ExecExists, ExecNoTempDir, ExecUnpack, ExecMeta, ExecProcess,
           ExecRemoveArchive, ExecRemoveMeta, ExecFinish, Types
  <2>6. UNCHANGED <<client, certificates, post, found, seen, ready>>
    BY <1>7 DEF ExecExists, ExecNoTempDir, ExecUnpack, ExecMeta, ExecProcess,
                ExecRemoveArchive, ExecRemoveMeta, ExecFinish
  <2> QED
    BY <2>2, <2>3, <2>4, <2>5, <2>6 DEF Types, Uploading
<1>8. CASE ResetWaitingTime
  <2>1. tasks' \subseteq Task
    BY <1>8, TaskRows DEF ResetWaitingTime, Types
  <2> QED  BY <1>8, <2>1, UsedStep DEF ResetWaitingTime, server, Types, Uploading
<1>9. CASE Restart
  <2>1. NonceStored \in SUBSET Cert
    BY DEF NonceStored
  <2>2. used' \in Counts
    BY <1>9, <2>1, UsedStep DEF Restart, Types
  <2> QED
    BY <1>9, <2>2, RequestRows DEF Restart, Types, Uploading, IdlePost
<1>10. CASE UNCHANGED vars
  BY <1>10 DEF vars, server, Types, Uploading
<1> QED
  BY <1>1, <1>2, <1>3, <1>4, <1>5, <1>6, <1>7, <1>8, <1>9, <1>10 DEF Next, Post, Exec

-----------------------------------------------------------------------------
(* Who holds which row *)

\* A goroutine that works on takes nothing and gives nothing back.
SameHolders ==
    /\ \A r \in Slot : /\ exec'[r].pc # "idle" <=> exec[r].pc # "idle"
                       /\ exec[r].pc # "idle" => exec'[r].task = exec[r].task
    /\ \A t : Held(t)' <=> Held(t)

LEMMA WorksHolds ==
    ASSUME NEW s \in Slot, Works(s), UNCHANGED <<seen, ready>>
    PROVE  SameHolders
<1>1. \A r \in Slot : /\ exec'[r].pc # "idle" <=> exec[r].pc # "idle"
                      /\ exec[r].pc # "idle" => exec'[r].task = exec[r].task
  BY DEF Works, Running, Pc
<1> QED
  BY <1>1 DEF SameHolders, Held

LEMMA FreshId ==
    ASSUME NEW i, i \notin UsedIds
    PROVE  /\ \A t : t \in tasks \/ Held(t) => t.id # i
           /\ i \notin runningTasks
BY DEF UsedIds, Listed, Busy, Held

\* Rows are changed under their ids and urls, and only those that nobody
\* holds or that a holder is done with go.
LEMMA IdsKept ==
    ASSUME Ids, SameHolders, UNCHANGED <<seen, ready, runningTasks>>,
           \A u \in tasks' : \E v \in tasks : u.id = v.id /\ u.url = v.url,
           \A u, v \in tasks' : u.id = v.id => u = v
    PROVE  Ids'
<1>1. \A t, u \in tasks' : t.id = u.id \/ t.url = u.url => t = u
  BY DEF Ids
<1>2. \A i : i \in runningTasks' <=> \E s \in Slot : exec'[s].pc # "idle" /\ exec'[s].task.id = i
  BY DEF Ids, SameHolders
<1>3. \A r, s \in Slot : exec'[r].pc # "idle" /\ exec'[s].pc # "idle"
                          /\ exec'[r].task.id = exec'[s].task.id => r = s
  BY DEF Ids, SameHolders
<1>4. \A t \in tasks' : \A u \in Task : Held(u)' /\ t.id = u.id => t.url = u.url
  BY DEF Ids, SameHolders
<1> QED
  BY <1>1, <1>2, <1>3, <1>4 DEF Ids

LEMMA FinishIds ==
    ASSUME Types, Ids, NEW s \in Slot, ExecFinish(s)
    PROVE  /\ \A u \in tasks' : \E v \in tasks : u.id = v.id /\ u.url = v.url
           /\ \A u, v \in tasks' : u.id = v.id => u = v
<1> DEFINE t == exec[s].task
<1>1. t \in Task /\ Held(t)
  BY BusyRuns DEF ExecFinish, Running, Held
<1>2. tasks \subseteq Task /\ tasks' = Finished(t, exec[s].outcome)
  BY DEF ExecFinish, Types
<1>3. \A v \in tasks : v.id = t.id => v.url = t.url
  BY <1>1 DEF Ids
<1>4. \A u \in tasks' : \/ u \in tasks /\ u.id # t.id
                        \/ u.id = t.id /\ u.url = t.url /\ \E v \in tasks : v.id = t.id
  BY <1>1, <1>2, FinishedRows
<1>5. \A u, v \in tasks' : u.id = t.id /\ v.id = t.id => u = v
  BY <1>2 DEF Finished, Ids
<1> QED
  BY <1>3, <1>4, <1>5 DEF Ids

LEMMA IdsStep ==
    ASSUME Types, Ids, [Next]_vars
    PROVE  Ids'
<1>1. ASSUME UNCHANGED <<tasks, seen, ready, runningTasks, exec>>
      PROVE  Ids'
  BY <1>1 DEF Ids, Held
<1>2. ASSUME NEW c \in Cert, ScanInsert(c) PROVE Ids'
  <2>1. CASE tasks' = tasks
    BY <2>1, <1>1, <1>2 DEF ScanInsert
  <2>2. CASE ~\E t \in tasks : t.url = c
    <3>1. PICK i \in TaskId \ UsedIds :
            tasks' = tasks \cup {[id |-> i, url |-> c, tried |-> FALSE, delay |-> 0, delay2 |-> 0]}
      BY <1>2, <2>2 DEF ScanInsert
    <3> DEFINE row == [id |-> i, url |-> c, tried |-> FALSE, delay |-> 0, delay2 |-> 0]
    <3>2. row.id = i /\ row.url = c /\ tasks' = tasks \cup {row}
      BY <3>1
    <3>3. \A t : Held(t)' <=> Held(t)
      BY <1>2 DEF ScanInsert, Held
    <3>4. \A t : t \in tasks \/ Held(t) => t.id # i
      BY <3>1, FreshId
    <3>5. \A t, u \in tasks' : t.id = u.id \/ t.url = u.url => t = u
      <4> HIDE DEF row
      <4> QED  BY <3>2, <3>4, <2>2 DEF Ids
    <3>6. \A t \in tasks' : \A u \in Task : Held(u)' /\ t.id = u.id => t.url = u.url
      <4> HIDE DEF row
      <4> QED  BY <3>2, <3>3, <3>4 DEF Ids
    <3> QED
      BY <1>2, <3>5, <3>6 DEF ScanInsert, Ids
  <2> QED
    BY <2>1, <2>2, <1>2 DEF ScanInsert
<1>3. CASE RunnerSelect
  BY <1>3 DEF RunnerSelect, Ids, Held
<1>4. CASE RunnerCheck
  <2>1. \A t : Held(t)' => Held(t)
    BY <1>4 DEF RunnerCheck, Held
  <2> QED
    BY <1>4, <2>1 DEF RunnerCheck, Ids
<1>5. CASE RunnerLeave
  <2>1. \A t : Held(t)' => Held(t)
    BY <1>5 DEF RunnerLeave, Held
  <2> QED
    BY <1>5, <2>1 DEF RunnerLeave, Ids
<1>6. ASSUME NEW s \in Slot, RunnerStart(s) PROVE Ids'
  <2>1. PICK t \in ready : /\ ready' = ready \ {t}
                           /\ runningTasks' = runningTasks \cup {t.id}
                           /\ exec' = [exec EXCEPT ![s] = [pc |-> "exists", task |-> t,
                                        archive |-> NoFile, outcome |-> "none"]]
    BY <1>6 DEF RunnerStart
  <2>2. exec'[s].pc # "idle" /\ exec'[s].task = t /\ \A r \in Slot : r # s => exec'[r] = exec[r]
    BY <2>1 DEF Types
  <2>3. exec[s].pc = "idle" /\ seen = {} /\ seen' = {} /\ tasks' = tasks
    BY <1>6 DEF RunnerStart
  <2>4. \A u : Held(u)' => Held(u)
    BY <2>1, <2>2, <2>3 DEF Held
  <2>5. t.id \notin runningTasks /\ \A u \in ready' : u.id # t.id
    BY <2>1 DEF Ids
  <2>6. \A i : i \in runningTasks' <=> \E r \in Slot : exec'[r].pc # "idle" /\ exec'[r].task.id = i
    BY <2>1, <2>2, <2>3 DEF Ids
  <2>7. \A q, r \in Slot : exec'[q].pc # "idle" /\ exec'[r].pc # "idle"
                          /\ exec'[q].task.id = exec'[r].task.id => q = r
    BY <2>2, <2>5 DEF Ids
  <2> QED
    BY <2>1, <2>3, <2>4, <2>5, <2>6, <2>7 DEF Ids
<1>7. ASSUME NEW s \in Slot, ExecUnmark(s) PROVE Ids'
  <2>1. exec'[s].pc = "idle" /\ \A r \in Slot : r # s => exec'[r] = exec[r]
    BY <1>7 DEF ExecUnmark, Types, IdleExec
  <2>2. exec[s].pc # "idle" /\ runningTasks' = runningTasks \ {exec[s].task.id}
        /\ UNCHANGED <<tasks, seen, ready>>
    BY <1>7 DEF ExecUnmark
  <2>3. \A u : Held(u)' => Held(u)
    BY <2>1, <2>2 DEF Held
  <2>4. \A i : i \in runningTasks' <=> \E r \in Slot : exec'[r].pc # "idle" /\ exec'[r].task.id = i
    BY <2>1, <2>2 DEF Ids
  <2>5. \A q, r \in Slot : exec'[q].pc # "idle" /\ exec'[r].pc # "idle"
                          /\ exec'[q].task.id = exec'[r].task.id => q = r
    BY <2>1 DEF Ids
  <2> QED
    BY <2>2, <2>3, <2>4, <2>5 DEF Ids
<1>8. ASSUME NEW s \in Slot,
             \/ ExecExists(s) \/ ExecNoTempDir(s) \/ ExecUnpack(s) \/ ExecMeta(s)
             \/ ExecProcess(s) \/ ExecRemoveArchive(s) \/ ExecRemoveMeta(s) \/ ExecFinish(s)
      PROVE  Ids'
  <2>1. Works(s)
    BY <1>8, ExecWorks
  <2>2. UNCHANGED <<seen, ready, runningTasks>>
    BY <1>8 DEF ExecExists, ExecNoTempDir, ExecUnpack, ExecMeta, ExecProcess,
                ExecRemoveArchive, ExecRemoveMeta, ExecFinish
  <2>3. SameHolders
    BY <2>1, <2>2, WorksHolds
  <2>4. tasks' = tasks \/ ExecFinish(s)
    BY <1>8 DEF ExecExists, ExecNoTempDir, ExecUnpack, ExecMeta, ExecProcess,
                ExecRemoveArchive, ExecRemoveMeta
  <2>5. /\ \A u \in tasks' : \E v \in tasks : u.id = v.id /\ u.url = v.url
        /\ \A u, v \in tasks' : u.id = v.id => u = v
    <3>1. CASE tasks' = tasks
      BY <3>1 DEF Ids
    <3> QED
      BY <3>1, <2>4, FinishIds
  <2> QED
    BY <2>2, <2>3, <2>5, IdsKept
<1>9. CASE ResetWaitingTime
  <2>1. UNCHANGED <<seen, ready, runningTasks, exec>>
    BY <1>9 DEF ResetWaitingTime, server
  <2>2. SameHolders
    BY <2>1 DEF SameHolders, Held
  <2> DEFINE reset(t) == IF t.tried /\ t.delay > 0 THEN [t EXCEPT !.delay = 0, !.delay2 = 0] ELSE t
  <2>3. \A t \in tasks : reset(t).id = t.id /\ reset(t).url = t.url
    BY DEF Types, Task
  <2>5. tasks' = {reset(t) : t \in tasks}
    BY <1>9 DEF ResetWaitingTime
  <2> HIDE DEF reset
  <2>4. /\ \A u \in tasks' : \E v \in tasks : u.id = v.id /\ u.url = v.url
        /\ \A u, v \in tasks' : u.id = v.id => u = v
    BY <2>3, <2>5 DEF Ids
  <2> QED
    BY <2>1, <2>2, <2>4, IdsKept
<1>10. CASE Restart
  BY <1>10 DEF Restart, Ids, Held, IdleExec
<1> QED
  <2>1. CASE \E c \in Cert : PostCheck(c) \/ Post(c) \/ PostFail(c)
    BY <2>1, <1>1 DEF PostCheck, Post, PostNonce, PostArchive, PostMeta, PostReply, PostFail, server
  <2>2. CASE ScanList \/ UNCHANGED vars
    BY <2>2, <1>1 DEF ScanList, vars, server
  <2> QED
    BY <2>1, <2>2, <1>2, <1>3, <1>4, <1>5, <1>6, <1>7, <1>8, <1>9, <1>10 DEF Next, Exec

-----------------------------------------------------------------------------
(* What a step can do to the queue, the rows and those who hold them *)

LEMMA HeldStep ==
    ASSUME Types, [Next]_vars
    PROVE  \A t : Held(t)' => Held(t) \/ (t \in tasks /\ RunnerSelect)
<1>1. CASE UNCHANGED <<seen, ready, exec>>
  BY <1>1 DEF Held
<1>2. CASE RunnerSelect \/ RunnerCheck \/ RunnerLeave
  BY <1>2 DEF RunnerSelect, RunnerCheck, RunnerLeave, Held
<1>3. ASSUME NEW s \in Slot, RunnerStart(s) PROVE \A t : Held(t)' => Held(t)
  <2>1. PICK t \in ready : /\ ready' = ready \ {t}
                           /\ exec' = [exec EXCEPT ![s] = [pc |-> "exists", task |-> t,
                                        archive |-> NoFile, outcome |-> "none"]]
    BY <1>3 DEF RunnerStart
  <2>2. exec'[s].task = t /\ \A r \in Slot : r # s => exec'[r] = exec[r]
    BY <2>1 DEF Types
  <2> QED
    BY <1>3, <2>1, <2>2 DEF Held, RunnerStart
<1>4. ASSUME NEW s \in Slot, ExecUnmark(s) PROVE \A t : Held(t)' => Held(t)
  <2>1. exec'[s].pc = "idle" /\ \A r \in Slot : r # s => exec'[r] = exec[r]
    BY <1>4 DEF ExecUnmark, Types, IdleExec
  <2> QED
    BY <1>4, <2>1 DEF Held, ExecUnmark
<1>5. ASSUME NEW s \in Slot,
             \/ ExecExists(s) \/ ExecNoTempDir(s) \/ ExecUnpack(s) \/ ExecMeta(s)
             \/ ExecProcess(s) \/ ExecRemoveArchive(s) \/ ExecRemoveMeta(s) \/ ExecFinish(s)
      PROVE  \A t : Held(t)' => Held(t)
  <2>1. UNCHANGED <<seen, ready>>
    BY <1>5 DEF ExecExists, ExecNoTempDir, ExecUnpack, ExecMeta, ExecProcess,
                ExecRemoveArchive, ExecRemoveMeta, ExecFinish
  <2> QED
    BY <1>5, <2>1, ExecWorks, WorksHolds DEF SameHolders
<1>6. CASE Restart
  BY <1>6 DEF Restart, Held, IdleExec
<1> QED
  <2>1. CASE \E c \in Cert : PostCheck(c) \/ Post(c) \/ PostFail(c)
    BY <2>1, <1>1 DEF PostCheck, Post, PostNonce, PostArchive, PostMeta, PostReply, PostFail, server
  <2>2. CASE \/ ScanList \/ ResetWaitingTime \/ UNCHANGED vars
             \/ \E c \in Cert : ScanInsert(c)
    BY <2>2, <1>1 DEF ScanList, ScanInsert, ResetWaitingTime, vars, server
  <2> QED
    BY <2>1, <2>2, <1>2, <1>3, <1>4, <1>5, <1>6 DEF Next, Exec

\* Only the scan makes rows; only a goroutine that is done deletes one.
LEMMA RowsStep ==
    ASSUME Types, Ids, [Next]_vars
    PROVE  /\ \A u \in tasks' : \/ \E v \in tasks : u.id = v.id /\ u.url = v.url
                                \/ u.url \in found
           /\ \A v \in tasks : \/ \E u \in tasks' : u.id = v.id
                               \/ \E s \in Slot : /\ ExecFinish(s) /\ exec[s].outcome # "failed"
                                                  /\ exec[s].task.id = v.id
<1>1. CASE tasks' = tasks
  BY <1>1
<1>2. ASSUME NEW c \in Cert, ScanInsert(c)
      PROVE  /\ c \in found /\ tasks \subseteq tasks'
             /\ \A u \in tasks' : u \in tasks \/ u.url = c
  BY <1>2 DEF ScanInsert
<1>3. ASSUME NEW s \in Slot, ExecFinish(s)
      PROVE  /\ \A u \in tasks' : \E v \in tasks : u.id = v.id /\ u.url = v.url
             /\ \A v \in tasks : \/ \E u \in tasks' : u.id = v.id
                                 \/ exec[s].outcome # "failed" /\ exec[s].task.id = v.id
  <2>1. exec[s].task \in Task /\ tasks \subseteq Task /\ tasks' = Finished(exec[s].task, exec[s].outcome)
    BY <1>3, BusyRuns DEF ExecFinish, Running, Types
  <2> QED
    BY <1>3, <2>1, FinishIds, FinishedRows
<1>4. CASE ResetWaitingTime
  <2> DEFINE reset(t) == IF t.tried /\ t.delay > 0 THEN [t EXCEPT !.delay = 0, !.delay2 = 0] ELSE t
  <2>1. \A t \in tasks : reset(t).id = t.id /\ reset(t).url = t.url
    BY DEF Types, Task
  <2>2. tasks' = {reset(t) : t \in tasks}
    BY <1>4 DEF ResetWaitingTime
  <2> HIDE DEF reset
  <2> QED
    BY <2>1, <2>2
<1> QED
  <2>1. CASE \E c \in Cert : PostCheck(c) \/ Post(c) \/ PostFail(c)
    BY <2>1, <1>1 DEF PostCheck, Post, PostNonce, PostArchive, PostMeta, PostReply, PostFail
  <2>2. CASE \/ ScanList \/ RunnerSelect \/ RunnerCheck \/ RunnerLeave \/ Restart \/ UNCHANGED vars
             \/ \E s \in Slot : RunnerStart(s) \/ ExecUnmark(s)
    BY <2>2, <1>1 DEF ScanList, RunnerSelect, RunnerCheck, RunnerLeave, Restart, vars,
                      RunnerStart, ExecUnmark
  <2>3. CASE \E s \in Slot :
                \/ ExecExists(s) \/ ExecNoTempDir(s) \/ ExecUnpack(s) \/ ExecMeta(s)
                \/ ExecProcess(s) \/ ExecRemoveArchive(s) \/ ExecRemoveMeta(s)
    BY <2>3, <1>1 DEF ExecExists, ExecNoTempDir, ExecUnpack, ExecMeta, ExecProcess,
                      ExecRemoveArchive, ExecRemoveMeta
  <2> QED
    BY <2>1, <2>2, <2>3, <1>2, <1>3, <1>4 DEF Next, Exec

\* Archives come from a request and go with a clean-up.
LEMMA ArchivesStep ==
    ASSUME Types, [Next]_vars
    PROVE  \A c \in Cert :
             \/ dir'[c].archive = dir[c].archive
             \/ PostArchive(c)
             \/ \E s \in Slot : ExecRemoveArchive(s) /\ exec[s].task.url = c /\ dir'[c].archive = NoFile
<1>1. CASE UNCHANGED dir
  BY <1>1
<1>2. ASSUME NEW d \in Cert, PostArchive(d) \/ PostMeta(d), NEW c \in Cert
      PROVE  dir'[c].archive = dir[c].archive \/ PostArchive(c)
  BY <1>2 DEF PostArchive, PostMeta, Types, Files
<1>3. ASSUME NEW s \in Slot, ExecRemoveArchive(s) \/ ExecRemoveMeta(s), NEW c \in Cert
      PROVE  \/ dir'[c].archive = dir[c].archive
             \/ ExecRemoveArchive(s) /\ exec[s].task.url = c /\ dir'[c].archive = NoFile
  BY <1>3 DEF ExecRemoveArchive, ExecRemoveMeta, Types, Files
<1> QED
  <2>1. CASE \E c \in Cert : \/ PostCheck(c) \/ PostNonce(c) \/ PostReply(c) \/ PostFail(c)
                             \/ ScanInsert(c)
    BY <2>1, <1>1 DEF PostCheck, PostNonce, PostReply, PostFail, ScanInsert
  <2>2. CASE \/ ScanList \/ RunnerSelect \/ RunnerCheck \/ RunnerLeave \/ Restart
             \/ ResetWaitingTime \/ UNCHANGED vars
    BY <2>2, <1>1 DEF ScanList, RunnerSelect, RunnerCheck, RunnerLeave, Restart,
                      ResetWaitingTime, vars
  <2>3. CASE \E s \in Slot :
                \/ RunnerStart(s) \/ ExecUnmark(s) \/ ExecFinish(s)
                \/ ExecExists(s) \/ ExecNoTempDir(s) \/ ExecUnpack(s) \/ ExecMeta(s)
                \/ ExecProcess(s)
    BY <2>3, <1>1 DEF RunnerStart, ExecUnmark, ExecFinish, ExecExists, ExecNoTempDir,
                      ExecUnpack, ExecMeta, ExecProcess
  <2> QED
    BY <2>1, <2>2, <2>3, <1>2, <1>3 DEF Next, Post, Exec

LEMMA RequestsStep ==
    ASSUME Types, [Next]_vars, NEW c \in Cert, post'[c].pc \in {"nonce", "archive"}
    PROVE  \/ PostCheck(c)
           \/ post[c].pc \in {"nonce", "archive"} /\ ~PostArchive(c)
<1> USE DEF Types, Request, IdlePost
<1>1. CASE UNCHANGED post
  BY <1>1 DEF PostArchive
<1>2. ASSUME NEW d \in Cert,
             PostCheck(d) \/ PostNonce(d) \/ PostArchive(d) \/ PostMeta(d) \/ PostReply(d) \/ PostFail(d)
      PROVE  \/ PostCheck(c)
             \/ post[c].pc \in {"nonce", "archive"} /\ ~PostArchive(c)
  <2>1. CASE d = c
    BY <1>2, <2>1 DEF PostCheck, PostNonce, PostArchive, PostMeta, PostReply, PostFail
  <2>2. CASE d # c
    BY <1>2, <2>2 DEF PostCheck, PostNonce, PostArchive, PostMeta, PostReply, PostFail
  <2> QED  BY <2>1, <2>2
<1>3. CASE Restart
  BY <1>3 DEF Restart
<1> QED
  <2>1. CASE \/ ScanList \/ RunnerSelect \/ RunnerCheck \/ RunnerLeave
             \/ ResetWaitingTime \/ UNCHANGED vars \/ \E d \in Cert : ScanInsert(d)
    BY <2>1, <1>1 DEF ScanList, RunnerSelect, RunnerCheck, RunnerLeave,
                      ResetWaitingTime, vars, ScanInsert
  <2>2. CASE \E s \in Slot :
                \/ RunnerStart(s) \/ ExecUnmark(s) \/ ExecFinish(s)
                \/ ExecExists(s) \/ ExecNoTempDir(s) \/ ExecUnpack(s) \/ ExecMeta(s)
                \/ ExecProcess(s) \/ ExecRemoveArchive(s) \/ ExecRemoveMeta(s)
    BY <2>2, <1>1 DEF RunnerStart, ExecUnmark, ExecFinish, ExecExists, ExecNoTempDir,
                      ExecUnpack, ExecMeta, ExecProcess, ExecRemoveArchive, ExecRemoveMeta
  <2> QED
    BY <2>1, <2>2, <1>2, <1>3 DEF Next, Post, Exec

-----------------------------------------------------------------------------
(* Clients that post hourly *)

\* Two rows for one archive that is there are one row.
LEMMA OneHolder ==
    ASSUME Types, Ids, RowStays, NEW r \in Slot, NEW s \in Slot,
           exec[r].pc # "idle", exec[s].pc # "idle",
           exec[r].task.url = exec[s].task.url, dir[exec[s].task.url].archive # NoFile
    PROVE  r = s
<1>1. /\ exec[r].task \in Task /\ exec[s].task \in Task
      /\ Held(exec[r].task) /\ Held(exec[s].task)
  BY BusyRuns DEF Running, Held
<1>2. PICK u \in tasks : u.id = exec[r].task.id
  BY <1>1 DEF RowStays
<1>3. PICK v \in tasks : v.id = exec[s].task.id
  BY <1>1 DEF RowStays
<1>4. u.url = v.url
  BY <1>1, <1>2, <1>3 DEF Ids
<1>5. exec[r].task.id = exec[s].task.id
  BY <1>2, <1>3, <1>4 DEF Ids
<1> QED
  BY <1>5 DEF Ids

LEMMA AloneStep ==
    ASSUME Hourly, Types, Ids, Alone, [Next]_vars
    PROVE  Alone'
<1> SUFFICES ASSUME NEW c \in Cert, post'[c].pc \in {"nonce", "archive"}
             PROVE  /\ dir'[c].archive = NoFile /\ c \notin found'
                    /\ \A t \in Task : t \in tasks' \/ Held(t)' => t.url # c
  BY DEF Alone
<1>1. PostCheck(c) \/ ~PostArchive(c)
  BY RequestsStep
<1>2. /\ dir[c].archive = NoFile /\ c \notin found
      /\ \A t \in Task : t \in tasks \/ Held(t) => t.url # c
  <2>1. CASE PostCheck(c)
    BY <2>1 DEF PostCheck, Settled, Listed, Busy, Held
  <2>2. CASE post[c].pc \in {"nonce", "archive"}
    BY <2>2 DEF Alone
  <2> QED
    BY <2>1, <2>2, RequestsStep
<1>3. dir'[c].archive = NoFile
  <2>1. CASE PostCheck(c)
    BY <2>1, <1>2 DEF PostCheck
  <2> QED
    BY <2>1, <1>1, <1>2, ArchivesStep
<1>4. c \notin found'
  <2>1. found' \subseteq found \/ found' = {d \in Cert : dir[d].archive # NoFile}
    BY DEF Next, vars, server, Post, Exec, PostCheck, PostNonce, PostArchive, PostMeta,
           PostReply, PostFail, ScanList, ScanInsert, RunnerSelect, RunnerCheck, RunnerLeave,
           RunnerStart, ExecExists, ExecNoTempDir, ExecUnpack, ExecMeta, ExecProcess,
           ExecRemoveArchive, ExecRemoveMeta, ExecFinish, ExecUnmark, ResetWaitingTime, Restart
  <2> QED
    BY <2>1, <1>2
<1>5. ASSUME NEW t \in Task, t \in tasks' \/ Held(t)'
      PROVE  t.url # c
  <2>1. CASE t \in tasks'
    <3>1. tasks \subseteq Task
      BY DEF Types
    <3> QED
      BY <2>1, <3>1, <1>2, RowsStep
  <2>2. CASE Held(t)'
    BY <2>2, <1>2, HeldStep
  <2> QED
    BY <1>5, <2>1, <2>2
<1> QED
  BY <1>3, <1>4, <1>5

LEMMA RowStaysStep ==
    ASSUME Types, Ids, Alone, RowStays, Progress, [Next]_vars
    PROVE  RowStays'
<1> SUFFICES ASSUME NEW t \in Task, Held(t)', dir'[t.url].archive # NoFile
             PROVE  \E u \in tasks' : u.id = t.id
  BY DEF RowStays
<1>1. t.url \in Cert
  BY DEF Task
<1>2. Held(t) \/ (t \in tasks /\ RunnerSelect)
  BY HeldStep
<1>3. ~PostArchive(t.url)
  BY <1>1, <1>2 DEF PostArchive, Alone
<1>4. dir[t.url].archive # NoFile
  BY <1>1, <1>3, ArchivesStep
<1>5. CASE RunnerSelect /\ t \in tasks
  BY <1>5 DEF RunnerSelect
<1>6. CASE Held(t)
  <2>1. PICK v \in tasks : v.id = t.id
    BY <1>4, <1>6 DEF RowStays
  <2>2. ASSUME NEW s \in Slot, ExecFinish(s), exec[s].outcome # "failed", exec[s].task.id = v.id
        PROVE  FALSE
    <3>1. exec[s] \in Running /\ exec[s].pc = "finish"
      BY <2>2, BusyRuns DEF ExecFinish
    <3>2. exec[s].task \in Task /\ Held(exec[s].task)
      BY <3>1 DEF Running, Held
    <3>3. exec[s].task.url = t.url
      BY <1>6, <2>1, <2>2, <3>2 DEF Ids
    <3>4. exec[s].outcome \in {"missing", "done"}
      BY <2>2, <3>1 DEF Running, Progress
    <3>5. dir[exec[s].task.url].archive = NoFile
      BY <3>1, <3>4 DEF Progress
    <3> QED
      BY <1>4, <3>3, <3>5
  <2> QED
    BY <2>1, <2>2, RowsStep
<1> QED
  BY <1>2, <1>5, <1>6

LEMMA MoverStep ==
    ASSUME Types, [Next]_vars, NEW r \in Slot
    PROVE  \/ exec'[r] = exec[r] \/ exec'[r].pc = "idle" \/ RunnerStart(r)
           \/ ExecExists(r) \/ ExecNoTempDir(r) \/ ExecUnpack(r) \/ ExecMeta(r)
           \/ ExecProcess(r) \/ ExecRemoveArchive(r) \/ ExecRemoveMeta(r) \/ ExecFinish(r)
<1>1. CASE exec' = exec
  BY <1>1
<1>2. ASSUME NEW s \in Slot, RunnerStart(s), r # s PROVE exec'[r] = exec[r]
  BY <1>2 DEF RunnerStart, Types
<1>3. ASSUME NEW s \in Slot, ExecUnmark(s)
      PROVE  exec'[r] = exec[r] \/ exec'[r].pc = "idle"
  BY <1>3 DEF ExecUnmark, Types, IdleExec
<1>4. ASSUME NEW s \in Slot, r # s,
             \/ ExecExists(s) \/ ExecNoTempDir(s) \/ ExecUnpack(s) \/ ExecMeta(s)
             \/ ExecProcess(s) \/ ExecRemoveArchive(s) \/ ExecRemoveMeta(s) \/ ExecFinish(s)
      PROVE  exec'[r] = exec[r]
  BY <1>4, ExecWorks DEF Works
<1>5. CASE Restart
  BY <1>5 DEF Restart, IdleExec
<1> QED
  <2>1. CASE \E c \in Cert : PostCheck(c) \/ Post(c) \/ PostFail(c)
    BY <2>1, <1>1 DEF PostCheck, Post, PostNonce, PostArchive, PostMeta, PostReply, PostFail, server
  <2>2. CASE \/ ScanList \/ ResetWaitingTime \/ UNCHANGED vars
             \/ RunnerSelect \/ RunnerCheck \/ RunnerLeave
             \/ \E c \in Cert : ScanInsert(c)
    BY <2>2, <1>1 DEF ScanList, ScanInsert, ResetWaitingTime, vars, server,
                      RunnerSelect, RunnerCheck, RunnerLeave
  <2> QED
    BY <2>1, <2>2, <1>2, <1>3, <1>4, <1>5 DEF Next, Exec

\* What a goroutine knows of its archive, at its next step
LEMMA MovedProgress ==
    ASSUME Types, Progress, NEW r \in Slot,
           \/ RunnerStart(r)
           \/ ExecExists(r) \/ ExecNoTempDir(r) \/ ExecUnpack(r) \/ ExecMeta(r)
           \/ ExecProcess(r) \/ ExecRemoveArchive(r) \/ ExecRemoveMeta(r) \/ ExecFinish(r)
    PROVE  LET x == exec'[r]
               gone == dir'[x.task.url].archive = NoFile
           IN  /\ x.pc \in {"unpack", "meta", "process", "removeArchive"} => ~gone
               /\ x.pc = "removeMeta" => gone
               /\ x.outcome \in {"missing", "done"} /\ x.pc \in {"finish", "unmark"} => gone
               /\ x.outcome = "missing" => x.pc \in {"finish", "unmark"}
               /\ x.outcome = "none" <=> x.pc \in {"exists", "unpack", "meta", "process"}
               /\ x.pc \in {"meta", "process"} \/ x.outcome = "done" => x.archive # NoFile
<1> USE DEF Running, Pc
<1>1. CASE RunnerStart(r)
  BY <1>1 DEF RunnerStart, Types
<1>2. ASSUME ~RunnerStart(r)
      PROVE  exec[r] \in Running /\ exec[r].pc # "idle"
  BY <1>2, BusyRuns DEF ExecExists, ExecNoTempDir, ExecUnpack, ExecMeta, ExecProcess,
                  ExecRemoveArchive, ExecRemoveMeta, ExecFinish
<1>3. CASE ExecExists(r)
  BY <1>1, <1>2, <1>3 DEF ExecExists, Types, Progress
<1>4. CASE ExecNoTempDir(r)
  BY <1>1, <1>2, <1>4 DEF ExecNoTempDir, Types, Progress
<1>5. CASE ExecUnpack(r)
  BY <1>1, <1>2, <1>5 DEF ExecUnpack, Types, Progress
<1>6. CASE ExecMeta(r)
  BY <1>1, <1>2, <1>6 DEF ExecMeta, Types, Progress
<1>7. CASE ExecProcess(r)
  <2>1. exec[r] \in Running /\ exec[r].pc = "process" /\ dir' = dir
    BY <1>7, BusyRuns DEF ExecProcess
  <2>2. exec[r].archive # NoFile /\ dir[exec[r].task.url].archive # NoFile
    BY <2>1 DEF Progress
  <2>3. exec'[r] \in {[exec[r] EXCEPT !.pc = "removeArchive", !.outcome = "done"],
                      [exec[r] EXCEPT !.pc = "removeArchive", !.outcome = "failed"]}
    BY <1>7 DEF ExecProcess, Types
  <2> QED  BY <2>1, <2>2, <2>3
<1>8. CASE ExecRemoveArchive(r)
  BY <1>1, <1>2, <1>8 DEF ExecRemoveArchive, Types, Progress, Files, Task
<1>9. CASE ExecRemoveMeta(r)
  BY <1>1, <1>2, <1>9 DEF ExecRemoveMeta, Types, Progress, Files, Task
<1>10. CASE ExecFinish(r)
  BY <1>1, <1>2, <1>10 DEF ExecFinish, Types, Progress
<1> QED
  BY <1>1, <1>3, <1>4, <1>5, <1>6, <1>7, <1>8, <1>9, <1>10

LEMMA ProgressStep ==
    ASSUME Types, Ids, Alone, RowStays, Progress, [Next]_vars
    PROVE  Progress'
<1> SUFFICES ASSUME NEW r \in Slot, exec'[r] = exec[r], exec[r].pc # "idle"
             PROVE  dir'[exec[r].task.url].archive = dir[exec[r].task.url].archive
  BY MoverStep, MovedProgress DEF Progress
<1> DEFINE c == exec[r].task.url
<1>1. exec[r].task \in Task /\ Held(exec[r].task) /\ c \in Cert
  BY BusyRuns DEF Running, Held, Task
<1>2. ~PostArchive(c)
  BY <1>1 DEF PostArchive, Alone
<1>3. ASSUME NEW s \in Slot, ExecRemoveArchive(s), exec[s].task.url = c
      PROVE  FALSE
  <2>1. exec[s].pc = "removeArchive"
    BY <1>3 DEF ExecRemoveArchive
  <2>2. dir[c].archive # NoFile
    BY <1>3, <2>1 DEF Progress
  <2>3. r = s
    BY <1>3, <2>1, <2>2, OneHolder
  <2>4. exec'[s].pc = "removeMeta"
    BY <1>3, BusyRuns DEF ExecRemoveArchive, Types, Running
  <2> QED
    BY <2>1, <2>3, <2>4
<1> QED
  BY <1>1, <1>2, <1>3, ArchivesStep

LEMMA OneAtWorkStep ==
    ASSUME Types, Ids, RowStays, Progress, OneAtWork, [Next]_vars
    PROVE  OneAtWork'
<1> DEFINE AtWork(r) == exec[r].pc \notin {"idle", "exists"} /\ exec[r].outcome # "missing"
<1>1. ASSUME NEW r \in Slot, AtWork(r)'
      PROVE  /\ exec[r].pc # "idle" /\ exec'[r].task = exec[r].task
             /\ AtWork(r) \/ dir[exec[r].task.url].archive # NoFile
  <2>1. CASE RunnerStart(r)
    BY <1>1, <2>1 DEF RunnerStart, Types
  <2>2. CASE ExecExists(r)
    BY <1>1, <2>2, BusyRuns DEF ExecExists, Types, Running
  <2>3. CASE ExecNoTempDir(r)
    <3>1. exec[r] \in Running /\ exec[r].pc \in {"unpack", "meta", "process"}
      BY <2>3, BusyRuns DEF ExecNoTempDir
    <3>2. exec[r].outcome # "missing" /\ exec[r].pc \notin {"idle", "exists"}
      BY <3>1 DEF Progress
    <3> QED  BY <2>3, <3>1, <3>2, ExecWorks DEF Works
  <2>4. CASE ExecUnpack(r)
    BY <1>1, <2>4, BusyRuns DEF ExecUnpack, Types, Running
  <2>5. CASE ExecMeta(r)
    <3>1. exec[r] \in Running /\ exec[r].pc \in {"unpack", "meta", "process"}
      BY <2>5, BusyRuns DEF ExecMeta
    <3>2. exec[r].outcome # "missing" /\ exec[r].pc \notin {"idle", "exists"}
      BY <3>1 DEF Progress
    <3> QED  BY <2>5, <3>1, <3>2, ExecWorks DEF Works
  <2>6. CASE ExecProcess(r)
    <3>1. exec[r] \in Running /\ exec[r].pc \in {"unpack", "meta", "process"}
      BY <2>6, BusyRuns DEF ExecProcess
    <3>2. exec[r].outcome # "missing" /\ exec[r].pc \notin {"idle", "exists"}
      BY <3>1 DEF Progress
    <3> QED  BY <2>6, <3>1, <3>2, ExecWorks DEF Works
  <2>7. CASE ExecRemoveArchive(r) \/ ExecRemoveMeta(r) \/ ExecFinish(r)
    BY <1>1, <2>7, BusyRuns DEF ExecRemoveArchive, ExecRemoveMeta, ExecFinish, Types, Running
  <2> QED
    BY <1>1, <2>1, <2>2, <2>3, <2>4, <2>5, <2>6, <2>7, MoverStep
<1> SUFFICES ASSUME NEW r \in Slot, NEW s \in Slot, AtWork(r)', AtWork(s)',
                    exec'[r].task.url = exec'[s].task.url
             PROVE  r = s
  BY DEF OneAtWork
<1>2. exec[r].pc # "idle" /\ exec[s].pc # "idle" /\ exec[r].task.url = exec[s].task.url
  BY <1>1
<1>3. CASE AtWork(r) /\ AtWork(s)
  BY <1>2, <1>3 DEF OneAtWork
<1>4. CASE dir[exec[s].task.url].archive # NoFile
  BY <1>2, <1>4, OneHolder
<1> QED
  BY <1>1, <1>2, <1>3, <1>4

-----------------------------------------------------------------------------
(* The theorems *)

LEMMA QueueStart == Init => QueueInv
<1> SUFFICES ASSUME Init
             PROVE  HourlyInv
  BY TypesStart DEF QueueInv
<1> QED
  BY DEF Init, HourlyInv, Alone, RowStays, Progress, OneAtWork, IdlePost, IdleExec, NoFile, Held

LEMMA QueueStep == QueueInv /\ [Next]_vars => QueueInv'
<1> SUFFICES ASSUME QueueInv, [Next]_vars
             PROVE  QueueInv'
  OBVIOUS
<1>1. Types' /\ Uploading' /\ Ids'
  BY TypesStep, IdsStep DEF QueueInv
<1>2. ASSUME Hourly PROVE HourlyInv'
  BY <1>2, AloneStep, RowStaysStep, ProgressStep, OneAtWorkStep DEF QueueInv, HourlyInv
<1> QED
  BY <1>1, <1>2 DEF QueueInv

LEMMA QueueSafe == Spec => []QueueInv
BY QueueStart, QueueStep, PTL DEF Spec

\* Every part of the state has its type; two tasks never have the same id or
\* url, and the map runningTasks lists the tasks that hold a slot: after
\* restarts, failures and resets of the waiting time, too.
THEOREM TypeCorrect == Spec => []TypeOK
<1>1. QueueInv => TypeOK
  <2> SUFFICES ASSUME Types, Ids
               PROVE  TypeOK
    BY DEF QueueInv
  <2>1. tasks \cup Listed \subseteq Task
    BY BusyRuns DEF Types, Listed, Busy, Running
  <2>2. runningTasks = {exec[s].task.id : s \in Busy}
    BY DEF Ids, Busy
  <2> QED
    BY <2>1, <2>2 DEF Types, Ids, TypeOK, Row, Request, Files
<1> QED
  BY <1>1, QueueSafe, PTL

\* Two goroutines never work on the archive of one certificate, however the
\* scan, the runner, the resets and the restarts follow each other, if the
\* client posts when the server is done with its previous archive.
THEOREM OneAtATime ==
    ASSUME Hourly
    PROVE  Spec => []OneArchiveAtATime
<1>1. QueueInv => OneArchiveAtATime
  BY DEF QueueInv, HourlyInv, OneAtWork, OneArchiveAtATime, Busy
<1> QED
  BY <1>1, QueueSafe, PTL

\* And processArchive never takes a package that was gone for one without
\* files, which would retire every file of the host.
THEOREM NothingFromNothing ==
    ASSUME Hourly
    PROVE  Spec => []NothingUnpackedNothingDone
<1>1. QueueInv => NothingUnpackedNothingDone
  BY DEF QueueInv, HourlyInv, Progress, NothingUnpackedNothingDone, Busy
<1> QED
  BY <1>1, QueueSafe, PTL

\* The nonce of the row is the client's, or is on its way to it, until the
\* client misses one.
NonceAgrees ==
    \A c \in Cert \ used.missed :
      /\ ~certificates[c].revoked
      /\ certificates[c].nonce \in
           IF post[c].pc \in {"idle", "nonce"} THEN {NoNonce, client[c]} ELSE {post[c].nonce}

\* A certificate of a client that is no clone is never revoked before a
\* request of this client ended between the new nonce and its reply, however
\* often it posts and whatever fails elsewhere.
THEOREM HonestClientIsNotAClone == Spec => []HonestClientKeepsCert
<1>1. Init => NonceAgrees
  BY DEF Init, NonceAgrees, IdlePost
<1>2. QueueInv /\ NonceAgrees /\ [Next]_vars => NonceAgrees'
  <2> SUFFICES ASSUME Types, NonceAgrees, [Next]_vars, NEW c \in Cert, c \notin used'.missed
               PROVE  /\ ~certificates'[c].revoked
                      /\ certificates'[c].nonce \in
                           IF post'[c].pc \in {"idle", "nonce"} THEN {NoNonce, client'[c]}
                                                                ELSE {post'[c].nonce}
    BY DEF QueueInv, NonceAgrees
  <2>1. \* missed only grows
        /\ used.missed \subseteq used'.missed
        /\ Restart \/ PostFail(c) => c \notin NonceStored
    <3>1. \/ used' = used
          \/ used' \in {[used EXCEPT !.upload = @ + 1], [used EXCEPT !.failure = @ + 1],
                        [used EXCEPT !.reset = @ + 1]}
          \/ \E m \in SUBSET Cert :
               used' \in {[used EXCEPT !.failure = @ + 1, !.missed = @ \cup m],
                          [used EXCEPT !.restart = @ + 1, !.missed = @ \cup m]}
      BY DEF Next, vars, Post, Exec, PostCheck, PostNonce, PostArchive, PostMeta, PostFail,
           PostReply, ScanList, ScanInsert, RunnerSelect, RunnerCheck, RunnerLeave,
           RunnerStart, ExecExists, ExecNoTempDir, ExecUnpack, ExecMeta, ExecProcess,
           ExecRemoveArchive, ExecRemoveMeta, ExecFinish, ExecUnmark, ResetWaitingTime,
           Restart, NonceStored
    <3>2. used.missed \subseteq used'.missed
      BY <3>1 DEF Types, Counts
    <3>3. Restart \/ PostFail(c) => c \notin NonceStored
      BY DEF Restart, PostFail, Types, Counts
    <3> QED
      BY <3>2, <3>3
  <2>2. /\ ~certificates[c].revoked
        /\ certificates[c].nonce \in
             IF post[c].pc \in {"idle", "nonce"} THEN {NoNonce, client[c]} ELSE {post[c].nonce}
    BY <2>1 DEF NonceAgrees
  <2>3. CASE UNCHANGED <<client, certificates, post>>
    BY <2>2, <2>3
  <2>4. ASSUME NEW d \in Cert, d # c,
               \/ PostCheck(d) \/ PostNonce(d) \/ PostArchive(d) \/ PostMeta(d)
               \/ PostReply(d) \/ PostFail(d)
        PROVE  /\ certificates'[c] = certificates[c] /\ post'[c] = post[c]
               /\ client'[c] = client[c]
    BY <2>4 DEF PostCheck, PostNonce, PostArchive, PostMeta, PostReply, PostFail, Types
  <2>5. CASE PostCheck(c)
    BY <2>2, <2>5 DEF PostCheck, Types
  <2>6. CASE PostNonce(c)
    BY <2>2, <2>6 DEF PostNonce, Types, Row, Request
  <2>7. CASE PostArchive(c) \/ PostMeta(c)
    BY <2>2, <2>7 DEF PostArchive, PostMeta, Types, Request
  <2>8. CASE PostReply(c)
    BY <2>2, <2>8 DEF PostReply, Types, Request, IdlePost
  <2>9. CASE PostFail(c) \/ Restart
    <3>1. post[c].pc \in {"idle", "nonce"}
      BY <2>1, <2>9 DEF NonceStored
    <3>2. UNCHANGED <<client, certificates>> /\ post'[c] = IdlePost
      BY <2>9 DEF PostFail, Restart, Types
    <3> QED
      BY <2>2, <3>1, <3>2 DEF IdlePost
  <2> QED
    <3>1. \/ \E d \in Cert : \/ PostCheck(d) \/ PostNonce(d) \/ PostArchive(d) \/ PostMeta(d)
                            \/ PostReply(d) \/ PostFail(d)
          \/ Restart
          \/ UNCHANGED <<client, certificates, post>>
      BY DEF Next, vars, Post, Exec, ScanList, ScanInsert, RunnerSelect, RunnerCheck,
           RunnerLeave, RunnerStart, ExecExists, ExecNoTempDir, ExecUnpack, ExecMeta, ExecProcess,
           ExecRemoveArchive, ExecRemoveMeta, ExecFinish, ExecUnmark, ResetWaitingTime
    <3> QED
      BY <2>2, <2>3, <2>4, <2>5, <2>6, <2>7, <2>8, <2>9, <3>1
<1>3. NonceAgrees => HonestClientKeepsCert
  BY DEF NonceAgrees, HonestClientKeepsCert
<1> QED
  BY <1>1, <1>2, <1>3, QueueSafe, PTL DEF Spec
================================================================================
