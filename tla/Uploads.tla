-------------------------------- MODULE Uploads --------------------------------
(***************************************************************************)
(* The way of an archive from the client into processArchive: the post     *)
(* handler (postArchive.go) with the nonce that tells clones apart, the    *)
(* queue directory, scanQueueDirJob, the table tasks, and taskRunner with  *)
(* its concurrent executeTask goroutines (taskrunner.go).                  *)
(*                                                                         *)
(* The uploads are numbered; an archive and its .meta file are the number  *)
(* of the upload they came with.  What processArchive does to the tables   *)
(* files and hostinfo is the subject of the module Inventory; here it      *)
(* succeeds or fails.                                                      *)
(*                                                                         *)
(* A step is one SQL statement, one file operation or one access to the    *)
(* map runningTasks.                                                       *)
(***************************************************************************)
EXTENDS Integers, FiniteSets

CONSTANTS Cert,      \* certificates; each belongs to one client
          TaskId,    \* tasks.taskid; an id is given again only when nothing
                     \* refers to it any more
          Slot,      \* the places of the channel taskSlots
          Nonce,     \* what rand.Intn(1000000) may return
          NoNonce,   \* certificates.nonce is NULL
          MaxDelay,  \* of a task, in seconds
          Hourly,    \* a client posts only when the server is done with its
                     \* previous archive
          MaxUploads, MaxFailures, MaxRestarts, MaxResets   \* bounds

ASSUME NonceAssumption == 0 \in Nonce /\ NoNonce \notin Nonce
ASSUME HourlyAssumption == Hourly \in BOOLEAN
ASSUME MaxDelayAssumption == MaxDelay \in Nat \ {0}
ASSUME BoundsAssumption ==
    {MaxUploads, MaxFailures, MaxRestarts, MaxResets} \subseteq Nat

VARIABLES
    client,       \* Cert -> the nonce that the client has stored
    certificates, \* Cert -> the columns nonce and revoked
    post,         \* Cert -> the request that is being served
    dir,          \* Cert -> the archive and the .meta file in the queue
    found,        \* the file names that scanQueueDir has yet to insert
    tasks,        \* table tasks
    seen,         \* the rows of taskRunner's SELECT it has yet to look up
    ready,        \* the tasks it has yet to start or to leave alone
    runningTasks, \* the map of the ids that are running
    exec,         \* Slot -> the goroutine that holds it
    used          \* how much of each bound is used up; and, as history, the clients
                  \* that missed a nonce after it was stored

server == <<found, seen, ready, runningTasks, exec>>
vars == <<client, certificates, post, dir, tasks, server, used>>

NoFile == 0
Upload == 1..MaxUploads
Task == [id : TaskId, url : Cert, tried : BOOLEAN,
         delay : 0..MaxDelay, delay2 : 0..MaxDelay]

IdlePost == [pc |-> "idle", upload |-> NoFile, nonce |-> 0]
IdleExec == [pc |-> "idle"]

Busy == {s \in Slot : exec[s].pc # "idle"}
Listed == seen \cup ready \cup {exec[s].task : s \in Busy}
UsedIds == {t.id : t \in tasks \cup Listed} \cup runningTasks

Init ==
    /\ client = [c \in Cert |-> 0]
    /\ certificates = [c \in Cert |-> [nonce |-> NoNonce, revoked |-> FALSE]]
    /\ post = [c \in Cert |-> IdlePost]
    /\ dir = [c \in Cert |-> [archive |-> NoFile, meta |-> NoFile]]
    /\ found = {}
    /\ tasks = {}
    /\ seen = {}
    /\ ready = {}
    /\ runningTasks = {}
    /\ exec = [s \in Slot |-> IdleExec]
    /\ used = [upload |-> 0, failure |-> 0, restart |-> 0, reset |-> 0,
                missed |-> {}]

(***************************************************************************)
(* The post handler, and the client that calls it (nivlheim_client).  The  *)
(* client runs one request at a time.                                      *)
(***************************************************************************)

\* Nothing of the previous archive is left in the server.
Settled(c) ==
    /\ dir[c].archive = NoFile
    /\ c \notin found
    /\ \A t \in tasks \cup Listed : t.url # c

\* SELECT revoked, nonce: a wrong nonce revokes the certificate
PostCheck(c) ==
    LET row == certificates[c] IN
    /\ post[c].pc = "idle"
    /\ ~row.revoked
    /\ used.upload < MaxUploads
    /\ Hourly => Settled(c)
    /\ used' = [used EXCEPT !.upload = @ + 1]
    /\ IF row.nonce \notin {NoNonce, client[c]}
       THEN /\ certificates' = [certificates EXCEPT ![c].revoked = TRUE]
            /\ UNCHANGED post
       ELSE /\ post' = [post EXCEPT ![c] = [pc |-> "nonce", nonce |-> 0,
                                            upload |-> used.upload + 1]]
            /\ UNCHANGED certificates
    /\ UNCHANGED <<client, dir, tasks, server>>

\* Slip: the number in the reply is drawn a second time.
PostNonceTwice(c) ==
    /\ post[c].pc = "nonce"
    /\ \E n, m \in Nonce :
         /\ certificates' = [certificates EXCEPT ![c].nonce = n]
         /\ post' = [post EXCEPT ![c].pc = "archive", ![c].nonce = m]
    /\ UNCHANGED <<client, dir, tasks, server, used>>

\* UPDATE certificates SET nonce
PostNonce(c) ==
    /\ post[c].pc = "nonce"
    /\ \E n \in Nonce :
         /\ certificates' = [certificates EXCEPT ![c].nonce = n]
         /\ post' = [post EXCEPT ![c].pc = "archive", ![c].nonce = n]
    /\ UNCHANGED <<client, dir, tasks, server, used>>

\* The archive is moved to the queue directory, then its .meta file.
PostArchive(c) ==
    /\ post[c].pc = "archive"
    /\ dir' = [dir EXCEPT ![c].archive = post[c].upload]
    /\ post' = [post EXCEPT ![c].pc = "meta"]
    /\ UNCHANGED <<client, certificates, tasks, server, used>>

PostMeta(c) ==
    /\ post[c].pc = "meta"
    /\ dir' = [dir EXCEPT ![c].meta = post[c].upload]
    /\ post' = [post EXCEPT ![c].pc = "reply"]
    /\ UNCHANGED <<client, certificates, tasks, server, used>>

\* "OK. nonce=%d": the client saves it for the next time.
PostReply(c) ==
    /\ post[c].pc = "reply"
    /\ client' = [client EXCEPT ![c] = post[c].nonce]
    /\ post' = [post EXCEPT ![c] = IdlePost]
    /\ UNCHANGED <<certificates, dir, tasks, server, used>>

NonceStored == {c \in Cert : post[c].pc \notin {"idle", "nonce"}}

\* A statement or a rename fails, or the reply is lost: no new nonce for the
\* client, and what was done stays.
PostFail(c) ==
    /\ post[c].pc # "idle"
    /\ used.failure < MaxFailures
    /\ used' = [used EXCEPT !.failure = @ + 1, !.missed = @ \cup (NonceStored \cap {c})]
    /\ post' = [post EXCEPT ![c] = IdlePost]
    /\ UNCHANGED <<client, certificates, dir, tasks, server>>

(***************************************************************************)
(* scanQueueDirJob                                                         *)
(***************************************************************************)

\* ReadDir, without the .meta files
ScanList ==
    /\ found = {}
    /\ found' = {c \in Cert : dir[c].archive # NoFile}
    /\ found' # {}
    /\ UNCHANGED <<client, certificates, post, dir, tasks, seen, ready,
                   runningTasks, exec, used>>

\* INSERT INTO tasks(url) ... ON CONFLICT DO NOTHING
ScanInsert(c) ==
    /\ c \in found
    /\ IF \E t \in tasks : t.url = c
       THEN UNCHANGED tasks
       ELSE \E id \in TaskId \ UsedIds :
              tasks' = tasks \cup {[id |-> id, url |-> c, tried |-> FALSE,
                                    delay |-> 0, delay2 |-> 0]}
    /\ found' = found \ {c}
    /\ UNCHANGED <<client, certificates, post, dir, seen, ready, runningTasks,
                   exec, used>>

(***************************************************************************)
(* taskRunner                                                              *)
(***************************************************************************)

\* SELECT ... FROM tasks
RunnerSelect ==
    /\ seen = {} /\ ready = {}
    /\ tasks # {}
    /\ seen' = tasks
    /\ UNCHANGED <<client, certificates, post, dir, tasks, found, ready,
                   runningTasks, exec, used>>

\* Slip: isTaskRunning is not called.
RunnerCheckNot ==
    /\ \E t \in seen :
         /\ seen' = seen \ {t}
         /\ ready' = ready \cup {t}
    /\ UNCHANGED <<client, certificates, post, dir, tasks, found,
                   runningTasks, exec, used>>

\* isTaskRunning: a task that is running is left out.
RunnerCheck ==
    /\ \E t \in seen :
         /\ seen' = seen \ {t}
         /\ ready' = IF t.id \in runningTasks THEN ready ELSE ready \cup {t}
    /\ UNCHANGED <<client, certificates, post, dir, tasks, found,
                   runningTasks, exec, used>>

\* taskSlots <- true, markTaskRunning, go executeTask
RunnerStart(s) ==
    /\ seen = {}
    /\ exec[s].pc = "idle"
    /\ \E t \in ready :
         /\ ready' = ready \ {t}
         /\ runningTasks' = runningTasks \cup {t.id}
         /\ exec' = [exec EXCEPT ![s] =
                       [pc |-> "exists", task |-> t, archive |-> NoFile,
                        outcome |-> "none"]]
    /\ UNCHANGED <<client, certificates, post, dir, tasks, found, seen, used>>

\* time.Since(lasttry) <= delay: not yet
RunnerLeave ==
    /\ seen = {}
    /\ \E t \in ready : /\ t.tried /\ t.delay > 0
                        /\ ready' = ready \ {t}
    /\ UNCHANGED <<client, certificates, post, dir, tasks, found, seen,
                   runningTasks, exec, used>>

(***************************************************************************)
(* executeTask and the frame of processArchive                             *)
(***************************************************************************)

\* A file that does not exist is a success.
ExecExists(s) ==
    LET url == exec[s].task.url IN
    /\ exec[s].pc = "exists"
    /\ exec' = [exec EXCEPT ![s] =
                  IF dir[url].archive = NoFile
                  THEN [exec[s] EXCEPT !.pc = "finish", !.outcome = "missing"]
                  ELSE [exec[s] EXCEPT !.pc = "unpack"]]
    /\ UNCHANGED <<client, certificates, post, dir, tasks, found, seen, ready,
                   runningTasks, used>>

\* MkdirTemp fails, before the clean-up is deferred.
ExecNoTempDir(s) ==
    /\ exec[s].pc = "unpack"
    /\ used.failure < MaxFailures
    /\ used' = [used EXCEPT !.failure = @ + 1]
    /\ exec' = [exec EXCEPT ![s] = [exec[s] EXCEPT !.pc = "finish",
                                                   !.outcome = "failed"]]
    /\ UNCHANGED <<client, certificates, post, dir, tasks, found, seen, ready,
                   runningTasks>>

\* unTar; that the archive is gone is only logged.
ExecUnpack(s) ==
    /\ exec[s].pc = "unpack"
    /\ exec' = [exec EXCEPT ![s] =
                  [exec[s] EXCEPT !.pc = "meta",
                                  !.archive = dir[exec[s].task.url].archive]]
    /\ UNCHANGED <<client, certificates, post, dir, tasks, found, seen, ready,
                   runningTasks, used>>

\* readKeyValueFile
ExecMeta(s) ==
    /\ exec[s].pc = "meta"
    /\ exec' = [exec EXCEPT ![s] =
                  IF dir[exec[s].task.url].meta = NoFile
                  THEN [exec[s] EXCEPT !.pc = "removeArchive",
                                       !.outcome = "failed"]
                  ELSE [exec[s] EXCEPT !.pc = "process"]]
    /\ UNCHANGED <<client, certificates, post, dir, tasks, found, seen, ready,
                   runningTasks, used>>

ExecProcess(s) ==
    /\ exec[s].pc = "process"
    /\ \/ /\ exec' = [exec EXCEPT ![s] = [exec[s] EXCEPT !.pc = "removeArchive",
                                                         !.outcome = "done"]]
          /\ UNCHANGED used
       \/ /\ used.failure < MaxFailures
          /\ used' = [used EXCEPT !.failure = @ + 1]
          /\ exec' = [exec EXCEPT ![s] = [exec[s] EXCEPT !.pc = "removeArchive",
                                                         !.outcome = "failed"]]
    /\ UNCHANGED <<client, certificates, post, dir, tasks, found, seen, ready,
                   runningTasks>>

\* The deferred clean-up removes what is there now, after an error, too.
ExecRemoveArchive(s) ==
    /\ exec[s].pc = "removeArchive"
    /\ dir' = [dir EXCEPT ![exec[s].task.url].archive = NoFile]
    /\ exec' = [exec EXCEPT ![s] = [exec[s] EXCEPT !.pc = "removeMeta"]]
    /\ UNCHANGED <<client, certificates, post, tasks, found, seen, ready,
                   runningTasks, used>>

ExecRemoveMeta(s) ==
    /\ exec[s].pc = "removeMeta"
    /\ dir' = [dir EXCEPT ![exec[s].task.url].meta = NoFile]
    /\ exec' = [exec EXCEPT ![s] = [exec[s] EXCEPT !.pc = "finish"]]
    /\ UNCHANGED <<client, certificates, post, tasks, found, seen, ready,
                   runningTasks, used>>

\* Slip: the delay grows without the cap.
FinishedNoCap(t, outcome) ==
    LET next == IF t.delay = 0 /\ t.delay2 = 0 THEN 1 ELSE t.delay + t.delay2
        delayed == [t EXCEPT !.tried = TRUE, !.delay = next, !.delay2 = t.delay]
    IN  IF outcome = "failed"
        THEN {IF u.id = t.id THEN delayed ELSE u : u \in tasks}
        ELSE {u \in tasks : u.id # t.id}

\* DELETE, or UPDATE with the next delay of the Fibonacci sequence, computed
\* from the row as it was when it was selected
Finished(t, outcome) ==
    LET next    == IF t.delay = 0 /\ t.delay2 = 0 THEN 1 ELSE t.delay + t.delay2
        capped  == IF next > MaxDelay THEN MaxDelay ELSE next
        delayed == [t EXCEPT !.tried = TRUE, !.delay = capped,
                             !.delay2 = t.delay]
    IN  IF outcome = "failed"
        THEN {IF u.id = t.id THEN delayed ELSE u : u \in tasks}
        ELSE {u \in tasks : u.id # t.id}

ExecFinish(s) ==
    /\ exec[s].pc = "finish"
    /\ tasks' = Finished(exec[s].task, exec[s].outcome)
    /\ exec' = [exec EXCEPT ![s] = [exec[s] EXCEPT !.pc = "unmark"]]
    /\ UNCHANGED <<client, certificates, post, dir, found, seen, ready,
                   runningTasks, used>>

\* Slip: the slot is not given back after an error.
ExecUnmarkKeepSlot(s) ==
    /\ exec[s].pc = "unmark"
    /\ exec[s].outcome # "failed"
    /\ runningTasks' = runningTasks \ {exec[s].task.id}
    /\ exec' = [exec EXCEPT ![s] = IdleExec]
    /\ UNCHANGED <<client, certificates, post, dir, tasks, found, seen, ready,
                   used>>

\* markTaskDone, <-taskSlots
ExecUnmark(s) ==
    /\ exec[s].pc = "unmark"
    /\ runningTasks' = runningTasks \ {exec[s].task.id}
    /\ exec' = [exec EXCEPT ![s] = IdleExec]
    /\ UNCHANGED <<client, certificates, post, dir, tasks, found, seen, ready,
                   used>>

\* POST /api/v2/resetWaitingTimeForFailedTasks
ResetWaitingTime ==
    /\ used.reset < MaxResets
    /\ used' = [used EXCEPT !.reset = @ + 1]
    /\ tasks' = {IF t.tried /\ t.delay > 0
                 THEN [t EXCEPT !.delay = 0, !.delay2 = 0] ELSE t : t \in tasks}
    /\ UNCHANGED <<client, certificates, post, dir, server>>

\* The service stops and starts again; requests are cut off.
Restart ==
    /\ used.restart < MaxRestarts
    /\ used' = [used EXCEPT !.restart = @ + 1, !.missed = @ \cup NonceStored]
    /\ post' = [c \in Cert |-> IdlePost]
    /\ found' = {}
    /\ seen' = {}
    /\ ready' = {}
    /\ runningTasks' = {}
    /\ exec' = [s \in Slot |-> IdleExec]
    /\ UNCHANGED <<client, certificates, dir, tasks>>

Post(c) == PostNonce(c) \/ PostArchive(c) \/ PostMeta(c) \/ PostReply(c)

Exec(s) == \/ ExecExists(s) \/ ExecUnpack(s) \/ ExecMeta(s) \/ ExecProcess(s)
           \/ ExecRemoveArchive(s) \/ ExecRemoveMeta(s) \/ ExecFinish(s)
           \/ ExecUnmark(s)

Next ==
    \/ \E c \in Cert : \/ PostCheck(c) \/ Post(c) \/ PostFail(c)
                       \/ ScanInsert(c)
    \/ ScanList
    \/ RunnerSelect \/ RunnerCheck \/ RunnerLeave
    \/ \E s \in Slot : RunnerStart(s) \/ Exec(s) \/ ExecNoTempDir(s)
    \/ ResetWaitingTime \/ Restart

\* Jobs, requests and goroutines that can go on do.  A task that is not due
\* is in the end: lasttry stays and time passes.
Fairness ==
    /\ \A c \in Cert : WF_vars(Post(c)) /\ WF_vars(ScanInsert(c))
    /\ WF_vars(ScanList)
    /\ WF_vars(RunnerSelect) /\ WF_vars(RunnerCheck) /\ WF_vars(RunnerLeave)
    /\ SF_vars(\E s \in Slot : RunnerStart(s))
    /\ \A s \in Slot : WF_vars(Exec(s))

Spec == Init /\ [][Next]_vars
FairSpec == Spec /\ Fairness

(***************************************************************************)
(* Properties                                                              *)
(***************************************************************************)

\* Every part of the state has its type; two tasks never have the same id or
\* url, and the map runningTasks lists the tasks that hold a slot.
TypeOK ==
    /\ client \in [Cert -> Nonce]
    /\ certificates \in [Cert -> [nonce   : Nonce \cup {NoNonce},
                                 revoked : BOOLEAN]]
    /\ post \in [Cert -> [pc : {"idle", "nonce", "archive", "meta", "reply"},
                          upload : {NoFile} \cup Upload, nonce : Nonce]]
    /\ dir \in [Cert -> [archive : {NoFile} \cup Upload,
                        meta    : {NoFile} \cup Upload]]
    /\ found \subseteq Cert
    /\ tasks \cup Listed \subseteq Task
    /\ \A t, u \in tasks : t.id = u.id \/ t.url = u.url => t = u
    /\ runningTasks = {exec[s].task.id : s \in Busy}

\* At most one processArchive works on the archive of a certificate, if its
\* client posts when the server is done with the last one: what the module
\* Inventory takes for granted.
OneArchiveAtATime ==
    \A s, t \in Busy :
      s # t /\ exec[s].task.url = exec[t].task.url
        => "exists" \in {exec[s].pc, exec[t].pc}
           \/ "missing" \in {exec[s].outcome, exec[t].outcome}

\* A package that was gone when it was unpacked is not processed: it would
\* take every file of the host for removed.
NothingUnpackedNothingDone ==
    \A s \in Busy : exec[s].outcome = "done" => exec[s].archive # NoFile

\* The certificate of a client that is no clone is revoked only after a
\* request of this very client ended between the new nonce and its reply:
\* neither a restart at another moment, nor a task that fails, nor a request
\* that fails before, nor what happens to others, costs it.
HonestClientKeepsCert ==
    \A c \in Cert \ used.missed : ~certificates[c].revoked

\* Every archive leaves the queue, and every task, in the end.
QueueDrains ==
    <>[](tasks = {} /\ \A c \in Cert : dir[c].archive = NoFile)

\* "A task will be retried until it succeeds, and then discarded"
\* (taskrunner.go:18): a task that failed is discarded only after its archive
\* has been processed.
RetriedUntilSuccess ==
    [][\A t \in tasks :
         t.tried /\ t.id \notin {u.id : u \in tasks'}
           => \E s \in Busy : /\ exec[s].task.id = t.id
                               /\ exec[s].outcome = "done"]_vars

===============================================================================
