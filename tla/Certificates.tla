------------------------------- MODULE Certificates ----------------------------
(***************************************************************************)
(* The certificates of the machines: what a run of the client does with    *)
(* its certificate (nivlheim_client), the check it asks for (ping.go),     *)
(* ReqCert and RenewCert (cert.go), the list of machines that wait for     *)
(* approval (api_awaitingApproval.go), and the job that deletes old        *)
(* certificates (deleteOldCertificates.go).                                *)
(*                                                                         *)
(* A certificate is the number of its row, certid; its fingerprint says    *)
(* the same.  Every machine has an address of its own.  The upload and the *)
(* processing of an archive are Uploads and Inventory; here an archive of  *)
(* a machine makes the row of its host, sooner or later.                   *)
(***************************************************************************)
EXTENDS Integers, Sequences, FiniteSets

CONSTANTS Machine,
          Name, OsName,        \* hostnames, and that which the machine itself gives
          MaxUpsets, MaxCuts      \* bounds

ASSUME CertificatesAssumption ==
    OsName \in Name /\ {MaxUpsets, MaxCuts} \subseteq Nat

VARIABLES
    issued,   \* certificates, as their holders have them
    row,      \* the table certificates
    host,     \* hostinfo: its names, by certfp
    files,    \* the certfp and originalcertid of files
    queue,    \* archives in the queue, by certfp
    trusted,  \* machines in a trusted ip range, or with a known CFEngine key
    waiting,  \* waiting_for_approval, in the order of the approvalids
    client,   \* the certificate of a machine and the request it waits for
    request,  \* what the service works on, two requests of each machine at most
    job,      \* deleteOldCertificatesJob
    cut,      \* machines that missed a reply
    late,     \* machines that renewed while an archive of theirs was queued
    upsets    \* how often something was changed that a certificate depends on

vars == <<issued, row, host, files, queue, trusted, waiting, client, request, job,
          cut, late, upsets>>
server == <<issued, row, host, files, queue, trusted, waiting, request>>
world == <<job, cut, late, upsets>>

Age == {"fresh", "due", "expired"}   \* due: 30 days are left, or the CA is new
None == 0
NoName == "none"
Free == [pc |-> "free"]
Slot == {1, 2}
Id == DOMAIN issued
Names == Name \cup {NoName}
Upset == upsets < MaxUpsets /\ upsets' = upsets + 1

\* One machine may be there since the time when openssl wrote the text of
\* certificates: with its second, and perhaps with files that came under the first.
Openssl(m, age) == [by |-> m, age |-> age, cn |-> OsName, text |-> "openssl"]

Init ==
    /\ \/ issued = <<>> /\ row = <<>> /\ host = <<>> /\ files = {}
       \/ /\ \E m \in Machine : issued = <<Openssl(m, "expired"), Openssl(m, "fresh")>>
          /\ row = [c \in {1, 2} |-> [previous |-> c - 1, first |-> 1, revoked |-> FALSE]]
          /\ \E known \in SUBSET {2} :
               /\ host = [c \in known |-> OsName]
               /\ files = {[certfp |-> c, original |-> 1] : c \in known}
    /\ queue = {}
    /\ trusted \in SUBSET Machine
    /\ waiting = <<>>
    /\ client = [m \in Machine |->
                  [cert |-> IF \E c \in Id : issued[c].by = m THEN 2 ELSE None, on |-> None]]
    /\ request = [m \in Machine |-> [s \in Slot |-> Free]]
    /\ job = [pc |-> "idle"]
    /\ cut = {} /\ late = {} /\ upsets = 0

(***************************************************************************)
(* The client.                                                             *)
(***************************************************************************)

\* apiMethodSecurePing; TLS refuses an expired certificate before that.
Accepts(c) ==
    /\ issued[c].age = "fresh"
    /\ c \in DOMAIN row /\ ~row[c].revoked
    /\ c \in DOMAIN host => host[c] \in {NoName, issued[c].cn}

Sends(m, r) ==
    \E s \in Slot :
      /\ request[m][s] = Free /\ \A t \in Slot : t < s => request[m][t] # Free
      /\ request' = [request EXCEPT ![m][s] = r]
      /\ client' = [client EXCEPT ![m].on = s]

\* The ping was answered: the archive goes into the queue.
ClientPosts(m) ==
    LET c == client[m].cert IN
    /\ client[m].on = None /\ c # None /\ Accepts(c)
    /\ queue' = queue \cup {c}
    /\ UNCHANGED <<issued, row, host, files, trusted, waiting, client, request, world>>

ClientRenews(m) ==
    LET c == client[m].cert IN
    /\ client[m].on = None /\ c # None /\ ~Accepts(c) /\ issued[c].age # "expired"
    /\ Sends(m, [pc |-> "check", cert |-> c])
    /\ UNCHANGED <<issued, row, host, files, queue, trusted, waiting, world>>

ClientRequests(m) ==
    LET c == client[m].cert IN
    /\ client[m].on = None /\ (c # None => issued[c].age = "expired")
    /\ Sends(m, [pc |-> "look"])
    /\ UNCHANGED <<issued, row, host, files, queue, trusted, waiting, world>>

\* The client waits no longer for a reply: the connection broke, or it was
\* stopped.  The service does not notice.
ClientMisses(m) ==
    /\ client[m].on # None /\ Cardinality(cut) < MaxCuts
    /\ client' = [client EXCEPT ![m].on = None]
    /\ cut' = cut \cup {m}
    /\ UNCHANGED <<server, job, late, upsets>>

\* The reply to the request in slot s.  A client that did not get a renewal
\* asks for a new certificate in the same run.
Answer(m, s, c, ends, again) ==
    LET awaited == client[m].on = s
    IN /\ client' = IF awaited /\ ~again /\ ends
                    THEN [client EXCEPT ![m] =
                            [cert |-> IF c = None THEN @.cert ELSE c, on |-> None]]
                    ELSE client
       /\ request' = [request EXCEPT ![m][s] = IF awaited /\ again THEN [pc |-> "look"] ELSE Free]

Again(m, s, c) == c = None /\ request[m][s].pc \notin {"look", "add"}

RepliesOnlyCert(m, s, c) == Answer(m, s, c, c # None, Again(m, s, c))   \* Slip: the client waits on in vain
RepliesNoRequest(m, s, c) == Answer(m, s, c, TRUE, FALSE)   \* Slip: never asks for a new one
Replies(m, s, c) == Answer(m, s, c, TRUE, Again(m, s, c))

(***************************************************************************)
(* ReqCert.                                                                *)
(***************************************************************************)

At(m) == {w \in DOMAIN waiting : waiting[w].ipaddr = m}
New == Len(issued) + 1

Issue(m, s, cn) ==
    /\ issued' = Append(issued, [by |-> m, age |-> "fresh", cn |-> cn, text |-> "go"])
    /\ row' = [c \in DOMAIN row \cup {New} |->
                 IF c = New THEN [previous |-> None, first |-> New, revoked |-> FALSE]
                 ELSE row[c]]
    /\ Replies(m, s, New)
    /\ UNCHANGED <<host, files, queue, trusted, waiting, world>>

ReqCertTrusted(m, s) ==
    /\ m \in trusted /\ request[m][s].pc = "look"
    /\ Issue(m, s, OsName)

\* The query has no order: with several rows for the address, any may be read.
ReqCertApproved(m, s) ==
    /\ m \notin trusted /\ request[m][s].pc = "look"
    /\ \E w \in At(m) : waiting[w].approved /\ Issue(m, s, waiting[w].hostname)

ReqCertBePatient(m, s) ==
    /\ m \notin trusted /\ request[m][s].pc = "look"
    /\ \E w \in At(m) : ~waiting[w].approved
    /\ Replies(m, s, None)
    /\ UNCHANGED <<issued, row, host, files, queue, trusted, waiting, world>>

ReqCertUnknown(m, s) ==
    /\ m \notin trusted /\ request[m][s].pc = "look" /\ At(m) = {}
    /\ request' = [request EXCEPT ![m][s].pc = "add"]
    /\ UNCHANGED <<issued, row, host, files, queue, trusted, waiting, client, world>>

Enlist(m, approved, n) ==
    waiting' = Append(waiting, [ipaddr |-> m, approved |-> approved, hostname |-> n])

ReqCertAdd(m, s) ==
    /\ request[m][s].pc = "add"
    /\ Enlist(m, FALSE, NoName)   \* what counts is the name that is approved
    /\ Replies(m, s, None)
    /\ UNCHANGED <<issued, row, host, files, queue, trusted, world>>

(***************************************************************************)
(* RenewCert.                                                              *)
(***************************************************************************)

\* isRevoked, and the name for the new certificate
RenewCheck(m, s) ==
    LET c == request[m][s].cert IN
    /\ request[m][s].pc = "check"
    /\ IF c \in DOMAIN row /\ ~row[c].revoked
       THEN /\ request' = [request EXCEPT ![m][s] =
                 [pc |-> "commit", cert |-> c,
                  cn |-> IF c \in DOMAIN host /\ host[c] # NoName THEN host[c]
                         ELSE issued[c].cn]]
            /\ UNCHANGED client
       ELSE Replies(m, s, None)
    /\ UNCHANGED <<issued, row, host, files, queue, trusted, waiting, world>>

\* A query for the name that fails counts like a host without one.
RenewCheckNoName(m, s) ==
    LET c == request[m][s].cert IN
    /\ request[m][s].pc = "check" /\ c \in DOMAIN row /\ ~row[c].revoked /\ Upset
    /\ request' = [request EXCEPT ![m][s] = [pc |-> "commit", cert |-> c, cn |-> issued[c].cn]]
    /\ UNCHANGED <<issued, row, host, files, queue, trusted, waiting, client, job, cut, late>>

\* Keys are made, then the old row is read, and the transaction follows: what
\* is read of a row never changes.  Without a row the request goes on all the same.
Renewed(m, s, newhost) ==
    LET r == request[m][s]
        there == r.cert \in DOMAIN row
        new == [previous |-> IF there THEN r.cert ELSE None,
                first |-> IF there THEN row[r.cert].first ELSE None, revoked |-> FALSE]
    IN /\ r.pc = "commit"
       /\ issued' = Append(issued, [by |-> m, age |-> "fresh", cn |-> r.cn, text |-> "go"])
       /\ row' = [c \in DOMAIN row \cup {New} |-> IF c = New THEN new ELSE row[c]]
       /\ host' = newhost
       /\ files' = {IF f.certfp = r.cert THEN [f EXCEPT !.certfp = New] ELSE f : f \in files}
       /\ late' = IF r.cert \in queue THEN late \cup {m} ELSE late
       /\ Replies(m, s, New)
       /\ UNCHANGED <<queue, trusted, waiting, job, cut, upsets>>

Moved(old) == [c \in (DOMAIN host \ {old}) \cup (IF old \in DOMAIN host THEN {New} ELSE {}) |->
                 IF c = New THEN host[old] ELSE host[c]]

RenewCommitFilesOnly(m, s) == Renewed(m, s, host)   \* Slip: the host stays
RenewCommit(m, s) == Renewed(m, s, Moved(request[m][s].cert))

\* Another query, the CA's key or the transaction fails; what was made is thrown away.
RequestFails(m, s) ==
    /\ request[m][s] # Free /\ Upset
    /\ Replies(m, s, None)
    /\ UNCHANGED <<issued, row, host, files, queue, trusted, waiting, job, cut, late>>

(***************************************************************************)
(* The administrators.                                                     *)
(***************************************************************************)

NameFree(n) == \A c \in DOMAIN host : host[c] # n

\* PATCH; a hostname that a host has is refused.  (Approving it again is left out.)
Approve(w) ==
    /\ w \in DOMAIN waiting /\ ~waiting[w].approved
    /\ \E n \in Name : NameFree(n)
                       /\ waiting' = [waiting EXCEPT ![w].approved = TRUE, ![w].hostname = n]
    /\ UNCHANGED <<issued, row, host, files, queue, trusted, client, request, world>>

\* POST: approved in advance
ApproveInAdvance(m) ==
    /\ Upset
    /\ \E n \in Name : NameFree(n) /\ Enlist(m, TRUE, n)
    /\ UNCHANGED <<issued, row, host, files, queue, trusted, client, request, job, cut, late>>

\* DELETE /api/v2/host and removeInactiveMachinesJob, which deletes the files of
\* a machine that was not heard of for longer, too
RemoveHost(c) ==
    /\ c \in DOMAIN host /\ Upset
    /\ host' = [h \in DOMAIN host \ {c} |-> host[h]]
    /\ files' \in {files, {f \in files : f.certfp # c}}
    /\ UNCHANGED <<issued, row, queue, trusted, waiting, client, request, job, cut, late>>

\* PATCH to not approved, and DELETE
Withdraw(w) ==
    /\ w \in DOMAIN waiting /\ Upset
    /\ waiting' \in {[waiting EXCEPT ![w].approved = FALSE],
                     SubSeq(waiting, 1, w - 1) \o SubSeq(waiting, w + 1, Len(waiting))}
    /\ UNCHANGED <<issued, row, host, files, queue, trusted, client, request, job, cut, late>>

(***************************************************************************)
(* deleteOldCertificatesJob: one transaction, but what is in use is read   *)
(* before the rows are deleted.                                            *)
(***************************************************************************)

\* A certificate and those before it
Line(c) ==
    LET l[d \in 0 .. Len(issued)] ==
          IF d \in DOMAIN row THEN {row[d].previous} \cup l[row[d].previous] ELSE {}
    IN ({c} \cup l[c]) \cap DOMAIN row

Refers(fs) == DOMAIN host \cup fs
InUse == UNION {Line(c) : c \in Refers(UNION {{f.certfp, f.original} : f \in files})}

\* The date is found in a text by openssl; that of printCertInfo has another
\* form, for which the pattern gives null.
PastNotAfter(c) == issued[c].text = "openssl" /\ issued[c].age = "expired"

\* A run that finds nothing past its date does nothing.
JobLooks(used) ==
    /\ job.pc = "idle" /\ \E c \in DOMAIN row : PastNotAfter(c)
    /\ job' = [pc |-> "delete", used |-> used]
    /\ UNCHANGED <<server, client, cut, late, upsets>>

\* Slip: overlooks the rows of hostinfo and those that others are made from
JobLookFiles == JobLooks({f.original : f \in files})
JobLook == JobLooks(InUse)

\* A row that a file refers to by now makes the transaction fail.
JobDelete ==
    /\ job.pc = "delete"
    /\ LET old == {c \in DOMAIN row : PastNotAfter(c)} \ job.used
       IN row' = IF \E f \in files : f.original \in old THEN row
                 ELSE [c \in DOMAIN row \ old |-> row[c]]
    /\ job' = [pc |-> "idle"]
    /\ UNCHANGED <<issued, host, files, queue, trusted, waiting, client, request, cut, late, upsets>>

(***************************************************************************)
(* What else happens to certificates and hosts.                            *)
(***************************************************************************)

\* The archive is unpacked, and its files are parsed.
Process(c) ==
    /\ c \in queue
    /\ queue' = queue \ {c}
    /\ host' = [h \in DOMAIN host \cup {c} |-> IF h \in DOMAIN host THEN host[h] ELSE NoName]
    /\ \/ /\ \E f \in files : f.certfp = c
          /\ UNCHANGED files
       \/ files' = files \cup {[certfp |-> c, original |-> IF c \in DOMAIN row THEN c ELSE None]}
    /\ UNCHANGED <<issued, row, trusted, waiting, client, request, world>>

\* No archive waits in the queue for the 30 days between the two steps.  Only
\* what becomes of the certificate that a machine has makes a difference.
Ages(m) ==
    LET c == client[m].cert IN
    /\ c # None /\ issued[c].age # "expired" /\ c \notin queue /\ Upset
    /\ issued' = [issued EXCEPT ![c].age = IF @ = "fresh" THEN "due" ELSE "expired"]
    /\ UNCHANGED <<row, host, files, queue, trusted, waiting, client, request, job, cut, late>>

NewCA ==
    /\ Upset
    /\ issued' = [c \in Id |-> IF issued[c].age = "fresh" THEN [issued[c] EXCEPT !.age = "due"]
                               ELSE issued[c]]
    /\ UNCHANGED <<row, host, files, queue, trusted, waiting, client, request, job, cut, late>>

\* the post handler, when the nonce does not match
Revoke(m) ==
    LET c == client[m].cert IN
    /\ c \in DOMAIN row /\ Upset
    /\ row' = [row EXCEPT ![c].revoked = TRUE]
    /\ UNCHANGED <<issued, host, files, queue, trusted, waiting, client, request, job, cut, late>>

\* an ip range is added or deleted
Trust(m) ==
    /\ Upset
    /\ trusted' = IF m \in trusted THEN trusted \ {m} ELSE trusted \cup {m}
    /\ UNCHANGED <<issued, row, host, files, queue, waiting, client, request, job, cut, late>>

\* handleDNSchanges; hostnames are unique
Rename(c, n) ==
    /\ c \in DOMAIN host /\ NameFree(n) /\ Upset
    /\ host' = [host EXCEPT ![c] = n]
    /\ UNCHANGED <<issued, row, files, queue, trusted, waiting, client, request, job, cut, late>>

Serve(m, s) ==
    \/ ReqCertTrusted(m, s) \/ ReqCertApproved(m, s) \/ ReqCertBePatient(m, s)
    \/ ReqCertUnknown(m, s) \/ ReqCertAdd(m, s)
    \/ RenewCheck(m, s) \/ RenewCommit(m, s)

Run(m) == ClientPosts(m) \/ ClientRenews(m) \/ ClientRequests(m)

Next ==
    \/ \E m \in Machine : \/ Run(m) \/ ClientMisses(m)
                          \/ Ages(m) \/ Revoke(m) \/ Trust(m) \/ ApproveInAdvance(m)
                          \/ \E s \in Slot : \/ Serve(m, s) \/ RenewCheckNoName(m, s)
                                            \/ RequestFails(m, s)
    \/ \E w \in DOMAIN waiting : Approve(w) \/ Withdraw(w)
    \/ JobLook \/ JobDelete \/ NewCA
    \/ \E c \in Id : \/ Process(c) \/ RemoveHost(c)
                     \/ \E n \in Name : Rename(c, n)

Fairness ==
    /\ \A m \in Machine : /\ WF_vars(Run(m))
                          /\ \A s \in Slot : WF_vars(Serve(m, s))
    /\ WF_vars(\E c \in Id : Process(c))
    /\ WF_vars(JobLook) /\ WF_vars(JobDelete)

Spec == Init /\ [][Next]_vars /\ Fairness

(***************************************************************************)
(* Properties.                                                             *)
(***************************************************************************)

Request == {Free} \cup [pc : {"look", "add"}] \cup [pc : {"check"}, cert : Id]
           \cup [pc : {"commit"}, cert : Id, cn : Name]

\* The tables refer to certificates that were issued; a client that waits for
\* a reply waits for a request that the service works on.
TypeOK ==
    /\ \A c \in Id : issued[c] \in [by : Machine, age : Age, cn : Name,
                                    text : {"go", "openssl"}]
    /\ DOMAIN row \subseteq Id /\ DOMAIN host \subseteq Id /\ queue \subseteq Id
    /\ \A c \in DOMAIN row :
         row[c] \in [previous : 0 .. c - 1, first : 0 .. c, revoked : BOOLEAN]
    /\ \A c \in DOMAIN host : host[c] \in Names
    /\ files \subseteq [certfp : Id, original : Id \cup {None}]
    /\ \A w \in DOMAIN waiting :
         waiting[w] \in [ipaddr : Machine, approved : BOOLEAN, hostname : Names]
    /\ \A m \in Machine :
         /\ client[m] \in [cert : Id \cup {None}, on : {None} \cup Slot]
         /\ \A s \in Slot : request[m][s] \in Request
         /\ client[m].on # None => request[m][client[m].on] # Free
    /\ job.pc = "idle" \/ (job.pc = "delete" /\ job.used \subseteq Id)
    /\ trusted \subseteq Machine /\ cut \subseteq Machine /\ late \subseteq Machine /\ upsets \in 0 .. MaxUpsets

\* The host of a machine goes with it from certificate to certificate: no
\* other host is left behind under an earlier certificate of the same line,
\* unless the machine missed a reply, or renewed while an archive of its was
\* still in the queue.
ClientKeepsItsHost ==
    \A m \in Machine \ (cut \cup late) :
      \A h \in DOMAIN host \cap DOMAIN row :
        LET c == client[m].cert
        IN c \in DOMAIN row /\ row[h].first = row[c].first => h = c

\* The certificate that a host is under is not deleted, so that its machine
\* can renew it, and no file refers to a row that is gone, although the job
\* decides on what it read before.
UsedStay ==
    /\ DOMAIN host \subseteq DOMAIN row
    /\ \A f \in files : f.original \in DOMAIN row \cup {None}

Sound(m) == client[m].cert # None /\ Accepts(client[m].cert)
Approved(w) == waiting[w].approved

Served(m) == m \in trusted \/ (At(m) # {} /\ \A w \in At(m) : Approved(w))

\* A machine ends with a certificate that the service accepts, whatever
\* happened to the one before (aged, expired, revoked, renamed host, new CA,
\* lost reply), if it is trusted, or if all its rows on the list are approved.
Settles ==
    \A m \in Machine :
      <>[]Served(m) => <>[]Sound(m)

\* deleteOldCertificates.go, 22: a certificate that is expired and not in use
\* is deleted.
ExpiredGo ==
    \A c \in 1 .. MaxUpsets :
      ~<>[](c \in DOMAIN row /\ issued[c].age = "expired" /\ c \notin InUse)
================================================================================
