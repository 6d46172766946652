------------------------------- MODULE Inventory -------------------------------
(***************************************************************************)
(* The core of the service: the tables files and hostinfo, the search      *)
(* cache that mirrors them, and every process that writes either:          *)
(*                                                                         *)
(*   processArchive        one task per certificate (the queued archive is *)
(*                         named after the fingerprint)                    *)
(*   parseFilesJob         one goroutine per unparsed file                 *)
(*   compareSearchCacheJob repairs the cache against the database          *)
(*   loadContentForFastSearch  fills the cache after a restart             *)
(*   DELETE /api/v2/host, removeInactiveMachinesJob, pruneOldFilesJob      *)
(*   RenewCert             moves a host's rows to its new certificate      *)
(*                                                                         *)
(* A step is one SQL statement outside a transaction, one committed        *)
(* transaction (at its commit; READ COMMITTED, so its earlier SELECTs are  *)
(* steps of their own), or one critical section of the cache's mutex.      *)
(***************************************************************************)
EXTENDS FastSearch, FiniteSets

CONSTANTS Content,      \* file contents, told apart by their crc32
          Absent,       \* the file is not in the archive
          FirstCert,    \* the certificate of the host at the start
          NoCert,
          Budget        \* bounds: how many events of each kind a behaviour
                        \* may have; it keeps to one of the budgets

ASSUME FileIdAssumption == FileId \subseteq Nat
ASSUME NameAssumption == Name # {}
ASSUME FirstCertAssumption == FirstCert \in Cert
ASSUME NoCertAssumption == NoCert \notin Cert
ASSUME AbsentAssumption == Absent \notin Content
Kind == {"upload", "renewal", "delete", "expiry", "restart", "failure"}

ASSUME BudgetAssumption == Budget \subseteq [Kind -> Nat]

VARIABLES
    files,      \* table files: FileId -> row or NoRow
    nextFile,   \* the next value of the serial files.fileid
    clock,      \* orders files.received
    hostinfo,   \* table hostinfo: the certfp of its rows
    issued,     \* certificates that exist
    fs,         \* fsContent, fsID, fsKey
    fsReady,
    load,       \* rows that loadContentForFastSearch has still to add
    arch,       \* Cert -> the processArchive call for its archive
    parse,      \* FileId -> the parseFile goroutine for it
    compare,    \* the compareSearchCacheToDB call
    deleting,   \* certificates whose hostinfo row a DELETE request holds
    locked,     \* files rows that DELETE requests hold until they commit
    unindexed,  \* the cert that removeInactiveMachines has yet to take
                \* out of the cache, its transaction being committed
    pruned,     \* the file that pruneOldFiles has yet to take out
    replacing,  \* replaceCertificate calls that are under way
    used        \* how many events of each kind there were

db == <<files, nextFile, clock, hostinfo, issued>>
cache == <<fs, fsReady>>
removers == <<deleting, locked, unindexed, pruned>>
vars == <<db, cache, load, arch, parse, compare, removers, replacing, used>>

Row == [exists : BOOLEAN, cert : Cert, name : Name, content : Content \cup {Absent},
        current : BOOLEAN, parsed : BOOLEAN, received : Nat]
NoRow == [exists |-> FALSE, cert |-> FirstCert, name |-> CHOOSE n \in Name : TRUE,
          content |-> Absent, current |-> FALSE, parsed |-> FALSE, received |-> 0]

Exists(f) == files[f].exists
Rows == {f \in FileId : Exists(f)}
KeyOf(f) == <<files[f].cert, files[f].name>>
Versions(k) == {f \in Rows : KeyOf(f) = k}
Current(cert) == {f \in Rows : files[f].cert = cert /\ files[f].current}

\* ... ORDER BY received DESC LIMIT 1: one version, or none
Latest(k) ==
    LET newest == {f \in Versions(k) :
                     \A g \in Versions(k) : files[g].received <= files[f].received}
    IN  IF newest = {} THEN {NoFile} ELSE newest

\* SELECT fileid FROM files WHERE current AND
\* certfp IN (SELECT certfp FROM hostinfo)
Source == {f \in Rows : files[f].current /\ files[f].cert \in hostinfo}

\* delete(curfiles, fileName)
Without(cur, n) == [cur EXCEPT ![n] = NoFile]

IdleArchive == [pc |-> "idle", pack |-> [n \in Name |-> Absent],
                cur |-> [n \in Name |-> NoFile], host |-> FALSE,
                todo |-> {}, name |-> CHOOSE n \in Name : TRUE, old |-> NoFile]
IdleParse == [pc |-> "idle", key |-> NoKey, current |-> FALSE, found |-> FALSE]
IdleCompare == [pc |-> "idle", source |-> {}, obsolete |-> {}, missing |-> {},
                file |-> NoFile, key |-> NoKey]

Init ==
    /\ files = [f \in FileId |-> NoRow]
    /\ nextFile \in FileId
    /\ \A f \in FileId : nextFile <= f
    /\ clock = 0
    /\ hostinfo = {}
    /\ issued = {FirstCert}
    /\ fs = EmptyCache
    /\ fsReady = TRUE
    /\ load = {}
    /\ arch = [c \in Cert |-> IdleArchive]
    /\ parse = [f \in FileId |-> IdleParse]
    /\ compare = IdleCompare
    /\ deleting = {}
    /\ locked = {}
    /\ unindexed = NoCert
    /\ pruned = NoFile
    /\ replacing = {}
    /\ used = [upload |-> 0, renewal |-> 0, delete |-> 0, expiry |-> 0,
               restart |-> 0, failure |-> 0]

\* One more event of the kind may happen.
Spare(kind) ==
    \E b \in Budget : used[kind] < b[kind] /\ \A k \in Kind : used[k] <= b[k]

(***************************************************************************)
(* processArchive (processarchive.go)                                      *)
(***************************************************************************)

\* The task of an archive that a client posted with certificate c starts.
ArchiveStart(c, pack) ==
    /\ c \in issued
    /\ arch[c].pc = "idle"
    /\ Spare("upload")
    /\ used' = [used EXCEPT !.upload = @ + 1]
    /\ arch' = [arch EXCEPT ![c] = [IdleArchive EXCEPT !.pc = "listCurrent",
                                                       !.pack = pack]]
    /\ UNCHANGED <<db, cache, load, parse, compare, removers, replacing>>

\* SELECT fileid, filename ... WHERE certfp = $1 and current = true
ArchiveListCurrent(c) ==
    /\ arch[c].pc = "listCurrent"
    /\ arch' = [arch EXCEPT ![c] = [arch[c] EXCEPT
                 !.pc = "countHost",
                 !.cur = [n \in Name |->
                   IF \E f \in Current(c) : files[f].name = n
                   THEN CHOOSE f \in Current(c) : files[f].name = n
                   ELSE NoFile]]]
    /\ UNCHANGED <<db, cache, load, parse, compare, removers, replacing, used>>

\* SELECT COUNT(*) FROM hostinfo WHERE certfp = $1
ArchiveCountHost(c) ==
    /\ arch[c].pc = "countHost"
    /\ arch' = [arch EXCEPT ![c] = [arch[c] EXCEPT
                 !.pc = "compare",
                 !.host = c \in hostinfo,
                 !.todo = {n \in Name : arch[c].pack[n] # Absent}]]
    /\ UNCHANGED <<db, cache, load, parse, compare, removers, replacing, used>>

\* processFile: is the latest version the same?
ArchiveCompare(c) ==
    /\ arch[c].pc = "compare"
    /\ \E n \in arch[c].todo : \E old \in Latest(<<c, n>>) :
         LET same == old # NoFile /\ files[old].content = arch[c].pack[n]
         IN  arch' = [arch EXCEPT ![c] = [arch[c] EXCEPT
                       !.todo = @ \ {n},
                       !.name = n,
                       !.old = IF same THEN old ELSE NoFile,
                       !.pc = IF same /\ arch[c].host THEN "reactivate"
                              ELSE IF same THEN "unparse"
                              ELSE IF arch[c].cur[n] # NoFile THEN "retire"
                              ELSE "insert"]]
    /\ UNCHANGED <<db, cache, load, parse, compare, removers, replacing, used>>

\* The machine was archived and came back: UPDATE files SET parsed = false
ArchiveUnparse(c) ==
    LET f == arch[c].old IN
    /\ arch[c].pc = "unparse"
    /\ f \notin locked
    /\ files' = [files EXCEPT ![f] =
                   IF @.exists THEN [@ EXCEPT !.parsed = FALSE] ELSE @]
    /\ arch' = [arch EXCEPT ![c] = [arch[c] EXCEPT !.pc = "reactivate"]]
    /\ UNCHANGED <<nextFile, clock, hostinfo, issued, cache, load, parse,
                   compare, removers, replacing, used>>

\* UPDATE files SET current=true, received=NOW() WHERE fileid=$1 AND NOT current
ArchiveReactivate(c) ==
    LET f == arch[c].old IN
    /\ arch[c].pc = "reactivate"
    /\ IF Exists(f) /\ ~files[f].current
       THEN /\ f \notin locked
            /\ files' = [files EXCEPT ![f] = [@ EXCEPT !.current = TRUE,
                                                        !.received = clock]]
            /\ clock' = clock + 1
       ELSE UNCHANGED <<files, clock>>
    /\ arch' = [arch EXCEPT ![c] = [arch[c] EXCEPT
                 !.pc = "compare", !.cur = Without(@, arch[c].name)]]
    /\ UNCHANGED <<nextFile, hostinfo, issued, cache, load, parse, compare,
                   removers, replacing, used>>

\* Slip: the previous version is not marked.
RetireNot(f) == UNCHANGED files

\* UPDATE files SET current=false WHERE fileid = $1 AND current, by a file id
\* read at the start; it waits for a transaction that holds the row.
Retire(f) ==
    /\ Exists(f) /\ files[f].current => f \notin locked
    /\ files' = [files EXCEPT ![f] =
                   IF @.exists THEN [@ EXCEPT !.current = FALSE] ELSE @]

ArchiveRetire(c) ==
    /\ arch[c].pc = "retire"
    /\ Retire(arch[c].cur[arch[c].name])
    /\ arch' = [arch EXCEPT ![c] = [arch[c] EXCEPT
                 !.pc = "insert", !.cur = Without(@, arch[c].name)]]
    /\ UNCHANGED <<nextFile, clock, hostinfo, issued, cache, load, parse,
                   compare, removers, replacing, used>>

\* INSERT INTO files(...): current and unparsed by default
ArchiveInsert(c) ==
    /\ arch[c].pc = "insert"
    /\ nextFile \in FileId
    /\ nextFile' = nextFile + 1
    /\ files' = [files EXCEPT ![nextFile] =
                   [exists |-> TRUE, cert |-> c, name |-> arch[c].name,
                    content |-> arch[c].pack[arch[c].name],
                    current |-> TRUE, parsed |-> FALSE, received |-> clock]]
    /\ clock' = clock + 1
    /\ arch' = [arch EXCEPT ![c] = [arch[c] EXCEPT !.pc = "compare"]]
    /\ UNCHANGED <<hostinfo, issued, cache, load, parse, compare, removers,
                   replacing, used>>

\* The files that were current and are not in this package: UPDATE files ...
ArchiveClear(c) ==
    /\ arch[c].pc = "compare"
    /\ arch[c].todo = {}
    /\ \E n \in Name :
         /\ arch[c].cur[n] # NoFile
         /\ Retire(arch[c].cur[n])
         /\ arch' = [arch EXCEPT ![c] = [arch[c] EXCEPT !.pc = "unindex", !.name = n]]
    /\ UNCHANGED <<nextFile, clock, hostinfo, issued, cache, load, parse,
                   compare, removers, replacing, used>>

\* ... and removeFileFromFastSearch
ArchiveUnindex(c) ==
    LET n == arch[c].name IN
    /\ arch[c].pc = "unindex"
    /\ fs' = removeFileFromFastSearch(fs, arch[c].cur[n])
    /\ arch' = [arch EXCEPT ![c] = [arch[c] EXCEPT !.pc = "compare",
                                               !.cur = Without(@, n)]]
    /\ UNCHANGED <<db, fsReady, load, parse, compare, removers, replacing,
                   used>>

ArchiveDone(c) ==
    /\ arch[c].pc = "compare"
    /\ arch[c].todo = {}
    /\ \A n \in Name : arch[c].cur[n] = NoFile
    /\ arch' = [arch EXCEPT ![c] = IdleArchive]
    /\ UNCHANGED <<db, cache, load, parse, compare, removers, replacing, used>>

\* A statement or a read of the archive fails: processArchive returns the
\* error and what it has done so far stays, no statement being part of the
\* transaction it opened.
ArchiveFail(c) ==
    /\ arch[c].pc \notin {"idle", "countHost", "unindex"}
    /\ Spare("failure")
    /\ used' = [used EXCEPT !.failure = @ + 1]
    /\ arch' = [arch EXCEPT ![c] = IdleArchive]
    /\ UNCHANGED <<db, cache, load, parse, compare, removers, replacing>>

\* That SELECT COUNT(*) failed is only logged, and the host counts as unknown.
ArchiveCountFail(c) ==
    /\ arch[c].pc = "countHost"
    /\ Spare("failure")
    /\ used' = [used EXCEPT !.failure = @ + 1]
    /\ arch' = [arch EXCEPT ![c] = [arch[c] EXCEPT
                 !.pc = "compare",
                 !.host = FALSE,
                 !.todo = {n \in Name : arch[c].pack[n] # Absent}]]
    /\ UNCHANGED <<db, cache, load, parse, compare, removers, replacing>>

\* That the SELECT of the latest version failed is only logged, and the file
\* counts as new.
ArchiveCompareFail(c) ==
    /\ arch[c].pc = "compare"
    /\ Spare("failure")
    /\ used' = [used EXCEPT !.failure = @ + 1]
    /\ \E n \in arch[c].todo :
         arch' = [arch EXCEPT ![c] = [arch[c] EXCEPT
                   !.todo = @ \ {n},
                   !.name = n,
                   !.old = NoFile,
                   !.pc = IF arch[c].cur[n] # NoFile THEN "retire" ELSE "insert"]]
    /\ UNCHANGED <<db, cache, load, parse, compare, removers, replacing>>

(***************************************************************************)
(* parseFilesJob (parseFiles.go)                                           *)
(***************************************************************************)

\* SELECT fileid FROM files WHERE NOT parsed: one goroutine for each.  The
\* job does not start again before all of them have returned.
ParseStart ==
    LET unparsed == {f \in Rows : ~files[f].parsed} IN
    /\ \A f \in FileId : parse[f].pc = "idle"
    /\ unparsed # {}
    /\ parse' = [f \in FileId |-> IF f \in unparsed
                                  THEN [IdleParse EXCEPT !.pc = "read"]
                                  ELSE IdleParse]
    /\ UNCHANGED <<db, cache, load, arch, compare, removers, replacing, used>>

\* SELECT filename, ..., current FROM files WHERE fileid=$1
ParseRead(f) ==
    /\ parse[f].pc = "read"
    /\ parse' = [parse EXCEPT ![f] =
                   IF ~Exists(f) THEN IdleParse
                   ELSE [IdleParse EXCEPT !.pc = IF files[f].current
                                                 THEN "index" ELSE "count",
                                          !.key = KeyOf(f),
                                          !.current = files[f].current]]
    /\ UNCHANGED <<db, cache, load, arch, compare, removers, replacing, used>>

\* addFileToFastSearch, while the transaction is still open
ParseIndex(f) ==
    /\ parse[f].pc = "index"
    /\ fs' = addFileToFastSearch(fs, f, parse[f].key)
    /\ parse' = [parse EXCEPT ![f] = [parse[f] EXCEPT !.pc = "count"]]
    /\ UNCHANGED <<db, fsReady, load, arch, compare, removers, replacing, used>>

\* SELECT count(*) FROM hostinfo WHERE certfp=$1
ParseCount(f) ==
    /\ parse[f].pc = "count"
    /\ parse' = [parse EXCEPT ![f] = [parse[f] EXCEPT
                   !.pc = "commit", !.found = parse[f].key[1] \in hostinfo]]
    /\ UNCHANGED <<db, cache, load, arch, compare, removers, replacing, used>>

\* The rest of the transaction.  Without a hostinfo row, a current file
\* inserts one; if another transaction has inserted it meanwhile, the
\* duplicate key makes this one roll back, and the job tries again later.
ParseCommit(f) ==
    LET c         == parse[f].key[1]
        inserts   == ~parse[f].found /\ parse[f].current
        duplicate == inserts /\ c \in hostinfo
    IN
    /\ parse[f].pc = "commit"
    /\ f \notin locked
    /\ parse[f].found \/ parse[f].current => c \notin deleting
    /\ hostinfo' = IF inserts THEN hostinfo \cup {c} ELSE hostinfo
    /\ files' = [files EXCEPT ![f] =
                   IF @.exists /\ ~duplicate THEN [@ EXCEPT !.parsed = TRUE]
                   ELSE @]
    /\ parse' = [parse EXCEPT ![f] = IdleParse]
    /\ UNCHANGED <<nextFile, clock, issued, cache, load, arch, compare,
                   removers, replacing, used>>

\* Slip: the deferred function marks the file parsed after an error, too.
ParseFailParsed(f) ==
    /\ parse[f].pc \in {"read", "count", "commit"}
    /\ Spare("failure")
    /\ used' = [used EXCEPT !.failure = @ + 1]
    /\ parse' = [parse EXCEPT ![f] = IdleParse]
    /\ files' = [files EXCEPT ![f] =
                   IF @.exists THEN [@ EXCEPT !.parsed = TRUE] ELSE @]
    /\ UNCHANGED <<nextFile, clock, hostinfo, issued, cache, load, arch, compare,
                   removers, replacing>>

\* A panic or an error: rollback, but the file stays in the search cache.
ParseFail(f) ==
    /\ parse[f].pc \in {"read", "count", "commit"}
    /\ Spare("failure")
    /\ used' = [used EXCEPT !.failure = @ + 1]
    /\ parse' = [parse EXCEPT ![f] = IdleParse]
    /\ UNCHANGED <<db, cache, load, arch, compare, removers, replacing>>

(***************************************************************************)
(* compareSearchCacheJob (fastSearch.go)                                   *)
(***************************************************************************)

Indexed == numberOfFilesInFastSearch(fs)

\* The SELECT of a pass.  Nothing is done before the cache was loaded.
CompareSelect ==
    /\ compare.pc \in {"idle", "second"}
    /\ fsReady
    /\ compare' = [compare EXCEPT !.pc = IF @ = "idle" THEN "pass1" ELSE "pass2",
                                  !.source = Source]
    /\ UNCHANGED <<db, cache, load, arch, parse, removers, replacing, used>>

\* Slip: the second pass subtracts its findings instead of intersecting.
ComparePassMinus ==
    /\ compare.pc \in {"pass1", "pass2"}
    /\ compare' = IF compare.pc = "pass1"
                  THEN [compare EXCEPT !.pc = "second", !.source = {},
                                       !.obsolete = Indexed \ compare.source,
                                       !.missing = compare.source \ Indexed]
                  ELSE [compare EXCEPT !.pc = "repair", !.source = {},
                                       !.obsolete = @ \ (Indexed \ compare.source),
                                       !.missing = @ \ (compare.source \ Indexed)]
    /\ UNCHANGED <<db, cache, load, arch, parse, removers, replacing, used>>

\* The comparison of a pass, under the read lock.  Only what both passes
\* found is acted upon.
ComparePass ==
    LET obsolete == Indexed \ compare.source
        missing  == compare.source \ Indexed
    IN
    /\ compare.pc \in {"pass1", "pass2"}
    /\ compare' = IF compare.pc = "pass1"
                  THEN [compare EXCEPT !.pc = "second", !.source = {},
                                       !.obsolete = obsolete, !.missing = missing]
                  ELSE [compare EXCEPT !.pc = "repair", !.source = {},
                                       !.obsolete = @ \cap obsolete,
                                       !.missing = @ \cap missing]
    /\ UNCHANGED <<db, cache, load, arch, parse, removers, replacing, used>>

CompareRemove ==
    /\ compare.pc = "repair"
    /\ \E f \in compare.obsolete :
         /\ fs' = removeFileFromFastSearch(fs, f)
         /\ compare' = [compare EXCEPT !.obsolete = @ \ {f}]
    /\ UNCHANGED <<db, fsReady, load, arch, parse, removers, replacing, used>>

\* Slip: the query's error is only logged, as in processFile, and a file that
\* is gone is added under an empty key.
CompareReadGone ==
    /\ compare.pc = "repair"
    /\ compare.obsolete = {}
    /\ \E f \in compare.missing :
         compare' = [compare EXCEPT
                      !.missing = @ \ {f}, !.pc = "add", !.file = f,
                      !.key = IF Exists(f) /\ files[f].current THEN KeyOf(f) ELSE NoKey]
    /\ UNCHANGED <<db, cache, load, arch, parse, removers, replacing, used>>

\* SELECT filename,certfp,content FROM files WHERE fileid=$1 AND current
CompareRead ==
    /\ compare.pc = "repair"
    /\ compare.obsolete = {}
    /\ \E f \in compare.missing :
         compare' = IF Exists(f) /\ files[f].current
                    THEN [compare EXCEPT !.missing = @ \ {f}, !.pc = "add",
                                         !.file = f, !.key = KeyOf(f)]
                    ELSE [compare EXCEPT !.missing = @ \ {f}]
    /\ UNCHANGED <<db, cache, load, arch, parse, removers, replacing, used>>

CompareAdd ==
    /\ compare.pc = "add"
    /\ fs' = addFileToFastSearch(fs, compare.file, compare.key)
    /\ compare' = [compare EXCEPT !.pc = "repair", !.file = NoFile, !.key = NoKey]
    /\ UNCHANGED <<db, fsReady, load, arch, parse, removers, replacing, used>>

CompareDone ==
    /\ compare.pc = "repair"
    /\ compare.obsolete = {}
    /\ compare.missing = {}
    /\ compare' = IdleCompare
    /\ UNCHANGED <<db, cache, load, arch, parse, removers, replacing, used>>

(***************************************************************************)
(* Removal of a host: DELETE /api/v2/host (api_host.go) empties the cache  *)
(* inside the transaction, removeInactiveMachinesJob after it.             *)
(***************************************************************************)

DeleteExec(c) ==
    /\ c \in hostinfo \ deleting
    /\ Spare("delete")
    /\ used' = [used EXCEPT !.delete = @ + 1]
    /\ deleting' = deleting \cup {c}
    /\ locked' = locked \cup {f \in Rows : files[f].cert = c}
    /\ fs' = removeHostFromFastSearch(fs, c)
    /\ UNCHANGED <<db, fsReady, load, arch, parse, compare, unindexed, pruned,
                   replacing>>

DeleteCommit(c) ==
    /\ c \in deleting
    /\ files' = [f \in FileId |-> IF f \in locked /\ files[f].cert = c
                                  THEN [files[f] EXCEPT !.current = FALSE]
                                  ELSE files[f]]
    /\ hostinfo' = hostinfo \ {c}
    /\ deleting' = deleting \ {c}
    /\ locked' = {f \in locked : files[f].cert # c}
    /\ UNCHANGED <<nextFile, clock, issued, cache, load, arch, parse, compare,
                   unindexed, pruned, replacing, used>>

\* The commit fails: everything is rolled back but the cache, which stays
\* without the host.
DeleteFail(c) ==
    /\ c \in deleting
    /\ Spare("failure")
    /\ used' = [used EXCEPT !.failure = @ + 1]
    /\ deleting' = deleting \ {c}
    /\ locked' = {f \in locked : files[f].cert # c}
    /\ UNCHANGED <<db, cache, load, arch, parse, compare, unindexed, pruned,
                   replacing>>

\* A host that was not seen for 30 days, or that is a duplicate
InactiveArchive(c) ==
    /\ c \in hostinfo \ deleting
    /\ unindexed = NoCert
    /\ Spare("expiry")
    /\ used' = [used EXCEPT !.expiry = @ + 1]
    /\ files' = [f \in FileId |-> IF Exists(f) /\ files[f].cert = c
                                  THEN [files[f] EXCEPT !.current = FALSE]
                                  ELSE files[f]]
    /\ hostinfo' = hostinfo \ {c}
    /\ unindexed' = c
    /\ UNCHANGED <<nextFile, clock, issued, cache, load, arch, parse, compare,
                   deleting, locked, pruned, replacing>>

\* A certificate with no file received for 180 days
InactiveDelete(c) ==
    LET rows == {f \in Rows : files[f].cert = c} IN
    /\ rows # {}
    /\ c \notin deleting
    /\ unindexed = NoCert
    /\ Spare("expiry")
    /\ used' = [used EXCEPT !.expiry = @ + 1]
    /\ files' = [f \in FileId |-> IF f \in rows THEN NoRow ELSE files[f]]
    /\ hostinfo' = hostinfo \ {c}
    /\ unindexed' = c
    /\ UNCHANGED <<nextFile, clock, issued, cache, load, arch, parse, compare,
                   deleting, locked, pruned, replacing>>

InactiveUnindex ==
    /\ unindexed # NoCert
    /\ fs' = removeHostFromFastSearch(fs, unindexed)
    /\ unindexed' = NoCert
    /\ UNCHANGED <<db, fsReady, load, arch, parse, compare, deleting, locked,
                   pruned, replacing, used>>

(***************************************************************************)
(* pruneOldFilesJob (pruneOldFiles.go).  The oldest and the newest version *)
(* by mtime stay.  mtime is the client's: any version may go, the current  *)
(* one included, as long as another stays (with equal mtimes the oldest    *)
(* and the newest are one version).                                        *)
(***************************************************************************)

PruneDelete(f) ==
    /\ Exists(f)
    /\ f \notin locked
    /\ Cardinality(Versions(KeyOf(f))) > 1
    /\ pruned = NoFile
    /\ files' = [files EXCEPT ![f] = NoRow]
    /\ pruned' = f
    /\ UNCHANGED <<nextFile, clock, hostinfo, issued, cache, load, arch,
                   parse, compare, deleting, locked, unindexed, replacing,
                   used>>

PruneUnindex ==
    /\ pruned # NoFile
    /\ fs' = removeFileFromFastSearch(fs, pruned)
    /\ pruned' = NoFile
    /\ UNCHANGED <<db, fsReady, load, arch, parse, compare, deleting, locked,
                   unindexed, replacing, used>>

(***************************************************************************)
(* RenewCert (cert.go): the transaction, then an HTTP request that updates *)
(* the cache and whose outcome is ignored.  The old certificate stays      *)
(* valid, and the client goes on with it if it does not get the reply.     *)
(***************************************************************************)

RenewCommit(old, new) ==
    /\ old \in issued \ deleting
    /\ new \in Cert \ issued
    /\ Spare("renewal")
    /\ used' = [used EXCEPT !.renewal = @ + 1]
    /\ issued' = issued \cup {new}
    /\ hostinfo' = IF old \in hostinfo THEN (hostinfo \ {old}) \cup {new}
                   ELSE hostinfo
    /\ files' = [f \in FileId |-> IF Exists(f) /\ files[f].cert = old
                                  THEN [files[f] EXCEPT !.cert = new]
                                  ELSE files[f]]
    /\ replacing' = replacing \cup {<<old, new>>}
    /\ UNCHANGED <<nextFile, clock, cache, load, arch, parse, compare,
                   removers>>

ReplaceInCache(old, new) ==
    /\ <<old, new>> \in replacing
    /\ fs' = replaceCertificateInCache(fs, old, new)
    /\ replacing' = replacing \ {<<old, new>>}
    /\ UNCHANGED <<db, fsReady, load, arch, parse, compare, removers, used>>

ReplaceLost(old, new) ==
    /\ <<old, new>> \in replacing
    /\ Spare("failure")
    /\ used' = [used EXCEPT !.failure = @ + 1]
    /\ replacing' = replacing \ {<<old, new>>}
    /\ UNCHANGED <<db, cache, load, arch, parse, compare, removers>>

(***************************************************************************)
(* Restart of the service, and loadContentForFastSearch.                   *)
(***************************************************************************)

\* The tables survive.  The task of an archive that was being processed is
\* still in the table tasks and starts over.
Restart ==
    /\ Spare("restart")
    /\ used' = [used EXCEPT !.restart = @ + 1]
    /\ fs' = EmptyCache
    /\ fsReady' = FALSE
    /\ load' = {<<f, KeyOf(f)>> : f \in Source}
    /\ arch' = [c \in Cert |->
                  IF arch[c].pc = "idle" THEN IdleArchive
                  ELSE [IdleArchive EXCEPT !.pc = "listCurrent",
                                           !.pack = arch[c].pack]]
    /\ parse' = [f \in FileId |-> IdleParse]
    /\ compare' = IdleCompare
    /\ deleting' = {}
    /\ locked' = {}
    /\ unindexed' = NoCert
    /\ pruned' = NoFile
    /\ replacing' = {}
    /\ UNCHANGED db

LoadAdd ==
    /\ \E r \in load :
         /\ fs' = addFileToFastSearch(fs, r[1], r[2])
         /\ load' = load \ {r}
    /\ UNCHANGED <<db, fsReady, arch, parse, compare, removers, replacing,
                   used>>

LoadDone ==
    /\ ~fsReady
    /\ load = {}
    /\ fsReady' = TRUE
    /\ UNCHANGED <<db, fs, load, arch, parse, compare, removers, replacing,
                   used>>

Archive(c) ==
    \/ ArchiveListCurrent(c) \/ ArchiveCountHost(c) \/ ArchiveCompare(c)
    \/ ArchiveUnparse(c) \/ ArchiveReactivate(c) \/ ArchiveRetire(c)
    \/ ArchiveInsert(c) \/ ArchiveClear(c) \/ ArchiveUnindex(c) \/ ArchiveDone(c)

Parse(f) == ParseRead(f) \/ ParseIndex(f) \/ ParseCount(f) \/ ParseCommit(f)

CompareJob == \/ CompareSelect \/ ComparePass \/ CompareRemove
              \/ CompareRead \/ CompareAdd \/ CompareDone

Load == LoadAdd \/ LoadDone

Next ==
    \/ \E c \in Cert : \/ \E pack \in [Name -> Content \cup {Absent}] :
                            ArchiveStart(c, pack)
                       \/ Archive(c) \/ ArchiveFail(c)
                       \/ ArchiveCountFail(c) \/ ArchiveCompareFail(c)
                       \/ DeleteExec(c) \/ DeleteCommit(c) \/ DeleteFail(c)
                       \/ InactiveArchive(c) \/ InactiveDelete(c)
    \/ ParseStart
    \/ \E f \in FileId : Parse(f) \/ ParseFail(f) \/ PruneDelete(f)
    \/ CompareJob
    \/ InactiveUnindex \/ PruneUnindex
    \/ \E old, new \in Cert : \/ RenewCommit(old, new)
                              \/ ReplaceInCache(old, new)
                              \/ ReplaceLost(old, new)
    \/ Restart \/ Load

\* The jobs run periodically and the tasks of the queue are started, so what
\* can go on does.  Nobody has to upload, remove, renew, prune or fail.
Fairness ==
    /\ \A c \in Cert : /\ WF_vars(Archive(c))
                      /\ WF_vars(DeleteCommit(c) \/ DeleteFail(c))
    /\ WF_vars(ParseStart)
    /\ \A f \in FileId : WF_vars(Parse(f))
    /\ WF_vars(CompareJob)
    /\ WF_vars(InactiveUnindex) /\ WF_vars(PruneUnindex)
    /\ \A old, new \in Cert :
         WF_vars(ReplaceInCache(old, new) \/ ReplaceLost(old, new))
    /\ WF_vars(Load)

Spec == Init /\ [][Next]_vars
FairSpec == Spec /\ Fairness

(***************************************************************************)
(* Properties                                                              *)
(***************************************************************************)

\* Every part of the state has its type, a process that is about to use a
\* file id or a key has one, and a row that a DELETE request holds stays.
TablesOK ==
    /\ files \in [FileId -> Row]
    /\ nextFile \in Nat
    /\ \A f \in Rows : f < nextFile
    /\ clock \in Nat
    /\ hostinfo \subseteq Cert
    /\ issued \subseteq Cert

CacheOK ==
    /\ fs \in Cache
    /\ fsReady \in BOOLEAN
    /\ load \subseteq FileId \X Key

Archiving ==
    {a \in [pc   : {"idle", "listCurrent", "countHost", "compare", "unparse",
                    "reactivate", "retire", "insert", "unindex"},
            pack : [Name -> Content \cup {Absent}],
            cur  : [Name -> FileId \cup {NoFile}],
            host : BOOLEAN, todo : SUBSET Name, name : Name,
            old  : FileId \cup {NoFile}] :
       /\ a.pc \in {"unparse", "reactivate"} => a.old # NoFile
       /\ a.pc \in {"retire", "unindex"} => a.cur[a.name] # NoFile}

Parsing ==
    {p \in [pc : {"idle", "read", "index", "count", "commit"},
            key : Key \cup {NoKey}, current : BOOLEAN, found : BOOLEAN] :
       p.pc \in {"index", "count", "commit"} => p.key # NoKey}

Comparing ==
    {c \in [pc : {"idle", "pass1", "second", "pass2", "repair", "add"},
            source : SUBSET FileId, obsolete : SUBSET FileId,
            missing : SUBSET FileId, file : FileId \cup {NoFile},
            key : Key \cup {NoKey}] :
       c.pc = "add" => c.file # NoFile /\ c.key # NoKey}

ProcessesOK ==
    /\ arch \in [Cert -> Archiving]
    /\ parse \in [FileId -> Parsing]
    /\ compare \in Comparing

RemoversOK ==
    /\ deleting \subseteq Cert
    /\ \A f \in locked : f \in Rows /\ files[f].cert \in deleting
    /\ unindexed \in Cert \cup {NoCert}
    /\ pruned \in FileId \cup {NoFile}
    /\ replacing \subseteq Cert \X Cert

UsedOK == used \in [upload : Nat, renewal : Nat, delete : Nat, expiry : Nat,
                    restart : Nat, failure : Nat]

TypeOK == TablesOK /\ CacheOK /\ ProcessesOK /\ RemoversOK /\ UsedOK

\* A search never finds content whose key is gone: searchFiles would index
\* the second part of an empty key and take the service down.
SearchNeverPanics == ContentHasKey(fs)

\* As long as no certificate is renewed, a host has at most one current
\* version of a file, however the processing of its archives is interleaved
\* with deletions, failures and restarts ("Set current to false for the
\* previous version of this file", processarchive.go:281).
OneCurrentVersion ==
    used.renewal = 0 =>
      \A f, g \in Rows : /\ files[f].current /\ files[g].current
                         /\ KeyOf(f) = KeyOf(g)
                         => f = g

\* As long as no certificate is renewed, the three searches agree on every
\* search string: the unfiltered one goes by fsContent, the one with a filter
\* and the one for hosts by fsID, and two of them name a hit by fsKey
\* (fastSearch.go:226, 251 and 278).
SearchesAgree ==
    used.renewal = 0 =>
      \A match \in SUBSET FileId :
        LET hits == searchFiles(fs, match) IN
        /\ searchFilesWithFilter(fs, match, Cert) = hits
        /\ searchForHosts(fs, match) = {fs.key[f][1] : f \in hits}

\* As long as no certificate is renewed, fsKey is the reverse of fsID.
ReverseWithoutRenewal == used.renewal = 0 => Reverse(fs)

\* When nothing is written any more, the search cache and the database
\* agree on the files that can be searched for, whatever deletions, expiries,
\* prunings, failures and restarts came before, but for a renewal.
CacheConverges ==
    <>[](used.renewal = 0 => Indexed = Source /\ fs.content = Source)

\* A current file is parsed in the end, and its host known, although the
\* goroutines that parse a new host's files race to insert its row, fail, and
\* are cut off by restarts.  (Unless the certificate is renewed meanwhile: the
\* first parse of a host may then insert it under the old one.  The run removes
\* no host; see HostRepopulated for what can happen when a host comes back.)
FilesGetParsed ==
    <>[](used.renewal = 0 => \A f \in Rows : files[f].current =>
           files[f].parsed /\ files[f].cert \in hostinfo)

\* "Set parsed=false so the file will be parsed again, because the hostinfo
\* values must be re-populated" (processarchive.go:263): when a file that is
\* current becomes parsed, its host is known.
HostRepopulated ==
    [][\A f \in Rows : ~files[f].parsed /\ files'[f].parsed /\ files'[f].current
         => files'[f].cert \in hostinfo']_vars

\* "When a machine gets a new certificate to replace the old one, the search
\* cache must be updated" (api_internal.go:46): in the end, a file is found
\* under the certificate that the database has for it.
KeysConverge == <>[](\A f \in Indexed : Exists(f) /\ fs.key[f] = KeyOf(f))

===============================================================================
