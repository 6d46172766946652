---------------------------- MODULE InventoryProofs ----------------------------
(***************************************************************************)
(* Proofs about Inventory, for every value of its constants.               *)
(***************************************************************************)
EXTENDS Inventory, TLAPS

(***************************************************************************)
(* The operators of the search cache.                                      *)
(***************************************************************************)

LEMMA AddTyped ==
    ASSUME NEW c \in Cache, NEW f \in FileId, NEW k \in Key
    PROVE  addFileToFastSearch(c, f, k) \in Cache
  BY DEF Cache, addFileToFastSearch

LEMMA RemoveFileTyped ==
    ASSUME NEW c \in Cache, NEW f \in FileId
    PROVE  removeFileFromFastSearch(c, f) \in Cache
  BY DEF Cache, removeFileFromFastSearch

LEMMA RemoveHostTyped ==
    ASSUME NEW c \in Cache, NEW cert \in Cert
    PROVE  removeHostFromFastSearch(c, cert) \in Cache
  BY DEF Cache, removeHostFromFastSearch

LEMMA ReplaceTyped ==
    ASSUME NEW c \in Cache, NEW old \in Cert, NEW new \in Cert
    PROVE  replaceCertificateInCache(c, old, new) \in Cache
  BY DEF Cache, replaceCertificateInCache, Key

LEMMA EmptyTyped == EmptyCache \in Cache
  BY DEF Cache, EmptyCache

\* Every writer keeps a key for every file that has content.
LEMMA AddKeepsKeys ==
    ASSUME NEW c \in Cache, NEW f \in FileId, NEW k \in Key, ContentHasKey(c)
    PROVE  ContentHasKey(addFileToFastSearch(c, f, k))
  BY NoKeyAssumption DEF Cache, addFileToFastSearch, ContentHasKey

LEMMA RemoveFileKeepsKeys ==
    ASSUME NEW c \in Cache, NEW f \in FileId, ContentHasKey(c)
    PROVE  ContentHasKey(removeFileFromFastSearch(c, f))
  BY DEF Cache, removeFileFromFastSearch, ContentHasKey

LEMMA RemoveHostKeepsKeys ==
    ASSUME NEW c \in Cache, NEW cert \in Cert, ContentHasKey(c)
    PROVE  ContentHasKey(removeHostFromFastSearch(c, cert))
  BY DEF Cache, removeHostFromFastSearch, ContentHasKey

LEMMA ReplaceKeepsKeys ==
    ASSUME NEW c \in Cache, NEW old \in Cert, NEW new \in Cert, ContentHasKey(c)
    PROVE  ContentHasKey(replaceCertificateInCache(c, old, new))
<1> DEFINE r == replaceCertificateInCache(c, old, new)
           moved(f) == {n \in Name : c.id[<<old, n>>] = f}
<1>1. SUFFICES ASSUME NEW f \in c.content PROVE r.key[f] # NoKey
  BY DEF ContentHasKey, replaceCertificateInCache
<1>2. f \in FileId /\ c.key[f] # NoKey
  BY DEF Cache, ContentHasKey
<1>3. CASE moved(f) = {}
  BY <1>2, <1>3 DEF replaceCertificateInCache
<1>4. CASE moved(f) # {}
  <2>1. PICK n \in Name : r.key[f] = <<new, n>>
    BY <1>2, <1>4 DEF replaceCertificateInCache
  <2>2. QED
    BY <2>1, NoKeyAssumption DEF Key
<1>5. QED
  BY <1>3, <1>4

(***************************************************************************)
(* Type correctness.                                                       *)
(***************************************************************************)

LEMMA IdleTyped == /\ IdleArchive \in Archiving
                   /\ IdleParse \in Parsing
                   /\ IdleCompare \in Comparing
  BY NameAssumption
  DEF IdleArchive, IdleParse, IdleCompare, Archiving, Parsing, Comparing

LEMMA InitTyped == Init => TypeOK
<1> SUFFICES ASSUME Init PROVE TypeOK
  OBVIOUS
<1>1. NoRow \in Row
  BY NameAssumption, FirstCertAssumption DEF NoRow, Row
<1>2. TablesOK
  BY <1>1, FileIdAssumption, FirstCertAssumption
  DEF Init, TablesOK, Rows, Exists, NoRow
<1>3. CacheOK
  BY EmptyTyped DEF Init, CacheOK
<1>4. ProcessesOK
  BY IdleTyped DEF Init, ProcessesOK
<1>5. RemoversOK /\ UsedOK
  BY DEF Init, RemoversOK, UsedOK
<1>6. QED
  BY <1>2, <1>3, <1>4, <1>5 DEF TypeOK

\* Replacing the record of one process keeps the processes typed.
LEMMA ArchUpdate ==
    ASSUME ProcessesOK, NEW c \in Cert, NEW r \in Archiving,
           arch' = [arch EXCEPT ![c] = r], UNCHANGED <<parse, compare>>
    PROVE  ProcessesOK'
  BY DEF ProcessesOK

LEMMA ParseUpdate ==
    ASSUME ProcessesOK, NEW f \in FileId, NEW r \in Parsing,
           parse' = [parse EXCEPT ![f] = r], UNCHANGED <<arch, compare>>
    PROVE  ProcessesOK'
  BY DEF ProcessesOK

LEMMA WithoutTyped ==
    ASSUME NEW cur \in [Name -> FileId \cup {NoFile}], NEW n \in Name
    PROVE  Without(cur, n) \in [Name -> FileId \cup {NoFile}]
  BY DEF Without

\* Marking a row keeps the tables typed and the held rows held.
LEMMA RowUpdate ==
    ASSUME TablesOK, RemoversOK, NEW f \in FileId, NEW r \in Row,
           r.exists = files[f].exists, r.cert = files[f].cert,
           files' = [files EXCEPT ![f] = r],
           clock' \in Nat, hostinfo' \subseteq Cert,
           UNCHANGED <<nextFile, issued, removers, replacing>>
    PROVE  TablesOK' /\ RemoversOK'
  BY DEF TablesOK, RemoversOK, Rows, Exists, removers

LEMMA RetireTyped ==
    ASSUME TablesOK, RemoversOK, NEW f \in FileId, Retire(f),
           UNCHANGED <<nextFile, clock, hostinfo, issued, removers, replacing>>
    PROVE  TablesOK' /\ RemoversOK'
<1> DEFINE r == IF files[f].exists THEN [files[f] EXCEPT !.current = FALSE]
                ELSE files[f]
<1>1. files[f] \in Row
  BY DEF TablesOK
<1>2. /\ r \in Row
      /\ r.exists = files[f].exists /\ r.cert = files[f].cert
  BY <1>1 DEF Row
<1>3. files' = [files EXCEPT ![f] = r]
  BY DEF Retire
<1>4. clock' \in Nat /\ hostinfo' \subseteq Cert
  BY DEF TablesOK
<1>5. QED
  BY <1>2, <1>3, <1>4, RowUpdate

LEMMA UsedUpdate ==
    ASSUME UsedOK,
           \/ used' = [used EXCEPT !.upload = @ + 1]
           \/ used' = [used EXCEPT !.renewal = @ + 1]
           \/ used' = [used EXCEPT !.delete = @ + 1]
           \/ used' = [used EXCEPT !.expiry = @ + 1]
           \/ used' = [used EXCEPT !.restart = @ + 1]
           \/ used' = [used EXCEPT !.failure = @ + 1]
    PROVE  UsedOK'
  BY DEF UsedOK

\* The records that the steps of processArchive leave behind.
LEMMA CountedTyped ==
    ASSUME NEW a \in Archiving, NEW host \in BOOLEAN, NEW todo \in SUBSET Name
    PROVE  [a EXCEPT !.pc = "compare", !.host = host, !.todo = todo] \in Archiving
  BY DEF Archiving

LEMMA ComparedTyped ==
    ASSUME NEW a \in Archiving, NEW todo \in SUBSET Name, NEW n \in Name,
           NEW old \in FileId \cup {NoFile},
           NEW pc \in {"unparse", "reactivate", "retire", "insert"},
           pc \in {"unparse", "reactivate"} => old # NoFile,
           pc = "retire" => a.cur[n] # NoFile
    PROVE  [a EXCEPT !.todo = todo, !.name = n, !.old = old, !.pc = pc]
              \in Archiving
  BY DEF Archiving

LEMMA AfterwardsTyped ==
    ASSUME NEW a \in Archiving, NEW n \in Name,
           NEW pc \in {"compare", "insert"}
    PROVE  [a EXCEPT !.pc = pc, !.cur = Without(@, n)] \in Archiving
<1>1. Without(a.cur, n) \in [Name -> FileId \cup {NoFile}]
  BY WithoutTyped DEF Archiving
<1>2. QED
  BY <1>1 DEF Archiving

LEMMA LatestTyped ==
    ASSUME NEW k, NEW f \in Latest(k)
    PROVE  f \in FileId \cup {NoFile}
  BY DEF Latest, Versions, Rows

LEMMA ReadTyped ==
    ASSUME NEW k \in Key, NEW current \in BOOLEAN,
           NEW pc \in {"index", "count"}
    PROVE  [IdleParse EXCEPT !.pc = pc, !.key = k, !.current = current]
              \in Parsing
  BY NoKeyAssumption DEF IdleParse, Parsing

LEMMA QueuedTyped ==
    ASSUME NEW pack \in [Name -> Content \cup {Absent}]
    PROVE  [IdleArchive EXCEPT !.pc = "listCurrent", !.pack = pack] \in Archiving
  BY IdleTyped DEF Archiving

LEMMA ArchiveTyped ==
    ASSUME TypeOK, NEW c \in Cert,
           \/ \E pack \in [Name -> Content \cup {Absent}] : ArchiveStart(c, pack)
           \/ Archive(c) \/ ArchiveFail(c)
           \/ ArchiveCountFail(c) \/ ArchiveCompareFail(c)
    PROVE  TypeOK'
<1> USE DEF TypeOK, db, cache, removers
<1>0. /\ arch[c] \in Archiving
      /\ arch[c].name \in Name
      /\ arch[c].cur \in [Name -> FileId \cup {NoFile}]
      /\ arch[c].old \in FileId \cup {NoFile}
  BY DEF ProcessesOK, Archiving
<1>1. ASSUME NEW pack \in [Name -> Content \cup {Absent}], ArchiveStart(c, pack)
      PROVE  TypeOK'
  <2> DEFINE r == [IdleArchive EXCEPT !.pc = "listCurrent", !.pack = pack]
  <2>1. r \in Archiving
    BY IdleTyped DEF Archiving
  <2>2. ProcessesOK'
    BY <1>1, <2>1, ArchUpdate DEF ArchiveStart
  <2>3. UsedOK'
    BY <1>1, UsedUpdate DEF ArchiveStart
  <2>4. QED
    BY <1>1, <2>2, <2>3
    DEF ArchiveStart, TablesOK, CacheOK, RemoversOK, Rows, Exists
<1>2. CASE ArchiveListCurrent(c)
  <2> DEFINE cur == [n \in Name |->
                       IF \E f \in Current(c) : files[f].name = n
                       THEN CHOOSE f \in Current(c) : files[f].name = n
                       ELSE NoFile]
             r == [arch[c] EXCEPT !.pc = "countHost", !.cur = cur]
  <2>1. cur \in [Name -> FileId \cup {NoFile}]
    BY DEF Current, Rows
  <2>2. r \in Archiving
    BY <1>0, <2>1 DEF Archiving
  <2>3. ProcessesOK'
    BY <1>2, <2>2, ArchUpdate DEF ArchiveListCurrent
  <2>4. QED
    BY <1>2, <2>3
    DEF ArchiveListCurrent, TablesOK, CacheOK, RemoversOK, Rows, Exists, UsedOK
<1>3. CASE ArchiveCountHost(c)
  <2> DEFINE host == c \in hostinfo
             todo == {n \in Name : arch[c].pack[n] # Absent}
  <2>1. host \in BOOLEAN /\ todo \in SUBSET Name
    OBVIOUS
  <2>2. [arch[c] EXCEPT !.pc = "compare", !.host = host, !.todo = todo]
          \in Archiving
    BY <1>0, <2>1, CountedTyped
  <2>3. ProcessesOK'
    BY <1>3, <2>2, ArchUpdate DEF ArchiveCountHost
  <2>4. QED
    BY <1>3, <2>3
    DEF ArchiveCountHost, TablesOK, CacheOK, RemoversOK, Rows, Exists, UsedOK
<1>4. CASE ArchiveCompare(c)
  <2>0. PICK n \in arch[c].todo : \E old \in Latest(<<c, n>>) :
          LET same == old # NoFile /\ files[old].content = arch[c].pack[n]
          IN  arch' = [arch EXCEPT ![c] = [arch[c] EXCEPT
                        !.todo = @ \ {n},
                        !.name = n,
                        !.old = IF same THEN old ELSE NoFile,
                        !.pc = IF same /\ arch[c].host THEN "reactivate"
                               ELSE IF same THEN "unparse"
                               ELSE IF arch[c].cur[n] # NoFile THEN "retire"
                               ELSE "insert"]]
    BY <1>4 DEF ArchiveCompare
  <2>1. PICK old \in Latest(<<c, n>>) :
          LET same == old # NoFile /\ files[old].content = arch[c].pack[n]
          IN  arch' = [arch EXCEPT ![c] = [arch[c] EXCEPT
                        !.todo = @ \ {n},
                        !.name = n,
                        !.old = IF same THEN old ELSE NoFile,
                        !.pc = IF same /\ arch[c].host THEN "reactivate"
                               ELSE IF same THEN "unparse"
                               ELSE IF arch[c].cur[n] # NoFile THEN "retire"
                               ELSE "insert"]]
    BY <2>0
  <2> DEFINE same == old # NoFile /\ files[old].content = arch[c].pack[n]
             todo == arch[c].todo \ {n}
             keep == IF same THEN old ELSE NoFile
             pc   == IF same /\ arch[c].host THEN "reactivate"
                     ELSE IF same THEN "unparse"
                     ELSE IF arch[c].cur[n] # NoFile THEN "retire"
                     ELSE "insert"
  <2>2. n \in Name /\ todo \in SUBSET Name
    BY <1>0 DEF Archiving
  <2>3. keep \in FileId \cup {NoFile}
    BY LatestTyped
  <2>4. /\ pc \in {"unparse", "reactivate", "retire", "insert"}
        /\ pc \in {"unparse", "reactivate"} => keep # NoFile
        /\ pc = "retire" => arch[c].cur[n] # NoFile
    OBVIOUS
  <2>5. [arch[c] EXCEPT !.todo = todo, !.name = n, !.old = keep, !.pc = pc]
          \in Archiving
    <3> HIDE DEF todo, keep, pc
    <3>1. QED
      BY <1>0, <2>2, <2>3, <2>4, ComparedTyped
  <2>6. ProcessesOK'
    BY <1>4, <2>1, <2>5, ArchUpdate DEF ArchiveCompare
  <2>7. QED
    BY <1>4, <2>6
    DEF ArchiveCompare, TablesOK, CacheOK, RemoversOK, Rows, Exists, UsedOK
<1>5. CASE ArchiveUnparse(c)
  <2> DEFINE f == arch[c].old
             row == IF files[f].exists THEN [files[f] EXCEPT !.parsed = FALSE]
                    ELSE files[f]
  <2>1. f \in FileId
    BY <1>0, <1>5 DEF ArchiveUnparse, Archiving
  <2>2. /\ row \in Row
        /\ row.exists = files[f].exists /\ row.cert = files[f].cert
    BY <2>1 DEF TablesOK, Row
  <2>3. TablesOK' /\ RemoversOK'
    <3>1. files' = [files EXCEPT ![f] = row]
      BY <1>5 DEF ArchiveUnparse
    <3>2. clock' \in Nat /\ hostinfo' \subseteq Cert
      BY <1>5 DEF ArchiveUnparse, TablesOK
    <3>3. QED
      BY <1>5, <2>1, <2>2, <3>1, <3>2, RowUpdate DEF ArchiveUnparse
  <2>4. [arch[c] EXCEPT !.pc = "reactivate"] \in Archiving
    BY <1>0, <2>1, NoFileAssumption DEF Archiving
  <2>5. ProcessesOK'
    BY <1>5, <2>4, ArchUpdate DEF ArchiveUnparse
  <2>6. QED
    BY <1>5, <2>3, <2>5 DEF ArchiveUnparse, CacheOK, UsedOK
<1>6. CASE ArchiveReactivate(c)
  <2> DEFINE f == arch[c].old
  <2>1. f \in FileId
    BY <1>0, <1>6 DEF ArchiveReactivate, Archiving
  <2>2. TablesOK' /\ RemoversOK'
    <3>1. CASE Exists(f) /\ ~files[f].current
      <4> DEFINE row == [files[f] EXCEPT !.current = TRUE, !.received = clock]
      <4>1. /\ row \in Row
            /\ row.exists = files[f].exists /\ row.cert = files[f].cert
        BY <2>1 DEF TablesOK, Row
      <4>2. files' = [files EXCEPT ![f] = row]
        BY <1>6, <3>1 DEF ArchiveReactivate
      <4>3. clock' \in Nat /\ hostinfo' \subseteq Cert
        BY <1>6, <3>1 DEF ArchiveReactivate, TablesOK
      <4>4. QED
        BY <1>6, <2>1, <4>1, <4>2, <4>3, RowUpdate DEF ArchiveReactivate
    <3>2. CASE ~(Exists(f) /\ ~files[f].current)
      BY <1>6, <3>2 DEF ArchiveReactivate, TablesOK, RemoversOK, Rows, Exists
    <3>3. QED
      BY <3>1, <3>2
  <2>3. ProcessesOK'
    BY <1>0, <1>6, AfterwardsTyped, ArchUpdate DEF ArchiveReactivate
  <2>4. QED
    BY <1>6, <2>2, <2>3 DEF ArchiveReactivate, CacheOK, UsedOK
<1>7. CASE ArchiveRetire(c)
  <2>1. arch[c].cur[arch[c].name] \in FileId
    BY <1>0, <1>7 DEF ArchiveRetire, Archiving
  <2>2. TablesOK' /\ RemoversOK'
    BY <1>7, <2>1, RetireTyped DEF ArchiveRetire
  <2>3. ProcessesOK'
    BY <1>0, <1>7, AfterwardsTyped, ArchUpdate DEF ArchiveRetire
  <2>4. QED
    BY <1>7, <2>2, <2>3 DEF ArchiveRetire, CacheOK, UsedOK
<1>8. CASE ArchiveInsert(c)
  <2> DEFINE row == [exists |-> TRUE, cert |-> c, name |-> arch[c].name,
                     content |-> arch[c].pack[arch[c].name],
                     current |-> TRUE, parsed |-> FALSE, received |-> clock]
  <2>1. row \in Row
    BY <1>0 DEF Archiving, TablesOK, Row
  <2>2. TablesOK'
    BY <1>8, <2>1, FileIdAssumption DEF ArchiveInsert, TablesOK, Rows, Exists
  <2>3. RemoversOK'
    BY <1>8, FileIdAssumption DEF ArchiveInsert, TablesOK, RemoversOK, Rows, Exists
  <2>4. [arch[c] EXCEPT !.pc = "compare"] \in Archiving
    BY <1>0 DEF Archiving
  <2>5. ProcessesOK'
    BY <1>8, <2>4, ArchUpdate DEF ArchiveInsert
  <2>6. QED
    BY <1>8, <2>2, <2>3, <2>5 DEF ArchiveInsert, CacheOK, UsedOK
<1>9. CASE ArchiveClear(c)
  <2>1. PICK n \in Name :
          /\ arch[c].cur[n] # NoFile
          /\ Retire(arch[c].cur[n])
          /\ arch' = [arch EXCEPT ![c] = [arch[c] EXCEPT !.pc = "unindex", !.name = n]]
    BY <1>9 DEF ArchiveClear
  <2>2. arch[c].cur[n] \in FileId
    BY <1>0, <2>1
  <2>3. TablesOK' /\ RemoversOK'
    BY <1>9, <2>1, <2>2, RetireTyped DEF ArchiveClear
  <2>4. [arch[c] EXCEPT !.pc = "unindex", !.name = n] \in Archiving
    BY <1>0, <2>1 DEF Archiving
  <2>5. ProcessesOK'
    BY <1>9, <2>1, <2>4, ArchUpdate DEF ArchiveClear
  <2>6. QED
    BY <1>9, <2>3, <2>5 DEF ArchiveClear, CacheOK, UsedOK
<1>10. CASE ArchiveUnindex(c)
  <2>1. arch[c].cur[arch[c].name] \in FileId
    BY <1>0, <1>10 DEF ArchiveUnindex, Archiving
  <2>2. CacheOK'
    BY <1>10, <2>1, RemoveFileTyped DEF ArchiveUnindex, CacheOK
  <2>3. ProcessesOK'
    BY <1>0, <1>10, AfterwardsTyped, ArchUpdate DEF ArchiveUnindex
  <2>4. QED
    BY <1>10, <2>2, <2>3
    DEF ArchiveUnindex, TablesOK, RemoversOK, Rows, Exists, UsedOK
<1>11. CASE ArchiveDone(c)
  <2>1. ProcessesOK'
    BY <1>11, IdleTyped, ArchUpdate DEF ArchiveDone
  <2>2. QED
    BY <1>11, <2>1
    DEF ArchiveDone, TablesOK, CacheOK, RemoversOK, Rows, Exists, UsedOK
<1>12. CASE ArchiveFail(c)
  <2>1. ProcessesOK'
    BY <1>12, IdleTyped, ArchUpdate DEF ArchiveFail
  <2>2. UsedOK'
    BY <1>12, UsedUpdate DEF ArchiveFail
  <2>3. QED
    BY <1>12, <2>1, <2>2
    DEF ArchiveFail, TablesOK, CacheOK, RemoversOK, Rows, Exists
<1>13. CASE ArchiveCountFail(c)
  <2> DEFINE todo == {n \in Name : arch[c].pack[n] # Absent}
  <2>1. [arch[c] EXCEPT !.pc = "compare", !.host = FALSE, !.todo = todo]
          \in Archiving
    BY <1>0, CountedTyped
  <2>2. ProcessesOK'
    BY <1>13, <2>1, ArchUpdate DEF ArchiveCountFail
  <2>3. UsedOK'
    BY <1>13, UsedUpdate DEF ArchiveCountFail
  <2>4. QED
    BY <1>13, <2>2, <2>3
    DEF ArchiveCountFail, TablesOK, CacheOK, RemoversOK, Rows, Exists
<1>14. CASE ArchiveCompareFail(c)
  <2>1. PICK n \in arch[c].todo :
          arch' = [arch EXCEPT ![c] = [arch[c] EXCEPT
                    !.todo = @ \ {n},
                    !.name = n,
                    !.old = NoFile,
                    !.pc = IF arch[c].cur[n] # NoFile THEN "retire" ELSE "insert"]]
    BY <1>14 DEF ArchiveCompareFail
  <2> DEFINE todo == arch[c].todo \ {n}
             pc   == IF arch[c].cur[n] # NoFile THEN "retire" ELSE "insert"
  <2>2. n \in Name /\ todo \in SUBSET Name
    BY <1>0 DEF Archiving
  <2>3. pc \in {"retire", "insert"} /\ (pc = "retire" => arch[c].cur[n] # NoFile)
    OBVIOUS
  <2>4. [arch[c] EXCEPT !.todo = todo, !.name = n, !.old = NoFile, !.pc = pc]
          \in Archiving
    <3> HIDE DEF todo, pc
    <3>1. QED
      BY <1>0, <2>2, <2>3, ComparedTyped
  <2>5. ProcessesOK'
    BY <1>14, <2>1, <2>4, ArchUpdate DEF ArchiveCompareFail
  <2>6. UsedOK'
    BY <1>14, UsedUpdate DEF ArchiveCompareFail
  <2>7. QED
    BY <1>14, <2>5, <2>6
    DEF ArchiveCompareFail, TablesOK, CacheOK, RemoversOK, Rows, Exists
<1>15. QED
  BY <1>1, <1>2, <1>3, <1>4, <1>5, <1>6, <1>7, <1>8, <1>9, <1>10, <1>11, <1>12,
     <1>13, <1>14
  DEF Archive

LEMMA ParseTyped ==
    ASSUME TypeOK, NEW f \in FileId,
           ParseStart \/ Parse(f) \/ ParseFail(f)
    PROVE  TypeOK'
<1> USE DEF TypeOK, db, cache, removers
<1>0. /\ parse[f] \in Parsing
      /\ files[f] \in Row
  BY DEF ProcessesOK, TablesOK
<1>1. CASE ParseStart
  <2>1. [IdleParse EXCEPT !.pc = "read"] \in Parsing
    BY IdleTyped DEF Parsing
  <2>2. ProcessesOK'
    BY <1>1, <2>1, IdleTyped DEF ParseStart, ProcessesOK
  <2>3. QED
    BY <1>1, <2>2
    DEF ParseStart, TablesOK, CacheOK, RemoversOK, Rows, Exists, UsedOK
<1>2. CASE ParseRead(f)
  <2> DEFINE pc == IF files[f].current THEN "index" ELSE "count"
             r  == [IdleParse EXCEPT !.pc = pc, !.key = KeyOf(f),
                                     !.current = files[f].current]
  <2>1. KeyOf(f) \in Key /\ files[f].current \in BOOLEAN
    BY <1>0 DEF KeyOf, Key, Row
  <2>2. r \in Parsing
    <3>1. pc \in {"index", "count"}
      OBVIOUS
    <3> HIDE DEF pc
    <3>2. QED
      BY <2>1, <3>1, ReadTyped
  <2>3. ProcessesOK'
    <3>1. CASE Exists(f)
      BY <1>2, <2>2, <3>1, ParseUpdate DEF ParseRead
    <3>2. CASE ~Exists(f)
      BY <1>2, <3>2, IdleTyped, ParseUpdate DEF ParseRead
    <3>3. QED
      BY <3>1, <3>2
  <2>4. QED
    BY <1>2, <2>3
    DEF ParseRead, TablesOK, CacheOK, RemoversOK, Rows, Exists, UsedOK
<1>3. CASE ParseIndex(f)
  <2>1. parse[f].key \in Key
    BY <1>0, <1>3 DEF ParseIndex, Parsing
  <2>2. CacheOK'
    BY <1>3, <2>1, AddTyped DEF ParseIndex, CacheOK
  <2>3. [parse[f] EXCEPT !.pc = "count"] \in Parsing
    BY <1>0, <2>1, NoKeyAssumption DEF Parsing
  <2>4. ProcessesOK'
    BY <1>3, <2>3, ParseUpdate DEF ParseIndex
  <2>5. QED
    BY <1>3, <2>2, <2>4
    DEF ParseIndex, TablesOK, RemoversOK, Rows, Exists, UsedOK
<1>4. CASE ParseCount(f)
  <2> DEFINE found == parse[f].key[1] \in hostinfo
  <2>1. found \in BOOLEAN /\ parse[f].key # NoKey
    BY <1>0, <1>4 DEF ParseCount, Parsing
  <2>2. [parse[f] EXCEPT !.pc = "commit", !.found = found] \in Parsing
    <3> HIDE DEF found
    <3>1. QED
      BY <1>0, <2>1 DEF Parsing
  <2>3. ProcessesOK'
    BY <1>4, <2>2, ParseUpdate DEF ParseCount
  <2>4. QED
    BY <1>4, <2>3
    DEF ParseCount, TablesOK, CacheOK, RemoversOK, Rows, Exists, UsedOK
<1>5. CASE ParseCommit(f)
  <2> DEFINE c == parse[f].key[1]
             inserts == ~parse[f].found /\ parse[f].current
             duplicate == inserts /\ c \in hostinfo
             row == IF files[f].exists /\ ~duplicate
                    THEN [files[f] EXCEPT !.parsed = TRUE] ELSE files[f]
  <2>1. /\ row \in Row
        /\ row.exists = files[f].exists /\ row.cert = files[f].cert
    BY <1>0 DEF Row
  <2>2. c \in Cert
    BY <1>0, <1>5 DEF ParseCommit, Parsing, Key
  <2>3. files' = [files EXCEPT ![f] = row]
    BY <1>5 DEF ParseCommit
  <2>4. clock' \in Nat /\ hostinfo' \subseteq Cert
    BY <1>5, <2>2 DEF ParseCommit, TablesOK
  <2>5. TablesOK' /\ RemoversOK'
    BY <1>5, <2>1, <2>3, <2>4, RowUpdate DEF ParseCommit
  <2>6. ProcessesOK'
    BY <1>5, IdleTyped, ParseUpdate DEF ParseCommit
  <2>7. QED
    BY <1>5, <2>5, <2>6 DEF ParseCommit, CacheOK, UsedOK
<1>6. CASE ParseFail(f)
  <2>1. ProcessesOK'
    BY <1>6, IdleTyped, ParseUpdate DEF ParseFail
  <2>2. UsedOK'
    BY <1>6, UsedUpdate DEF ParseFail
  <2>3. QED
    BY <1>6, <2>1, <2>2
    DEF ParseFail, TablesOK, CacheOK, RemoversOK, Rows, Exists
<1>7. QED
  BY <1>1, <1>2, <1>3, <1>4, <1>5, <1>6 DEF Parse

LEMMA CompareTyped ==
    ASSUME TypeOK, CompareJob
    PROVE  TypeOK'
<1> USE DEF TypeOK, db, cache, removers
<1>0. compare \in Comparing /\ fs \in Cache
  BY DEF ProcessesOK, CacheOK
<1>1. CASE CompareSelect
  <2>1. Source \in SUBSET FileId
    BY DEF Source, Rows
  <2>2. compare' \in Comparing
    BY <1>0, <1>1, <2>1 DEF CompareSelect, Comparing
  <2>3. QED
    BY <1>1, <2>2
    DEF CompareSelect, TablesOK, CacheOK, ProcessesOK, RemoversOK, Rows,
        Exists, UsedOK
<1>2. CASE ComparePass
  <2>1. Indexed \in SUBSET FileId
    BY DEF Indexed, numberOfFilesInFastSearch
  <2>2. compare' \in Comparing
    BY <1>0, <1>2, <2>1 DEF ComparePass, Comparing
  <2>3. QED
    BY <1>2, <2>2
    DEF ComparePass, TablesOK, CacheOK, ProcessesOK, RemoversOK, Rows,
        Exists, UsedOK
<1>3. CASE CompareRemove
  <2>1. CacheOK'
    BY <1>0, <1>3, RemoveFileTyped DEF CompareRemove, CacheOK, Comparing
  <2>2. compare' \in Comparing
    BY <1>0, <1>3 DEF CompareRemove, Comparing
  <2>3. QED
    BY <1>3, <2>1, <2>2
    DEF CompareRemove, TablesOK, ProcessesOK, RemoversOK, Rows, Exists, UsedOK
<1>4. CASE CompareRead
  <2>1. PICK f \in compare.missing :
          compare' = IF Exists(f) /\ files[f].current
                     THEN [compare EXCEPT !.missing = @ \ {f}, !.pc = "add",
                                          !.file = f, !.key = KeyOf(f)]
                     ELSE [compare EXCEPT !.missing = @ \ {f}]
    BY <1>4 DEF CompareRead
  <2>2. f \in FileId
    BY <1>0, <2>1 DEF Comparing
  <2>3. KeyOf(f) \in Key
    BY <2>2 DEF TablesOK, KeyOf, Key, Row
  <2>4. compare' \in Comparing
    BY <1>0, <2>1, <2>2, <2>3, NoKeyAssumption, NoFileAssumption DEF Comparing
  <2>5. QED
    BY <1>4, <2>4
    DEF CompareRead, TablesOK, CacheOK, ProcessesOK, RemoversOK, Rows, Exists,
        UsedOK
<1>5. CASE CompareAdd
  <2>1. compare.file \in FileId /\ compare.key \in Key
    BY <1>0, <1>5 DEF CompareAdd, Comparing
  <2>2. CacheOK'
    BY <1>0, <1>5, <2>1, AddTyped DEF CompareAdd, CacheOK
  <2>3. compare' \in Comparing
    BY <1>0, <1>5 DEF CompareAdd, Comparing
  <2>4. QED
    BY <1>5, <2>2, <2>3
    DEF CompareAdd, TablesOK, ProcessesOK, RemoversOK, Rows, Exists, UsedOK
<1>6. CASE CompareDone
  BY <1>6, IdleTyped
  DEF CompareDone, TablesOK, CacheOK, ProcessesOK, RemoversOK, Rows, Exists,
      UsedOK
<1>7. QED
  BY <1>1, <1>2, <1>3, <1>4, <1>5, <1>6 DEF CompareJob

\* Every change of the tables that keeps the certificates of the rows that
\* stay held keeps them held.
LEMMA RemoversTyped ==
    ASSUME TypeOK,
           \/ \E c \in Cert : \/ DeleteExec(c) \/ DeleteCommit(c) \/ DeleteFail(c)
                              \/ InactiveArchive(c) \/ InactiveDelete(c)
           \/ \E f \in FileId : PruneDelete(f)
           \/ InactiveUnindex \/ PruneUnindex
    PROVE  TypeOK'
<1> USE DEF TypeOK, db, cache, removers
<1>0. /\ \A f \in FileId : files[f] \in Row
      /\ \A f \in FileId : [files[f] EXCEPT !.current = FALSE] \in Row
      /\ NoRow \in Row
  BY NameAssumption, FirstCertAssumption DEF TablesOK, Row, NoRow
<1>1. ASSUME NEW c \in Cert, DeleteExec(c) PROVE TypeOK'
  <2>1. CacheOK'
    BY <1>1, RemoveHostTyped DEF DeleteExec, CacheOK
  <2>2. RemoversOK'
    BY <1>1 DEF DeleteExec, RemoversOK, Rows, Exists
  <2>3. UsedOK'
    BY <1>1, UsedUpdate DEF DeleteExec
  <2>4. QED
    BY <1>1, <2>1, <2>2, <2>3
    DEF DeleteExec, TablesOK, ProcessesOK, Rows, Exists
<1>2. ASSUME NEW c \in Cert, DeleteCommit(c) PROVE TypeOK'
  <2>1. files' \in [FileId -> Row]
    BY <1>0, <1>2 DEF DeleteCommit
  <2>2. \A f \in FileId : /\ files'[f].exists = files[f].exists
                          /\ files'[f].cert = files[f].cert
    BY <1>0, <1>2 DEF DeleteCommit, Row
  <2>3. TablesOK'
    BY <1>2, <2>1, <2>2 DEF DeleteCommit, TablesOK, Rows, Exists
  <2>4. RemoversOK'
    BY <1>2, <2>2 DEF DeleteCommit, RemoversOK, Rows, Exists
  <2>5. QED
    BY <1>2, <2>3, <2>4 DEF DeleteCommit, CacheOK, ProcessesOK, UsedOK
<1>3. ASSUME NEW c \in Cert, InactiveArchive(c) PROVE TypeOK'
  <2>1. files' \in [FileId -> Row]
    BY <1>0, <1>3 DEF InactiveArchive
  <2>2. \A f \in FileId : /\ files'[f].exists = files[f].exists
                          /\ files'[f].cert = files[f].cert
    BY <1>0, <1>3 DEF InactiveArchive, Row
  <2>3. TablesOK'
    BY <1>3, <2>1, <2>2 DEF InactiveArchive, TablesOK, Rows, Exists
  <2>4. RemoversOK'
    BY <1>3, <2>2 DEF InactiveArchive, RemoversOK, Rows, Exists
  <2>5. UsedOK'
    BY <1>3, UsedUpdate DEF InactiveArchive
  <2>6. QED
    BY <1>3, <2>3, <2>4, <2>5 DEF InactiveArchive, CacheOK, ProcessesOK
<1>4. ASSUME NEW c \in Cert, InactiveDelete(c) PROVE TypeOK'
  <2>1. files' \in [FileId -> Row]
    BY <1>0, <1>4 DEF InactiveDelete
  <2>2. \A f \in FileId : files'[f] = IF f \in Rows /\ files[f].cert = c
                                      THEN NoRow ELSE files[f]
    BY <1>4 DEF InactiveDelete
  <2>3. TablesOK'
    BY <1>4, <2>1, <2>2 DEF InactiveDelete, TablesOK, Rows, Exists, NoRow
  <2>4. RemoversOK'
    BY <1>4, <2>2 DEF InactiveDelete, RemoversOK, Rows, Exists
  <2>5. UsedOK'
    BY <1>4, UsedUpdate DEF InactiveDelete
  <2>6. QED
    BY <1>4, <2>3, <2>4, <2>5 DEF InactiveDelete, CacheOK, ProcessesOK
<1>5. ASSUME NEW f \in FileId, PruneDelete(f) PROVE TypeOK'
  <2>1. TablesOK'
    BY <1>0, <1>5 DEF PruneDelete, TablesOK, Rows, Exists, NoRow
  <2>2. RemoversOK'
    BY <1>5 DEF PruneDelete, TablesOK, RemoversOK, Rows, Exists
  <2>3. QED
    BY <1>5, <2>1, <2>2 DEF PruneDelete, CacheOK, ProcessesOK, UsedOK
<1>6. CASE InactiveUnindex
  <2>1. unindexed \in Cert
    BY <1>6 DEF InactiveUnindex, RemoversOK
  <2>2. CacheOK'
    BY <1>6, <2>1, RemoveHostTyped DEF InactiveUnindex, CacheOK
  <2>3. QED
    BY <1>6, <2>2
    DEF InactiveUnindex, TablesOK, ProcessesOK, RemoversOK, Rows, Exists, UsedOK
<1>7. CASE PruneUnindex
  <2>1. pruned \in FileId
    BY <1>7 DEF PruneUnindex, RemoversOK
  <2>2. CacheOK'
    BY <1>7, <2>1, RemoveFileTyped DEF PruneUnindex, CacheOK
  <2>3. QED
    BY <1>7, <2>2
    DEF PruneUnindex, TablesOK, ProcessesOK, RemoversOK, Rows, Exists, UsedOK
<1>8. ASSUME NEW c \in Cert, DeleteFail(c) PROVE TypeOK'
  <2>1. RemoversOK'
    BY <1>8 DEF DeleteFail, RemoversOK, Rows, Exists
  <2>2. UsedOK'
    BY <1>8, UsedUpdate DEF DeleteFail
  <2>3. QED
    BY <1>8, <2>1, <2>2
    DEF DeleteFail, TablesOK, CacheOK, ProcessesOK, Rows, Exists
<1>9. QED
  BY <1>1, <1>2, <1>3, <1>4, <1>5, <1>6, <1>7, <1>8

LEMMA RenewalTyped ==
    ASSUME TypeOK, NEW old \in Cert, NEW new \in Cert,
           \/ RenewCommit(old, new)
           \/ ReplaceInCache(old, new) \/ ReplaceLost(old, new)
    PROVE  TypeOK'
<1> USE DEF TypeOK, db, cache, removers
<1>1. CASE RenewCommit(old, new)
  <2>1. \A f \in FileId : /\ files[f] \in Row
                          /\ [files[f] EXCEPT !.cert = new] \in Row
    BY DEF TablesOK, Row
  <2>2. files' \in [FileId -> Row]
    BY <1>1, <2>1 DEF RenewCommit
  <2>3. \A f \in FileId :
          /\ files'[f].exists = files[f].exists
          /\ files[f].cert # old => files'[f].cert = files[f].cert
    BY <1>1, <2>1 DEF RenewCommit, Row
  <2>4. TablesOK'
    BY <1>1, <2>2, <2>3 DEF RenewCommit, TablesOK, Rows, Exists
  <2>5. RemoversOK'
    BY <1>1, <2>3 DEF RenewCommit, RemoversOK, Rows, Exists
  <2>6. UsedOK'
    BY <1>1, UsedUpdate DEF RenewCommit
  <2>7. QED
    BY <1>1, <2>4, <2>5, <2>6 DEF RenewCommit, CacheOK, ProcessesOK
<1>2. CASE ReplaceInCache(old, new)
  <2>1. CacheOK'
    BY <1>2, ReplaceTyped DEF ReplaceInCache, CacheOK
  <2>2. QED
    BY <1>2, <2>1
    DEF ReplaceInCache, TablesOK, ProcessesOK, RemoversOK, Rows, Exists, UsedOK
<1>3. CASE ReplaceLost(old, new)
  <2>1. UsedOK'
    BY <1>3, UsedUpdate DEF ReplaceLost
  <2>2. QED
    BY <1>3, <2>1
    DEF ReplaceLost, TablesOK, CacheOK, ProcessesOK, RemoversOK, Rows, Exists
<1>4. QED
  BY <1>1, <1>2, <1>3

LEMMA RestartTyped ==
    ASSUME TypeOK, Restart \/ Load
    PROVE  TypeOK'
<1> USE DEF TypeOK, db, cache, removers
<1>1. CASE Restart
  <2>1. \A f \in Source : f \in FileId /\ KeyOf(f) \in Key
    BY DEF Source, Rows, TablesOK, Row, KeyOf, Key
  <2>2. CacheOK'
    <3>1. \A f \in Source : <<f, KeyOf(f)>> \in FileId \X Key
      BY <2>1
    <3>2. load' = {<<f, KeyOf(f)>> : f \in Source}
      BY <1>1 DEF Restart
    <3>3. load' \subseteq FileId \X Key
      BY <3>1, <3>2, Zenon
    <3>4. QED
      BY <1>1, <3>3, EmptyTyped DEF Restart, CacheOK
  <2>3. \A c \in Cert :
          [IdleArchive EXCEPT !.pc = "listCurrent", !.pack = arch[c].pack]
            \in Archiving
    <3> TAKE c \in Cert
    <3>1. arch[c].pack \in [Name -> Content \cup {Absent}]
      BY DEF ProcessesOK, Archiving
    <3>2. QED
      BY <3>1, IdleTyped, QueuedTyped
  <2>4. ProcessesOK'
    BY <1>1, <2>3, IdleTyped DEF Restart, ProcessesOK
  <2>5. UsedOK'
    BY <1>1, UsedUpdate DEF Restart
  <2>6. QED
    <3>1. TablesOK'
      BY <1>1 DEF Restart, TablesOK, Rows, Exists
    <3>2. RemoversOK'
      BY <1>1 DEF Restart, RemoversOK
    <3>3. QED
      BY <2>2, <2>4, <2>5, <3>1, <3>2
<1>2. CASE LoadAdd
  <2>1. PICK r \in load : /\ fs' = addFileToFastSearch(fs, r[1], r[2])
                          /\ load' = load \ {r}
    BY <1>2 DEF LoadAdd
  <2>2. r[1] \in FileId /\ r[2] \in Key
    BY DEF CacheOK
  <2>3. CacheOK'
    BY <1>2, <2>1, <2>2, AddTyped DEF LoadAdd, CacheOK
  <2>4. QED
    BY <1>2, <2>3
    DEF LoadAdd, TablesOK, ProcessesOK, RemoversOK, Rows, Exists, UsedOK
<1>3. CASE LoadDone
  BY <1>3
  DEF LoadDone, TablesOK, CacheOK, ProcessesOK, RemoversOK, Rows, Exists, UsedOK
<1>4. QED
  BY <1>1, <1>2, <1>3 DEF Load

LEMMA NextTyped == TypeOK /\ [Next]_vars => TypeOK'
<1> SUFFICES ASSUME TypeOK, [Next]_vars PROVE TypeOK'
  OBVIOUS
<1>1. CASE Next
  <2>1. CASE ParseStart
    <3>1. PICK f \in FileId : TRUE
      BY <2>1 DEF ParseStart, Rows
    <3>2. QED
      BY <2>1, ParseTyped
  <2>2. ASSUME NEW f \in FileId, Parse(f) \/ ParseFail(f)
        PROVE  TypeOK'
    BY <2>2, ParseTyped
  <2>3. ASSUME NEW c \in Cert,
               \/ \E pack \in [Name -> Content \cup {Absent}] :
                    ArchiveStart(c, pack)
               \/ Archive(c) \/ ArchiveFail(c)
               \/ ArchiveCountFail(c) \/ ArchiveCompareFail(c)
        PROVE  TypeOK'
    BY <2>3, ArchiveTyped
  <2>4. ASSUME NEW old \in Cert, NEW new \in Cert,
               \/ RenewCommit(old, new)
               \/ ReplaceInCache(old, new) \/ ReplaceLost(old, new)
        PROVE  TypeOK'
    BY <2>4, RenewalTyped
  <2>5. QED
    BY <1>1, <2>1, <2>2, <2>3, <2>4, CompareTyped, RemoversTyped, RestartTyped
    DEF Next
<1>2. CASE UNCHANGED vars
  BY <1>2
  DEF vars, db, cache, removers, TypeOK, TablesOK, CacheOK, ProcessesOK,
      RemoversOK, Rows, Exists, UsedOK
<1>3. QED
  BY <1>1, <1>2

\* The type invariant, for any certificates, names, contents and bounds: the
\* file ids and keys that the processes hand to the search cache exist, and a
\* row whose host is being deleted stays until the transaction ends.
THEOREM TypeCorrect == Spec => []TypeOK
<1>1. QED
  BY InitTyped, NextTyped, PTL DEF Spec

(***************************************************************************)
(* Searching.                                                              *)
(***************************************************************************)

\* Whatever calls one of the writers of the cache, keys stay.
LEMMA NextKeepsKeys ==
    TypeOK /\ SearchNeverPanics /\ [Next]_vars => SearchNeverPanics'
<1> SUFFICES ASSUME TypeOK, ContentHasKey(fs), [Next]_vars
             PROVE  ContentHasKey(fs')
  BY DEF SearchNeverPanics
<1> USE DEF TypeOK, db, cache
<1>0. fs \in Cache
  BY DEF CacheOK
<1>1. ASSUME NEW c \in Cert,
             \/ \E pack \in [Name -> Content \cup {Absent}] :
                  ArchiveStart(c, pack)
             \/ Archive(c) \/ ArchiveFail(c)
             \/ ArchiveCountFail(c) \/ ArchiveCompareFail(c)
      PROVE  ContentHasKey(fs')
  <2>1. CASE ArchiveUnindex(c)
    <3>1. arch[c].cur[arch[c].name] \in FileId
      BY <2>1 DEF ArchiveUnindex, ProcessesOK, Archiving
    <3>2. QED
      BY <1>0, <2>1, <3>1, RemoveFileKeepsKeys DEF ArchiveUnindex
  <2>2. CASE ~ArchiveUnindex(c)
    BY <1>1, <2>2
    DEF Archive, ArchiveStart, ArchiveFail, ArchiveCountFail,
        ArchiveCompareFail, ArchiveListCurrent,
        ArchiveCountHost, ArchiveCompare, ArchiveUnparse, ArchiveReactivate,
        ArchiveRetire, ArchiveInsert, ArchiveClear, ArchiveDone
  <2>3. QED
    BY <2>1, <2>2
<1>2. ASSUME NEW f \in FileId, Parse(f) \/ ParseFail(f) \/ PruneDelete(f)
      PROVE  ContentHasKey(fs')
  <2>1. CASE ParseIndex(f)
    <3>1. parse[f].key \in Key
      BY <2>1 DEF ParseIndex, ProcessesOK, Parsing
    <3>2. QED
      BY <1>0, <2>1, <3>1, AddKeepsKeys DEF ParseIndex
  <2>2. CASE ~ParseIndex(f)
    BY <1>2, <2>2
    DEF Parse, ParseRead, ParseCount, ParseCommit, ParseFail, PruneDelete
  <2>3. QED
    BY <2>1, <2>2
<1>3. CASE CompareJob
  <2>1. compare \in Comparing
    BY DEF ProcessesOK
  <2>2. CASE CompareRemove
    BY <1>0, <2>1, <2>2, RemoveFileKeepsKeys DEF CompareRemove, Comparing
  <2>3. CASE CompareAdd
    <3>1. compare.file \in FileId /\ compare.key \in Key
      BY <2>1, <2>3 DEF CompareAdd, Comparing
    <3>2. QED
      BY <1>0, <2>3, <3>1, AddKeepsKeys DEF CompareAdd
  <2>4. CASE CompareSelect \/ ComparePass \/ CompareRead \/ CompareDone
    BY <2>4 DEF CompareSelect, ComparePass, CompareRead, CompareDone
  <2>5. QED
    BY <1>3, <2>2, <2>3, <2>4 DEF CompareJob
<1>4. ASSUME NEW c \in Cert,
             \/ DeleteExec(c) \/ DeleteCommit(c) \/ DeleteFail(c)
             \/ InactiveArchive(c) \/ InactiveDelete(c)
      PROVE  ContentHasKey(fs')
  BY <1>0, <1>4, RemoveHostKeepsKeys
  DEF DeleteExec, DeleteCommit, DeleteFail, InactiveArchive, InactiveDelete
<1>5. CASE InactiveUnindex \/ PruneUnindex
  <2>1. /\ unindexed # NoCert => unindexed \in Cert
        /\ pruned # NoFile => pruned \in FileId
    BY DEF RemoversOK
  <2>2. QED
    BY <1>0, <1>5, <2>1, RemoveHostKeepsKeys, RemoveFileKeepsKeys
    DEF InactiveUnindex, PruneUnindex
<1>6. ASSUME NEW old \in Cert, NEW new \in Cert,
             \/ RenewCommit(old, new)
             \/ ReplaceInCache(old, new) \/ ReplaceLost(old, new)
      PROVE  ContentHasKey(fs')
  BY <1>0, <1>6, ReplaceKeepsKeys DEF RenewCommit, ReplaceInCache, ReplaceLost
<1>7. CASE Restart \/ Load
  <2>1. ContentHasKey(EmptyCache)
    BY DEF ContentHasKey, EmptyCache
  <2>2. \A r \in load : r[1] \in FileId /\ r[2] \in Key
    BY DEF CacheOK
  <2>3. QED
    BY <1>0, <1>7, <2>1, <2>2, AddKeepsKeys
    DEF Restart, Load, LoadAdd, LoadDone
<1>8. CASE ParseStart \/ UNCHANGED vars
  BY <1>8 DEF ParseStart, vars
<1>9. QED
  BY <1>1, <1>2, <1>3, <1>4, <1>5, <1>6, <1>7, <1>8 DEF Next

\* However the processes interleave, with any number of certificates, files,
\* renewals, failures and restarts, a search finds no content without a key.
THEOREM SearchIsSafe == Spec => []SearchNeverPanics
<1>1. Init => SearchNeverPanics
  BY DEF Init, SearchNeverPanics, ContentHasKey, EmptyCache
<1>2. QED
  BY <1>1, TypeCorrect, NextKeepsKeys, PTL DEF Spec

(***************************************************************************)
(* Renewals.  Some properties hold until the first one.                    *)
(***************************************************************************)

\* A step other than a renewal does not count as one.
CountedElsewhere ==
    \/ UNCHANGED used
    \/ used' = [used EXCEPT !.upload = @ + 1]
    \/ used' = [used EXCEPT !.delete = @ + 1]
    \/ used' = [used EXCEPT !.expiry = @ + 1]
    \/ used' = [used EXCEPT !.restart = @ + 1]
    \/ used' = [used EXCEPT !.failure = @ + 1]

LEMMA OthersCount ==
    ASSUME [Next]_vars, ~ \E old, new \in Cert : RenewCommit(old, new)
    PROVE  CountedElsewhere
<1> USE DEF CountedElsewhere
<1>1. ASSUME NEW c \in Cert,
             \/ \E pack \in [Name -> Content \cup {Absent}] :
                  ArchiveStart(c, pack)
             \/ ArchiveFail(c) \/ ArchiveCountFail(c) \/ ArchiveCompareFail(c)
      PROVE  CountedElsewhere
  BY <1>1
  DEF ArchiveStart, ArchiveFail, ArchiveCountFail, ArchiveCompareFail
<1>2. ASSUME NEW c \in Cert, Archive(c)
      PROVE  CountedElsewhere
  BY <1>2
  DEF Archive, ArchiveListCurrent, ArchiveCountHost, ArchiveCompare,
      ArchiveUnparse, ArchiveReactivate, ArchiveRetire, ArchiveInsert,
      ArchiveClear, ArchiveUnindex, ArchiveDone
<1>3. ASSUME NEW f \in FileId,
             Parse(f) \/ ParseFail(f) \/ PruneDelete(f)
      PROVE  CountedElsewhere
  BY <1>3
  DEF Parse, ParseRead, ParseIndex, ParseCount, ParseCommit, ParseFail,
      PruneDelete
<1>4. ASSUME NEW c \in Cert,
             \/ DeleteExec(c) \/ DeleteCommit(c) \/ DeleteFail(c)
             \/ InactiveArchive(c) \/ InactiveDelete(c)
      PROVE  CountedElsewhere
  BY <1>4
  DEF DeleteExec, DeleteCommit, DeleteFail, InactiveArchive, InactiveDelete
<1>5. ASSUME NEW old \in Cert, NEW new \in Cert,
             ReplaceInCache(old, new) \/ ReplaceLost(old, new)
      PROVE  CountedElsewhere
  BY <1>5 DEF ReplaceInCache, ReplaceLost
<1>6. CASE ParseStart \/ CompareJob \/ InactiveUnindex \/ PruneUnindex
  BY <1>6
  DEF ParseStart, CompareJob, CompareSelect, ComparePass, CompareRemove,
      CompareRead, CompareAdd, CompareDone, InactiveUnindex, PruneUnindex
<1>7. CASE Restart \/ Load \/ UNCHANGED vars
  BY <1>7 DEF Restart, Load, LoadAdd, LoadDone, vars
<1>8. QED
  BY <1>1, <1>2, <1>3, <1>4, <1>5, <1>6, <1>7 DEF Next

===============================================================================
