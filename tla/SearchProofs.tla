----------------------------- MODULE SearchProofs -----------------------------
(***************************************************************************)
(* As long as no certificate is renewed, the maps of the search cache are  *)
(* the reverse of one another, and the searches agree.                     *)
(***************************************************************************)
EXTENDS InventoryProofs

(***************************************************************************)
(* The invariant.  Files reach the cache by way of processes that read     *)
(* their key earlier: the row, which may be gone by now, the cache, a      *)
(* parse, the comparison and the loading all know a key of a file.  They   *)
(* know the same, and none of them a key of a file that is yet to come.    *)
(***************************************************************************)

Holds(f, k) == \/ Exists(f) /\ KeyOf(f) = k
               \/ fs.key[f] = k
               \/ parse[f].key = k
               \/ compare.file = f /\ compare.key = k
               \/ <<f, k>> \in load

OneKeyEach ==
    /\ replacing = {}
    /\ \A f \in FileId, k, l \in Key : Holds(f, k) /\ Holds(f, l) => k = l
    /\ \A f \in FileId, k \in Key : Holds(f, k) => f < nextFile
    /\ Reverse(fs)

OneKeyInv == used.renewal = 0 => OneKeyEach

(***************************************************************************)
(* The operators of the search cache.                                      *)
(***************************************************************************)

\* A file may be added under the key that it has, or if it has none.
LEMMA AddKeepsReverse ==
    ASSUME NEW c \in Cache, NEW f \in FileId, NEW k \in Key, Reverse(c),
           c.key[f] \in {k, NoKey}
    PROVE  Reverse(addFileToFastSearch(c, f, k))
<1> DEFINE d == addFileToFastSearch(c, f, k)
<1> SUFFICES ASSUME NEW g \in FileId, NEW l \in Key
             PROVE  d.id[l] = g <=> d.key[g] = l
  BY DEF Reverse
<1>1. c.id[l] = g <=> c.key[g] = l
  BY DEF Reverse
<1>2. c.id[k] = f \/ c.key[f] = NoKey
  BY DEF Reverse
<1>3. /\ d.id[l] = IF l = k THEN f ELSE c.id[l]
      /\ d.key[g] = IF g = f THEN k ELSE IF g = c.id[k] THEN NoKey ELSE c.key[g]
  BY DEF addFileToFastSearch, Cache
<1>4. l # NoKey
  BY NoKeyAssumption
<1>5. c.id[k] = g <=> c.key[g] = k
  BY DEF Reverse
<1>6. QED
  BY <1>1, <1>2, <1>3, <1>4, <1>5

LEMMA RemoveFileKeepsReverse ==
    ASSUME NEW c \in Cache, NEW f \in FileId, Reverse(c)
    PROVE  Reverse(removeFileFromFastSearch(c, f))
<1> DEFINE d == removeFileFromFastSearch(c, f)
<1> SUFFICES ASSUME NEW g \in FileId, NEW l \in Key
             PROVE  d.id[l] = g <=> d.key[g] = l
  BY DEF Reverse
<1>1. (c.id[l] = g <=> c.key[g] = l) /\ (c.id[l] = f <=> c.key[f] = l)
  BY DEF Reverse
<1>2. /\ d.id[l] = IF l = c.key[f] THEN NoFile ELSE c.id[l]
      /\ d.key[g] = IF g = f THEN NoKey ELSE c.key[g]
  BY DEF removeFileFromFastSearch, Cache
<1>3. l # NoKey /\ g # NoFile
  BY NoKeyAssumption, NoFileAssumption
<1>4. QED
  BY <1>1, <1>2, <1>3

LEMMA RemoveHostKeepsReverse ==
    ASSUME NEW c \in Cache, NEW cert \in Cert, Reverse(c)
    PROVE  Reverse(removeHostFromFastSearch(c, cert))
<1> DEFINE d == removeHostFromFastSearch(c, cert)
<1> SUFFICES ASSUME NEW g \in FileId, NEW l \in Key
             PROVE  d.id[l] = g <=> d.key[g] = l
  BY DEF Reverse
<1>1. c.id[l] = g <=> c.key[g] = l
  BY DEF Reverse
<1>2. /\ d.id[l] = IF l[1] = cert THEN NoFile ELSE c.id[l]
      /\ d.key[g] = IF g \in FilesOf(c, cert) THEN NoKey ELSE c.key[g]
  BY DEF removeHostFromFastSearch
<1>3. l # NoKey /\ g # NoFile
  BY NoKeyAssumption, NoFileAssumption
<1>4. l = <<l[1], l[2]>> /\ l[2] \in Name
  BY DEF Key
<1>5. c.key[g] = l => (g \in FilesOf(c, cert) <=> l[1] = cert)
  <2> SUFFICES ASSUME c.key[g] = l PROVE g \in FilesOf(c, cert) <=> l[1] = cert
    OBVIOUS
  <2>1. ASSUME g \in FilesOf(c, cert) PROVE l[1] = cert
    <3>1. PICK n \in Name : c.id[<<cert, n>>] = g
      BY <2>1 DEF FilesOf
    <3>2. <<cert, n>> \in Key
      BY DEF Key
    <3>3. c.key[g] = <<cert, n>>
      BY <3>1, <3>2 DEF Reverse
    <3>4. QED
      BY <3>3
  <2>2. ASSUME l[1] = cert PROVE g \in FilesOf(c, cert)
    <3>1. l = <<cert, l[2]>>
      BY <1>4, <2>2
    <3>2. c.id[<<cert, l[2]>>] = g
      BY <1>1, <3>1
    <3>3. QED
      BY <1>3, <1>4, <3>2 DEF FilesOf
  <2>3. QED
    BY <2>1, <2>2
<1>6. QED
  BY <1>1, <1>2, <1>3, <1>5

(***************************************************************************)
(* What a step may do to the keys.                                         *)
(***************************************************************************)

\* Nobody learns a key.
LEMMA NoNewKey ==
    ASSUME TypeOK, OneKeyEach,
           \A f \in FileId, k \in Key : Holds(f, k)' => Holds(f, k),
           UNCHANGED <<nextFile, replacing>>, Reverse(fs)'
    PROVE  OneKeyEach'
  BY DEF OneKeyEach

\* Rows go, or keep their keys; the rest stays.
RowsKeepKeys ==
    \A f \in FileId : Exists(f)' => Exists(f) /\ KeyOf(f)' = KeyOf(f)

LEMMA RowsOnly ==
    ASSUME TypeOK, OneKeyEach, RowsKeepKeys,
           UNCHANGED <<nextFile, fs, parse, compare, load, replacing>>
    PROVE  OneKeyEach'
<1>1. \A f \in FileId, k \in Key : Holds(f, k)' => Holds(f, k)
  BY DEF Holds, RowsKeepKeys
<1>2. Reverse(fs)'
  BY DEF OneKeyEach, Reverse
<1>3. QED
  BY <1>1, <1>2, NoNewKey

\* Marking a row keeps its key.
LEMMA RowMarked ==
    ASSUME NEW f \in FileId, files \in [FileId -> Row],
           \/ UNCHANGED files
           \/ \E r \in Row : /\ r.exists = files[f].exists
                             /\ r.cert = files[f].cert
                             /\ r.name = files[f].name
                             /\ files' = [files EXCEPT ![f] = r]
    PROVE  RowsKeepKeys
  BY DEF RowsKeepKeys, Exists, KeyOf

LEMMA RetireKeys ==
    ASSUME NEW f \in FileId, files \in [FileId -> Row], Retire(f)
    PROVE  RowsKeepKeys
<1> DEFINE r == IF files[f].exists THEN [files[f] EXCEPT !.current = FALSE]
                ELSE files[f]
<1>1. /\ r \in Row /\ r.exists = files[f].exists
      /\ r.cert = files[f].cert /\ r.name = files[f].name
  BY DEF Row
<1>2. files' = [files EXCEPT ![f] = r]
  BY DEF Retire
<1>3. QED
  BY <1>1, <1>2, RowMarked

\* A process adds a file to the cache under the key that it holds.
LEMMA AddHeld ==
    ASSUME TypeOK, OneKeyEach, NEW f \in FileId, NEW k \in Key, Holds(f, k),
           fs' = addFileToFastSearch(fs, f, k),
           \A g \in FileId, l \in Key :
             Holds(g, l)' => Holds(g, l) \/ fs.key'[g] = l,
           UNCHANGED <<nextFile, replacing>>
    PROVE  OneKeyEach'
<1>1. fs \in Cache
  BY DEF TypeOK, CacheOK
<1>2. fs.key[f] \in {k, NoKey}
  <2>1. fs.key[f] \in Key => fs.key[f] = k
    BY DEF OneKeyEach, Holds
  <2>2. QED
    BY <1>1, <2>1 DEF Cache
<1>3. Reverse(fs)'
  BY <1>1, <1>2, AddKeepsReverse DEF OneKeyEach
<1>4. \A g \in FileId, l \in Key : fs.key'[g] = l => Holds(g, l)
  BY <1>1, NoKeyAssumption DEF addFileToFastSearch, Cache, Holds
<1>5. QED
  BY <1>3, <1>4, NoNewKey

\* A file or a host leaves the cache.
LEMMA CacheForgets ==
    ASSUME TypeOK, OneKeyEach,
           \/ \E f \in FileId : fs' = removeFileFromFastSearch(fs, f)
           \/ \E c \in Cert : fs' = removeHostFromFastSearch(fs, c),
           \A f \in FileId, k \in Key :
             Holds(f, k)' => Holds(f, k) \/ fs.key'[f] = k,
           UNCHANGED <<nextFile, replacing>>
    PROVE  OneKeyEach'
<1>1. fs \in Cache /\ Reverse(fs)
  BY DEF TypeOK, CacheOK, OneKeyEach
<1>2. Reverse(fs)'
  BY <1>1, RemoveFileKeepsReverse, RemoveHostKeepsReverse
<1>3. \A f \in FileId, k \in Key : fs.key'[f] = k => Holds(f, k)
  BY <1>1, NoKeyAssumption
  DEF removeFileFromFastSearch, removeHostFromFastSearch, Cache, Holds
<1>4. QED
  BY <1>2, <1>3, NoNewKey

(***************************************************************************)
(* One lemma for each process.                                             *)
(***************************************************************************)

\* Only a new row brings a key into the tables, and its id is a new one.
LEMMA ArchiveKeys ==
    ASSUME TypeOK, OneKeyEach, NEW c \in Cert,
           \/ \E pack \in [Name -> Content \cup {Absent}] :
                ArchiveStart(c, pack)
           \/ Archive(c) \/ ArchiveFail(c)
           \/ ArchiveCountFail(c) \/ ArchiveCompareFail(c)
    PROVE  OneKeyEach'
<1> USE DEF db, cache
<1>0. /\ files \in [FileId -> Row]
      /\ arch[c] \in Archiving
  BY DEF TypeOK, TablesOK, ProcessesOK
<1>1. CASE ArchiveInsert(c)
  <2> DEFINE k == <<c, arch[c].name>>
  <2>1. k \in Key
    BY <1>0 DEF Key, Archiving
  <2>2. \A f \in FileId, l \in Key :
          Holds(f, l)' => Holds(f, l) \/ (f = nextFile /\ l = k)
    BY <1>0, <1>1 DEF ArchiveInsert, Holds, Exists, KeyOf
  <2>3. \A l \in Key : ~Holds(nextFile, l)
    BY <1>1, FileIdAssumption DEF OneKeyEach, ArchiveInsert
  <2>4. nextFile \in Nat /\ nextFile' = nextFile + 1
    BY <1>1, FileIdAssumption DEF ArchiveInsert
  <2>5. \A f \in FileId, l, m \in Key : Holds(f, l)' /\ Holds(f, m)' => l = m
    BY <2>2, <2>3 DEF OneKeyEach
  <2>6. \A f \in FileId, l \in Key : Holds(f, l)' => f < nextFile'
    BY <2>2, <2>4, FileIdAssumption DEF OneKeyEach
  <2>7. replacing' = {} /\ Reverse(fs)'
    BY <1>1 DEF OneKeyEach, Reverse, ArchiveInsert
  <2>8. QED
    BY <2>5, <2>6, <2>7 DEF OneKeyEach
<1>2. CASE ArchiveUnindex(c)
  <2>1. arch[c].cur[arch[c].name] \in FileId
    BY <1>0, <1>2 DEF ArchiveUnindex, Archiving
  <2>2. \A f \in FileId, k \in Key :
          Holds(f, k)' => Holds(f, k) \/ fs.key'[f] = k
    BY <1>2 DEF ArchiveUnindex, Holds, Exists, KeyOf
  <2>3. QED
    BY <1>2, <2>1, <2>2, CacheForgets DEF ArchiveUnindex
<1>3. ASSUME \/ ArchiveUnparse(c) \/ ArchiveReactivate(c)
             \/ ArchiveRetire(c) \/ ArchiveClear(c)
      PROVE  OneKeyEach'
  <2>1. RowsKeepKeys
    <3>1. CASE ArchiveUnparse(c)
      <4> DEFINE f == arch[c].old
                 r == IF files[f].exists THEN [files[f] EXCEPT !.parsed = FALSE]
                      ELSE files[f]
      <4>1. f \in FileId
        BY <1>0, <3>1 DEF ArchiveUnparse, Archiving
      <4>2. /\ r \in Row /\ r.exists = files[f].exists
            /\ r.cert = files[f].cert /\ r.name = files[f].name
        BY <1>0, <4>1 DEF Row
      <4>3. files' = [files EXCEPT ![f] = r]
        BY <3>1 DEF ArchiveUnparse
      <4>4. QED
        BY <1>0, <4>1, <4>2, <4>3, RowMarked
    <3>2. CASE ArchiveReactivate(c)
      <4> DEFINE f == arch[c].old
                 r == [files[f] EXCEPT !.current = TRUE, !.received = clock]
      <4>1. f \in FileId
        BY <1>0, <3>2 DEF ArchiveReactivate, Archiving
      <4>2. /\ r \in Row /\ r.exists = files[f].exists
            /\ r.cert = files[f].cert /\ r.name = files[f].name
        BY <1>0, <4>1 DEF Row, TypeOK, TablesOK
      <4>3. UNCHANGED files \/ files' = [files EXCEPT ![f] = r]
        BY <3>2 DEF ArchiveReactivate
      <4>4. QED
        BY <1>0, <4>1, <4>2, <4>3, RowMarked
    <3>3. CASE ArchiveRetire(c)
      <4>1. arch[c].cur[arch[c].name] \in FileId
        BY <1>0, <3>3 DEF ArchiveRetire, Archiving
      <4>2. QED
        BY <1>0, <3>3, <4>1, RetireKeys DEF ArchiveRetire
    <3>4. CASE ArchiveClear(c)
      <4>1. PICK n \in Name : arch[c].cur[n] # NoFile /\ Retire(arch[c].cur[n])
        BY <3>4 DEF ArchiveClear
      <4>2. arch[c].cur[n] \in FileId
        BY <1>0, <4>1 DEF Archiving
      <4>3. QED
        BY <1>0, <4>1, <4>2, RetireKeys
    <3>5. QED
      BY <1>3, <3>1, <3>2, <3>3, <3>4
  <2>2. UNCHANGED <<nextFile, fs, parse, compare, load, replacing>>
    BY <1>3
    DEF ArchiveUnparse, ArchiveReactivate, ArchiveRetire, ArchiveClear
  <2>3. QED
    BY <2>1, <2>2, RowsOnly
<1>4. ASSUME UNCHANGED <<files, nextFile, fs, parse, compare, load, replacing>>
      PROVE  OneKeyEach'
  BY <1>4, RowsOnly DEF RowsKeepKeys, Exists, KeyOf
<1>5. QED
  BY <1>1, <1>2, <1>3, <1>4
  DEF Archive, ArchiveStart, ArchiveFail, ArchiveCountFail,
      ArchiveCompareFail, ArchiveListCurrent, ArchiveCountHost,
      ArchiveCompare, ArchiveDone

LEMMA ParseKeys ==
    ASSUME TypeOK, OneKeyEach, NEW f \in FileId,
           ParseStart \/ Parse(f) \/ ParseFail(f)
    PROVE  OneKeyEach'
<1> USE DEF db, cache
<1>0. /\ files \in [FileId -> Row] /\ parse \in [FileId -> Parsing]
      /\ \A k \in Key : k # NoKey
  BY NoKeyAssumption DEF TypeOK, TablesOK, ProcessesOK
<1>1. CASE ParseIndex(f)
  <2>1. parse[f].key \in Key
    BY <1>0, <1>1 DEF ParseIndex, Parsing
  <2>2. Holds(f, parse[f].key)
    BY DEF Holds
  <2>3. \A g \in FileId, l \in Key :
          Holds(g, l)' => Holds(g, l) \/ fs.key'[g] = l
    BY <1>0, <1>1 DEF ParseIndex, Holds, Exists, KeyOf, Parsing
  <2>4. QED
    BY <1>1, <2>1, <2>2, <2>3, AddHeld DEF ParseIndex
<1>2. CASE ParseCommit(f)
  <2>1. RowsKeepKeys
    BY <1>0, <1>2 DEF ParseCommit, RowsKeepKeys, Exists, KeyOf, Row
  <2>2. \A g \in FileId, l \in Key : Holds(g, l)' => Holds(g, l)
    BY <1>0, <1>2, <2>1 DEF ParseCommit, Holds, RowsKeepKeys, IdleParse
  <2>3. UNCHANGED <<nextFile, replacing>> /\ Reverse(fs)'
    <3>1. UNCHANGED <<nextFile, replacing, fs>>
      BY <1>2 DEF ParseCommit
    <3>2. QED
      BY <3>1 DEF OneKeyEach, Reverse
  <2>4. QED
    BY <2>2, <2>3, NoNewKey
<1>3. ASSUME ParseStart \/ ParseRead(f) \/ ParseCount(f) \/ ParseFail(f)
      PROVE  OneKeyEach'
  <2>1. \A g \in FileId, l \in Key : Holds(g, l)' => Holds(g, l)
    <3>1. CASE ParseStart
      BY <1>0, <3>1 DEF ParseStart, Holds, Exists, KeyOf, IdleParse
    <3>2. CASE ParseRead(f)
      BY <1>0, <3>2 DEF ParseRead, Holds, Exists, KeyOf, IdleParse
    <3>3. CASE ParseCount(f)
      <4>1. \A g \in FileId : parse'[g].key = parse[g].key
        BY <1>0, <3>3 DEF ParseCount, Parsing
      <4>2. QED
        BY <3>3, <4>1 DEF ParseCount, Holds, Exists, KeyOf
    <3>4. CASE ParseFail(f)
      BY <1>0, <3>4 DEF ParseFail, Holds, Exists, KeyOf, IdleParse
    <3>5. QED
      BY <1>3, <3>1, <3>2, <3>3, <3>4
  <2>2. UNCHANGED <<nextFile, replacing>> /\ Reverse(fs)'
    <3>1. UNCHANGED <<nextFile, replacing, fs>>
      BY <1>3 DEF ParseStart, ParseRead, ParseCount, ParseFail
    <3>2. QED
      BY <3>1 DEF OneKeyEach, Reverse
  <2>3. QED
    BY <2>1, <2>2, NoNewKey
<1>4. QED
  BY <1>1, <1>2, <1>3 DEF Parse

LEMMA CompareKeys == TypeOK /\ OneKeyEach /\ CompareJob => OneKeyEach'
<1> SUFFICES ASSUME TypeOK, OneKeyEach, CompareJob PROVE OneKeyEach'
  OBVIOUS
<1> USE DEF db, cache
<1>0. compare \in Comparing /\ \A k \in Key : k # NoKey
  BY NoKeyAssumption DEF TypeOK, ProcessesOK
<1>1. CASE CompareAdd
  <2>1. compare.file \in FileId /\ compare.key \in Key
    BY <1>0, <1>1 DEF CompareAdd, Comparing
  <2>2. Holds(compare.file, compare.key)
    BY DEF Holds
  <2>3. \A g \in FileId, l \in Key :
          Holds(g, l)' => Holds(g, l) \/ fs.key'[g] = l
    BY <1>0, <1>1 DEF CompareAdd, Holds, Exists, KeyOf, Comparing
  <2>4. QED
    BY <1>1, <2>1, <2>2, <2>3, AddHeld DEF CompareAdd
<1>2. CASE CompareRemove
  <2>1. compare.obsolete \subseteq FileId
    BY <1>0 DEF Comparing
  <2>2. \A g \in FileId, l \in Key :
          Holds(g, l)' => Holds(g, l) \/ fs.key'[g] = l
    BY <1>0, <1>2 DEF CompareRemove, Holds, Exists, KeyOf, Comparing
  <2>3. QED
    BY <1>2, <2>1, <2>2, CacheForgets DEF CompareRemove
<1>3. ASSUME CompareSelect \/ ComparePass \/ CompareRead \/ CompareDone
      PROVE  OneKeyEach'
  <2>1. \A g \in FileId, l \in Key : Holds(g, l)' => Holds(g, l)
    <3>1. CASE CompareSelect \/ ComparePass
      <4>1. UNCHANGED <<files, fs, parse, load>>
        BY <3>1 DEF CompareSelect, ComparePass
      <4>2. compare'.file = compare.file /\ compare'.key = compare.key
        <5>1. CASE CompareSelect
          BY <1>0, <5>1 DEF CompareSelect, Comparing
        <5>2. CASE ComparePass
          BY <1>0, <5>2 DEF ComparePass, Comparing
        <5>3. QED
          BY <3>1, <5>1, <5>2
      <4>3. QED
        BY <4>1, <4>2 DEF Holds, Exists, KeyOf
    <3>2. CASE CompareRead
      BY <1>0, <3>2 DEF CompareRead, Holds, Exists, KeyOf, Comparing
    <3>3. CASE CompareDone
      BY <1>0, <3>3 DEF CompareDone, Holds, Exists, KeyOf, IdleCompare
    <3>4. QED
      BY <1>3, <3>1, <3>2, <3>3
  <2>2. UNCHANGED <<nextFile, replacing>> /\ Reverse(fs)'
    <3>1. UNCHANGED <<nextFile, replacing, fs>>
      BY <1>3 DEF CompareSelect, ComparePass, CompareRead, CompareDone
    <3>2. QED
      BY <3>1 DEF OneKeyEach, Reverse
  <2>3. QED
    BY <2>1, <2>2, NoNewKey
<1>4. QED
  BY <1>1, <1>2, <1>3 DEF CompareJob

LEMMA RemoversKeys ==
    ASSUME TypeOK, OneKeyEach,
           \/ \E c \in Cert : \/ DeleteExec(c) \/ DeleteCommit(c) \/ DeleteFail(c)
                              \/ InactiveArchive(c) \/ InactiveDelete(c)
           \/ \E f \in FileId : PruneDelete(f)
           \/ InactiveUnindex \/ PruneUnindex
    PROVE  OneKeyEach'
<1> USE DEF db, cache
<1>0. /\ files \in [FileId -> Row]
      /\ unindexed # NoCert => unindexed \in Cert
      /\ pruned # NoFile => pruned \in FileId
  BY DEF TypeOK, TablesOK, RemoversOK
<1>1. ASSUME NEW c \in Cert, DeleteExec(c)
      PROVE  OneKeyEach'
  <2>1. \A f \in FileId, k \in Key :
          Holds(f, k)' => Holds(f, k) \/ fs.key'[f] = k
    BY <1>1 DEF DeleteExec, Holds, Exists, KeyOf
  <2>2. QED
    BY <1>1, <2>1, CacheForgets DEF DeleteExec
<1>2. ASSUME NEW c \in Cert,
             DeleteCommit(c) \/ InactiveArchive(c) \/ InactiveDelete(c)
      PROVE  OneKeyEach'
  <2>1. RowsKeepKeys
    <3>1. CASE DeleteCommit(c) \/ InactiveArchive(c)
      BY <1>0, <3>1
      DEF DeleteCommit, InactiveArchive, RowsKeepKeys, Exists, KeyOf, Row
    <3>2. CASE InactiveDelete(c)
      BY <1>0, <3>2 DEF InactiveDelete, RowsKeepKeys, Exists, KeyOf, NoRow
    <3>3. QED
      BY <1>2, <3>1, <3>2
  <2>2. QED
    BY <1>2, <2>1, RowsOnly DEF DeleteCommit, InactiveArchive, InactiveDelete
<1>3. ASSUME NEW f \in FileId, PruneDelete(f)
      PROVE  OneKeyEach'
  <2>1. RowsKeepKeys
    BY <1>0, <1>3 DEF PruneDelete, RowsKeepKeys, Exists, KeyOf, NoRow
  <2>2. QED
    BY <1>3, <2>1, RowsOnly DEF PruneDelete
<1>4. CASE InactiveUnindex \/ PruneUnindex
  <2>1. \A f \in FileId, k \in Key :
          Holds(f, k)' => Holds(f, k) \/ fs.key'[f] = k
    BY <1>4 DEF InactiveUnindex, PruneUnindex, Holds, Exists, KeyOf
  <2>2. QED
    BY <1>0, <1>4, <2>1, CacheForgets DEF InactiveUnindex, PruneUnindex
<1>5. ASSUME NEW c \in Cert, DeleteFail(c)
      PROVE  OneKeyEach'
  BY <1>5, RowsOnly DEF DeleteFail, RowsKeepKeys, Exists, KeyOf
<1>6. QED
  BY <1>1, <1>2, <1>3, <1>4, <1>5

\* After a restart only the rows, and what is loaded from them, have keys.
LEMMA RestartKeys == TypeOK /\ OneKeyEach /\ (Restart \/ Load) => OneKeyEach'
<1> SUFFICES ASSUME TypeOK, OneKeyEach, Restart \/ Load PROVE OneKeyEach'
  OBVIOUS
<1> USE DEF db, cache
<1>0. load \subseteq FileId \X Key /\ \A k \in Key : k # NoKey
  BY NoKeyAssumption DEF TypeOK, CacheOK
<1>1. CASE Restart
  <2>1. \A f \in FileId, k \in Key :
          Holds(f, k)' => Exists(f) /\ KeyOf(f) = k
    BY <1>0, <1>1
    DEF Restart, Holds, EmptyCache, IdleParse, IdleCompare, Source, Rows,
        Exists, KeyOf
  <2>2. \A f \in FileId, k \in Key : Holds(f, k)' => Holds(f, k)
    BY <2>1 DEF Holds
  <2>3. Reverse(fs)'
    BY <1>0, <1>1, NoFileAssumption DEF Restart, Reverse, EmptyCache
  <2>4. replacing' = replacing
    BY <1>1 DEF Restart, OneKeyEach
  <2>5. QED
    BY <1>1, <2>2, <2>3, <2>4, NoNewKey DEF Restart
<1>2. CASE LoadAdd
  <2>1. PICK r \in load : /\ fs' = addFileToFastSearch(fs, r[1], r[2])
                          /\ load' = load \ {r}
    BY <1>2 DEF LoadAdd
  <2>2. r[1] \in FileId /\ r[2] \in Key /\ r = <<r[1], r[2]>>
    BY <1>0, <2>1
  <2>3. Holds(r[1], r[2])
    BY <2>1, <2>2 DEF Holds
  <2>4. \A g \in FileId, l \in Key :
          Holds(g, l)' => Holds(g, l) \/ fs.key'[g] = l
    BY <1>2, <2>1 DEF LoadAdd, Holds, Exists, KeyOf
  <2>5. QED
    BY <1>2, <2>1, <2>2, <2>3, <2>4, AddHeld DEF LoadAdd
<1>3. CASE LoadDone
  BY <1>3, RowsOnly DEF LoadDone, RowsKeepKeys, Exists, KeyOf
<1>4. QED
  BY <1>1, <1>2, <1>3 DEF Load

(***************************************************************************)
(* The theorems.                                                           *)
(***************************************************************************)

LEMMA InitOneKey == Init => OneKeyInv
  BY NoKeyAssumption, NoFileAssumption
  DEF Init, OneKeyInv, OneKeyEach, Holds, Exists, NoRow, EmptyCache, IdleParse,
      IdleCompare, Reverse

LEMMA NextOneKey == TypeOK /\ OneKeyInv /\ [Next]_vars => OneKeyInv'
<1> SUFFICES ASSUME TypeOK, OneKeyInv, [Next]_vars, used'.renewal = 0
             PROVE  OneKeyEach'
  BY DEF OneKeyInv
<1>1. UsedOK
  BY DEF TypeOK
<1>2. ~ \E old, new \in Cert : RenewCommit(old, new)
  BY <1>1 DEF RenewCommit, UsedOK
<1>3. used.renewal = 0
  BY <1>1, <1>2, OthersCount DEF CountedElsewhere, UsedOK
<1>4. OneKeyEach
  BY <1>3 DEF OneKeyInv
<1>5. ASSUME NEW c \in Cert,
             \/ \E pack \in [Name -> Content \cup {Absent}] :
                  ArchiveStart(c, pack)
             \/ Archive(c) \/ ArchiveFail(c)
             \/ ArchiveCountFail(c) \/ ArchiveCompareFail(c)
      PROVE  OneKeyEach'
  BY <1>4, <1>5, ArchiveKeys
<1>6. CASE ParseStart
  <2>1. PICK f \in FileId : TRUE
    BY <1>6 DEF ParseStart, Rows
  <2>2. QED
    BY <1>4, <1>6, ParseKeys
<1>7. ASSUME NEW f \in FileId, Parse(f) \/ ParseFail(f)
      PROVE  OneKeyEach'
  BY <1>4, <1>7, ParseKeys
<1>8. ASSUME NEW old \in Cert, NEW new \in Cert,
             ReplaceInCache(old, new) \/ ReplaceLost(old, new)
      PROVE  OneKeyEach'
  BY <1>4, <1>8 DEF OneKeyEach, ReplaceInCache, ReplaceLost
<1>9. CASE UNCHANGED vars
  BY <1>4, <1>9, RowsOnly DEF vars, db, cache, RowsKeepKeys, Exists, KeyOf
<1>10. QED
  BY <1>2, <1>4, <1>5, <1>6, <1>7, <1>8, <1>9, CompareKeys, RemoversKeys,
     RestartKeys
  DEF Next

LEMMA OneKeyAlways == Spec => []OneKeyInv
<1>1. QED
  BY InitOneKey, NextOneKey, TypeCorrect, PTL DEF Spec

\* Until a certificate is renewed, fsKey is the reverse of fsID: whatever the
\* processes read before the rows and the cache changed under them, they put
\* a file into the cache under the one key that it has ever had.
THEOREM MapsAreReverse == Spec => []ReverseWithoutRenewal
<1>1. OneKeyInv => ReverseWithoutRenewal
  BY DEF OneKeyInv, OneKeyEach, ReverseWithoutRenewal
<1>2. QED
  BY <1>1, OneKeyAlways, PTL

\* Consistent maps with a key for every content answer the three kinds of
\* search alike.
LEMMA ConsistentSearches ==
    ASSUME NEW c \in Cache, NEW match \in SUBSET FileId,
           Reverse(c), ContentHasKey(c)
    PROVE  /\ searchFilesWithFilter(c, match, Cert) = searchFiles(c, match)
           /\ searchForHosts(c, match)
                = {c.key[f][1] : f \in searchFiles(c, match)}
<1> DEFINE hits == searchFiles(c, match)
<1>1. hits = c.content \cap match /\ hits \subseteq FileId
  BY DEF searchFiles, Cache
<1>2. ASSUME NEW f \in hits
      PROVE  /\ c.key[f] \in Key /\ c.id[c.key[f]] = f
             /\ c.key[f][1] \in Cert /\ c.key[f][2] \in Name
             /\ c.key[f] = <<c.key[f][1], c.key[f][2]>>
  <2>1. c.key[f] \in Key
    BY <1>1 DEF ContentHasKey, Cache
  <2>2. c.id[c.key[f]] = f
    BY <1>1, <2>1 DEF Reverse
  <2>3. QED
    BY <2>1, <2>2 DEF Key
<1>3. searchFilesWithFilter(c, match, Cert) = hits
  BY <1>1, <1>2 DEF searchFilesWithFilter
<1>4. ASSUME NEW cert \in searchForHosts(c, match)
      PROVE  cert \in {c.key[f][1] : f \in hits}
  <2>1. PICK f \in FilesOf(c, cert) : f \in hits
    BY <1>1 DEF searchForHosts
  <2>2. PICK n \in Name : c.id[<<cert, n>>] = f
    BY <2>1 DEF FilesOf
  <2>3. <<cert, n>> \in Key
    BY DEF searchForHosts, Key
  <2>4. c.key[f] = <<cert, n>>
    BY <1>1, <2>1, <2>2, <2>3 DEF Reverse
  <2>5. QED
    BY <2>1, <2>4
<1>5. ASSUME NEW f \in hits
      PROVE  c.key[f][1] \in searchForHosts(c, match)
  <2>1. f # NoFile
    BY <1>1, NoFileAssumption
  <2>2. f \in FilesOf(c, c.key[f][1])
    BY <1>2, <2>1 DEF FilesOf
  <2>3. QED
    BY <1>1, <1>2, <2>2 DEF searchForHosts
<1>6. QED
  BY <1>3, <1>4, <1>5

\* Until a certificate is renewed, the unfiltered search, the filtered one and
\* the one for hosts agree on every search string.
THEOREM SearchesAlwaysAgree == Spec => []SearchesAgree
<1>1. TypeOK /\ SearchNeverPanics /\ ReverseWithoutRenewal => SearchesAgree
  BY ConsistentSearches
  DEF TypeOK, CacheOK, SearchNeverPanics, ReverseWithoutRenewal, SearchesAgree
<1>2. QED
  BY <1>1, TypeCorrect, SearchIsSafe, MapsAreReverse, PTL

===============================================================================
