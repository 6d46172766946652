----------------------------- MODULE ArchiveProofs -----------------------------
(***************************************************************************)
(* As long as no certificate is renewed, a host has at most one current    *)
(* version of a file.                                                      *)
(***************************************************************************)
EXTENDS InventoryProofs

(***************************************************************************)
(* The invariant.  No two rows are received at the same time, and a        *)
(* current row is the latest version of its file; so there is only one.    *)
(* That it stays so is up to processArchive, which lists the current rows  *)
(* at the start and acts on the list later: until it has dealt with a      *)
(* file, no row of the file is current but the one on its list.            *)
(***************************************************************************)

CurrentOf(c, n) == {f \in Rows : files[f].current /\ KeyOf(f) = <<c, n>>}

InOrder ==
    /\ \A f \in Rows : files[f].received < clock
    /\ \A f, g \in Rows : files[f].received = files[g].received => f = g

CurrentIsLatest ==
    \A f, g \in Rows : files[f].current /\ KeyOf(f) = KeyOf(g)
                         => files[g].received <= files[f].received

Busy == {"unparse", "reactivate", "retire", "insert"}

Covered(c) ==
    LET a == arch[c] IN
    /\ a.pc = "countHost"
         => \A n \in Name : CurrentOf(c, n) \subseteq {a.cur[n]}
    /\ a.pc \notin {"idle", "listCurrent"}
         => \A n \in a.todo : CurrentOf(c, n) \subseteq {a.cur[n]}
    /\ a.pc \in Busy => a.name \notin a.todo
    /\ a.pc = "unindex" => a.todo = {}
    /\ a.pc = "retire" => CurrentOf(c, a.name) \subseteq {a.cur[a.name]}
    /\ a.pc = "insert" => CurrentOf(c, a.name) = {}
    /\ a.pc \in {"unparse", "reactivate"} =>
         /\ CurrentOf(c, a.name) \subseteq {a.old}
         /\ a.old < nextFile
         /\ Exists(a.old) => KeyOf(a.old) = <<c, a.name>>

CurrentInv == InOrder /\ CurrentIsLatest /\ \A c \in Cert : Covered(c)

UntilRenewal == used.renewal = 0 => CurrentInv

\* What the invariant is for.
LEMMA OneCurrent ==
    ASSUME InOrder, CurrentIsLatest, TablesOK,
           NEW f \in Rows, NEW g \in Rows,
           files[f].current, files[g].current, KeyOf(f) = KeyOf(g)
    PROVE  f = g
<1>1. /\ files[g].received <= files[f].received
      /\ files[f].received <= files[g].received
  BY DEF CurrentIsLatest
<1>2. files[f].received \in Nat /\ files[g].received \in Nat
  BY DEF TablesOK, Rows, Row
<1>3. QED
  BY <1>1, <1>2 DEF InOrder

(***************************************************************************)
(* Steps that are none of an archive's.                                    *)
(***************************************************************************)

\* The steps of others leave what an archive relies on.
LEMMA StaysCovered ==
    ASSUME TypeOK, NEW c \in Cert, Covered(c), arch'[c] = arch[c],
           \A n \in Name : CurrentOf(c, n)' \subseteq CurrentOf(c, n),
           \A f \in FileId : f < nextFile /\ Exists(f)'
                               => Exists(f) /\ KeyOf(f)' = KeyOf(f),
           nextFile' \in Nat, nextFile <= nextFile'
    PROVE  Covered(c)'
<1> DEFINE a == arch[c]
<1>1. a \in Archiving /\ nextFile \in Nat
  BY DEF TypeOK, ProcessesOK, TablesOK
<1>2. a.name \in Name /\ a.todo \subseteq Name
  BY <1>1 DEF Archiving
<1>3. a.pc \in {"unparse", "reactivate"} => a.old \in FileId
  BY <1>1 DEF Archiving
<1>4. a.pc = "insert" => CurrentOf(c, a.name)' = {}
  BY <1>2 DEF Covered
<1>5. a.pc \in {"unparse", "reactivate"} =>
        /\ CurrentOf(c, a.name)' \subseteq {a.old}
        /\ a.old < nextFile'
        /\ Exists(a.old)' => KeyOf(a.old)' = <<c, a.name>>
  <2> SUFFICES ASSUME a.pc \in {"unparse", "reactivate"}
               PROVE  /\ CurrentOf(c, a.name)' \subseteq {a.old}
                      /\ a.old < nextFile'
                      /\ Exists(a.old)' => KeyOf(a.old)' = <<c, a.name>>
    OBVIOUS
  <2>1. /\ CurrentOf(c, a.name) \subseteq {a.old}
        /\ a.old < nextFile
        /\ Exists(a.old) => KeyOf(a.old) = <<c, a.name>>
    BY DEF Covered
  <2>2. a.old < nextFile'
    <3>1. a.old \in Nat
      BY <1>3, FileIdAssumption
    <3>2. nextFile \in Nat
      BY DEF TypeOK, TablesOK
    <3> HIDE DEF a
    <3>3. QED
      BY <2>1, <3>1, <3>2
  <2>3. QED
    BY <1>2, <1>3, <2>1, <2>2
<1>6. a.pc = "retire" => CurrentOf(c, a.name)' \subseteq {a.cur[a.name]}
  BY <1>2 DEF Covered
<1>7. /\ a.pc = "countHost" =>
           \A n \in Name : CurrentOf(c, n)' \subseteq {a.cur[n]}
      /\ a.pc \notin {"idle", "listCurrent"}
           => \A n \in a.todo : CurrentOf(c, n)' \subseteq {a.cur[n]}
  BY <1>2 DEF Covered
<1>8. /\ a.pc \in Busy => a.name \notin a.todo
      /\ a.pc = "unindex" => a.todo = {}
  BY DEF Covered
<1>9. QED
  BY <1>4, <1>5, <1>6, <1>7, <1>8 DEF Covered

\* Rows go, or are no longer current.
RowsFade ==
    \A f \in FileId :
      Exists(f)' => /\ Exists(f) /\ KeyOf(f)' = KeyOf(f)
                    /\ files'[f].received = files[f].received
                    /\ files'[f].current => files[f].current

LEMMA FadeKeepsOrder ==
    ASSUME InOrder, CurrentIsLatest, RowsFade, clock' = clock
    PROVE  InOrder' /\ CurrentIsLatest'
  BY DEF InOrder, CurrentIsLatest, RowsFade, Rows

LEMMA FadeKeepsCovered ==
    ASSUME TypeOK, NEW c \in Cert, Covered(c), RowsFade, nextFile' = nextFile,
           arch'[c] = arch[c]
    PROVE  Covered(c)'
<1>1. \A n \in Name : CurrentOf(c, n)' \subseteq CurrentOf(c, n)
  BY DEF RowsFade, CurrentOf, Rows
<1>2. nextFile \in Nat
  BY DEF TypeOK, TablesOK
<1>3. QED
  BY <1>1, <1>2, StaysCovered DEF RowsFade

LEMMA Fade ==
    ASSUME TypeOK, CurrentInv, RowsFade, UNCHANGED <<nextFile, clock, arch>>
    PROVE  CurrentInv'
  BY FadeKeepsOrder, FadeKeepsCovered DEF CurrentInv

LEMMA OthersKeepInv ==
    ASSUME TypeOK, CurrentInv,
           \/ ParseStart \/ CompareJob \/ InactiveUnindex \/ PruneUnindex
           \/ \E f \in FileId : Parse(f) \/ ParseFail(f) \/ PruneDelete(f)
           \/ \E c \in Cert : \/ DeleteExec(c) \/ DeleteCommit(c) \/ DeleteFail(c)
                              \/ InactiveArchive(c) \/ InactiveDelete(c)
           \/ \E old, new \in Cert : \/ ReplaceInCache(old, new)
                                     \/ ReplaceLost(old, new)
           \/ Load \/ UNCHANGED vars
    PROVE  CurrentInv'
<1> USE DEF db
<1>0. files \in [FileId -> Row]
  BY DEF TypeOK, TablesOK
<1>1. ASSUME UNCHANGED <<db, arch>> PROVE CurrentInv'
  BY <1>1, Fade DEF RowsFade, Exists, KeyOf
<1>2. ASSUME NEW f \in FileId, ParseCommit(f) \/ PruneDelete(f)
      PROVE  CurrentInv'
  <2>1. RowsFade
    <3>1. CASE ParseCommit(f)
      BY <1>0, <3>1 DEF ParseCommit, RowsFade, Exists, KeyOf, Row
    <3>2. CASE PruneDelete(f)
      BY <1>0, <3>2 DEF PruneDelete, RowsFade, Exists, KeyOf, NoRow
    <3>3. QED
      BY <1>2, <3>1, <3>2
  <2>2. QED
    BY <1>2, <2>1, Fade DEF ParseCommit, PruneDelete
<1>3. ASSUME NEW c \in Cert,
             DeleteCommit(c) \/ InactiveArchive(c) \/ InactiveDelete(c)
      PROVE  CurrentInv'
  <2>1. RowsFade
    <3>1. CASE DeleteCommit(c) \/ InactiveArchive(c)
      BY <1>0, <3>1
      DEF DeleteCommit, InactiveArchive, RowsFade, Exists, KeyOf, Row
    <3>2. CASE InactiveDelete(c)
      BY <1>0, <3>2 DEF InactiveDelete, RowsFade, Exists, KeyOf, NoRow
    <3>3. QED
      BY <1>3, <3>1, <3>2
  <2>2. QED
    BY <1>3, <2>1, Fade DEF DeleteCommit, InactiveArchive, InactiveDelete
<1>4. ASSUME NEW f \in FileId,
             ParseRead(f) \/ ParseIndex(f) \/ ParseCount(f) \/ ParseFail(f)
      PROVE  CurrentInv'
  BY <1>1, <1>4 DEF ParseRead, ParseIndex, ParseCount, ParseFail
<1>5. CASE \/ ParseStart \/ CompareJob \/ InactiveUnindex \/ PruneUnindex
           \/ Load \/ UNCHANGED vars
  BY <1>1, <1>5
  DEF ParseStart, CompareJob, CompareSelect, ComparePass, CompareRemove,
      CompareRead, CompareAdd, CompareDone, InactiveUnindex, PruneUnindex,
      Load, LoadAdd, LoadDone, vars
<1>6. ASSUME NEW c \in Cert, DeleteExec(c) \/ DeleteFail(c)
      PROVE  CurrentInv'
  BY <1>1, <1>6 DEF DeleteExec, DeleteFail
<1>7. ASSUME NEW old \in Cert, NEW new \in Cert,
             ReplaceInCache(old, new) \/ ReplaceLost(old, new)
      PROVE  CurrentInv'
  BY <1>1, <1>7 DEF ReplaceInCache, ReplaceLost
<1>8. QED
  BY <1>2, <1>3, <1>4, <1>5, <1>6, <1>7 DEF Parse

(***************************************************************************)
(* The steps of processArchive.  Each lemma shows what an archive relies   *)
(* on after its own step; the others are covered by StaysCovered.          *)
(***************************************************************************)

\* Steps that leave the tables alone.
LEMMA ArchiveReads ==
    ASSUME TypeOK, CurrentInv, NEW c \in Cert, UNCHANGED db,
           \A d \in Cert : d # c => arch'[d] = arch[d],
           Covered(c)'
    PROVE  CurrentInv'
<1>1. RowsFade
  BY DEF RowsFade, Exists, KeyOf, db
<1>2. \A d \in Cert : d # c => Covered(d)'
  BY <1>1, FadeKeepsCovered DEF CurrentInv, db
<1>3. QED
  BY <1>1, <1>2, FadeKeepsOrder DEF CurrentInv, db

LEMMA ListCovers ==
    ASSUME TypeOK, CurrentInv, NEW c \in Cert, ArchiveListCurrent(c)
    PROVE  Covered(c)'
<1> DEFINE cur == [n \in Name |->
                     IF \E f \in Current(c) : files[f].name = n
                     THEN CHOOSE f \in Current(c) : files[f].name = n
                     ELSE NoFile]
<1>1. /\ arch'[c].pc = "countHost" /\ arch'[c].cur = cur
      /\ arch'[c].todo = arch[c].todo
  <2>1. arch \in [Cert -> Archiving]
    BY DEF TypeOK, ProcessesOK
  <2>2. arch[c] \in Archiving
    BY <2>1
  <2> HIDE DEF cur
  <2>3. arch' = [arch EXCEPT ![c] = [arch[c] EXCEPT !.pc = "countHost",
                                                    !.cur = cur]]
    BY DEF ArchiveListCurrent, cur
  <2>4. QED
    BY <2>1, <2>2, <2>3 DEF Archiving
<1>2. \A n \in Name : CurrentOf(c, n)' = CurrentOf(c, n)
  BY DEF ArchiveListCurrent, db, CurrentOf, Rows, Exists, KeyOf
<1>3. ASSUME NEW n \in Name, NEW f \in CurrentOf(c, n)
      PROVE  f = cur[n]
  <2>1. f \in Current(c) /\ files[f].name = n
    BY DEF CurrentOf, Current, KeyOf
  <2>2. cur[n] \in Current(c) /\ files[cur[n]].name = n
    BY <2>1
  <2>3. KeyOf(f) = KeyOf(cur[n])
    BY <2>1, <2>2 DEF Current, KeyOf
  <2> HIDE DEF cur
  <2>4. QED
    BY <2>1, <2>2, <2>3, OneCurrent DEF CurrentInv, TypeOK, Current
<1>4. arch[c].todo \subseteq Name
  BY DEF TypeOK, ProcessesOK, Archiving
<1> HIDE DEF cur
<1>5. QED
  BY <1>1, <1>2, <1>3, <1>4 DEF Covered, Busy

LEMMA CountCovers ==
    ASSUME TypeOK, CurrentInv, NEW c \in Cert,
           ArchiveCountHost(c) \/ ArchiveCountFail(c)
    PROVE  Covered(c)'
<1>1. /\ arch'[c].pc = "compare" /\ arch'[c].cur = arch[c].cur
      /\ arch'[c].todo \subseteq Name
      /\ arch[c].pc = "countHost"
  <2> DEFINE todo == {n \in Name : arch[c].pack[n] # Absent}
  <2>1. arch \in [Cert -> Archiving] /\ arch[c] \in Archiving
    BY DEF TypeOK, ProcessesOK
  <2>2. \A host : LET b == [arch[c] EXCEPT !.pc = "compare", !.host = host,
                                           !.todo = todo]
                  IN  b.pc = "compare" /\ b.cur = arch[c].cur /\ b.todo = todo
    BY <2>1 DEF Archiving
  <2>3. /\ arch[c].pc = "countHost"
        /\ \E host : arch'[c] = [arch[c] EXCEPT !.pc = "compare", !.host = host,
                                                !.todo = todo]
    BY <2>1 DEF ArchiveCountHost, ArchiveCountFail
  <2>4. todo \subseteq Name
    OBVIOUS
  <2> HIDE DEF todo
  <2>5. QED
    BY <2>2, <2>3, <2>4
<1>2. \A n \in Name : CurrentOf(c, n)' = CurrentOf(c, n)
  BY DEF ArchiveCountHost, ArchiveCountFail, db, CurrentOf, Rows, Exists, KeyOf
<1>3. \A n \in Name : CurrentOf(c, n) \subseteq {arch[c].cur[n]}
  BY <1>1 DEF CurrentInv, Covered
<1>4. QED
  BY <1>1, <1>2, <1>3 DEF Covered, Busy

\* The latest version of a file is its current one, if it has one.
LEMMA LatestIsCurrent ==
    ASSUME TypeOK, CurrentInv, NEW c \in Cert, NEW n \in Name,
           NEW old \in Latest(<<c, n>>), old # NoFile
    PROVE  /\ old \in Rows /\ KeyOf(old) = <<c, n>>
           /\ CurrentOf(c, n) \subseteq {old}
<1>1. /\ old \in Rows /\ KeyOf(old) = <<c, n>>
      /\ \A g \in Versions(<<c, n>>) : files[g].received <= files[old].received
  BY DEF Latest, Versions
<1>2. ASSUME NEW f \in CurrentOf(c, n)
      PROVE  f = old
  <2>1. f \in Rows /\ files[f].current /\ KeyOf(f) = <<c, n>>
    BY DEF CurrentOf
  <2>2. files[f].received <= files[old].received
    BY <1>1, <2>1 DEF Versions
  <2>3. files[old].received <= files[f].received
    BY <1>1, <2>1 DEF CurrentInv, CurrentIsLatest
  <2>4. files[f].received \in Nat /\ files[old].received \in Nat
    BY <1>1, <2>1 DEF TypeOK, TablesOK, Rows, Row
  <2>5. files[f].received = files[old].received
    BY <2>2, <2>3, <2>4
  <2>6. QED
    BY <1>1, <2>1, <2>5 DEF CurrentInv, InOrder
<1>3. QED
  BY <1>1, <1>2

LEMMA CompareCovers ==
    ASSUME TypeOK, CurrentInv, NEW c \in Cert,
           ArchiveCompare(c) \/ ArchiveCompareFail(c)
    PROVE  Covered(c)'
<1> DEFINE a == arch[c]
           b == arch'[c]
<1>0. a \in Archiving /\ arch \in [Cert -> Archiving]
  BY DEF TypeOK, ProcessesOK
<1>1. PICK n \in a.todo : \E old \in Latest(<<c, n>>) \cup {NoFile} :
        /\ b.todo = a.todo \ {n} /\ b.name = n /\ b.cur = a.cur
        /\ \/ /\ b.pc \in {"unparse", "reactivate"}
              /\ old \in Latest(<<c, n>>) /\ old # NoFile /\ b.old = old
           \/ b.pc = "retire"
           \/ b.pc = "insert" /\ a.cur[n] = NoFile
  <2>1. CASE ArchiveCompare(c)
    <3>1. PICK n \in a.todo : \E old \in Latest(<<c, n>>) :
            LET same == old # NoFile /\ files[old].content = a.pack[n]
            IN  arch' = [arch EXCEPT ![c] = [a EXCEPT
                       !.todo = @ \ {n},
                       !.name = n,
                       !.old = IF same THEN old ELSE NoFile,
                       !.pc = IF same /\ a.host THEN "reactivate"
                              ELSE IF same THEN "unparse"
                              ELSE IF a.cur[n] # NoFile THEN "retire"
                              ELSE "insert"]]
      BY <2>1 DEF ArchiveCompare
    <3>2. PICK old \in Latest(<<c, n>>) :
            LET same == old # NoFile /\ files[old].content = a.pack[n]
            IN  arch' = [arch EXCEPT ![c] = [a EXCEPT
                       !.todo = @ \ {n},
                       !.name = n,
                       !.old = IF same THEN old ELSE NoFile,
                       !.pc = IF same /\ a.host THEN "reactivate"
                              ELSE IF same THEN "unparse"
                              ELSE IF a.cur[n] # NoFile THEN "retire"
                              ELSE "insert"]]
      BY <3>1
    <3> DEFINE same == old # NoFile /\ files[old].content = a.pack[n]
               pc == IF same /\ a.host THEN "reactivate"
                     ELSE IF same THEN "unparse"
                     ELSE IF a.cur[n] # NoFile THEN "retire"
                     ELSE "insert"
               kept == IF same THEN old ELSE NoFile
    <3>3. b = [a EXCEPT !.todo = @ \ {n}, !.name = n, !.old = kept, !.pc = pc]
      BY <1>0, <3>2
    <3>4. /\ b.todo = a.todo \ {n} /\ b.name = n /\ b.cur = a.cur
          /\ b.old = kept /\ b.pc = pc
      <4> HIDE DEF a, b, pc, kept
      <4>1. QED
        BY <1>0, <3>3 DEF Archiving
    <3>5. QED
      BY <3>4
  <2>2. CASE ArchiveCompareFail(c)
    <3> DEFINE pc(n) == IF a.cur[n] # NoFile THEN "retire" ELSE "insert"
    <3>1. PICK n \in a.todo :
            arch' = [arch EXCEPT ![c] = [a EXCEPT !.todo = @ \ {n}, !.name = n,
                                                  !.old = NoFile, !.pc = pc(n)]]
      BY <2>2 DEF ArchiveCompareFail
    <3>2. b = [a EXCEPT !.todo = @ \ {n}, !.name = n, !.old = NoFile,
                        !.pc = pc(n)]
      BY <1>0, <3>1
    <3>3. b.todo = a.todo \ {n} /\ b.name = n /\ b.cur = a.cur /\ b.pc = pc(n)
      <4> HIDE DEF a, b, pc
      <4>1. QED
        BY <1>0, <3>2 DEF Archiving
    <3>4. QED
      BY <3>3
  <2>3. QED
    BY <2>1, <2>2
<1>2. a.pc = "compare" /\ n \in Name
  BY <1>0 DEF ArchiveCompare, ArchiveCompareFail, Archiving
<1>3. \A m \in a.todo : CurrentOf(c, m) \subseteq {a.cur[m]}
  BY <1>2 DEF CurrentInv, Covered
<1>4. /\ nextFile' = nextFile
      /\ \A m \in Name : CurrentOf(c, m)' = CurrentOf(c, m)
      /\ \A f : Exists(f)' = Exists(f) /\ KeyOf(f)' = KeyOf(f)
  BY DEF ArchiveCompare, ArchiveCompareFail, db, CurrentOf, Rows, Exists, KeyOf
<1>5. a.todo \subseteq Name
  BY <1>0 DEF Archiving
<1>6. CASE b.pc \in {"unparse", "reactivate"}
  <2>1. b.old \in Latest(<<c, n>>) /\ b.old # NoFile
    BY <1>1, <1>6
  <2>2. /\ b.old \in Rows /\ KeyOf(b.old) = <<c, n>>
        /\ CurrentOf(c, n) \subseteq {b.old}
    BY <1>2, <2>1, LatestIsCurrent
  <2>3. b.old < nextFile
    BY <2>2 DEF TypeOK, TablesOK
  <2>4. QED
    BY <1>1, <1>2, <1>3, <1>4, <1>5, <1>6, <2>2, <2>3 DEF Covered, Busy
<1>7. CASE b.pc = "retire"
  BY <1>1, <1>2, <1>3, <1>4, <1>5, <1>7 DEF Covered, Busy
<1>8. CASE b.pc = "insert"
  <2>1. CurrentOf(c, n) = {}
    <3>1. a.cur[n] = NoFile
      BY <1>1, <1>8
    <3>2. QED
      BY <1>3, <3>1, NoFileAssumption DEF CurrentOf, Rows
  <2>2. QED
    BY <1>1, <1>2, <1>3, <1>4, <1>5, <1>8, <2>1 DEF Covered, Busy
<1>9. QED
  BY <1>1, <1>6, <1>7, <1>8

\* A step that takes the current flag from rows, or leaves the flags alone.
LEMMA FadeAndCover ==
    ASSUME TypeOK, CurrentInv, NEW c \in Cert, RowsFade,
           UNCHANGED <<nextFile, clock>>,
           \A d \in Cert : d # c => arch'[d] = arch[d], Covered(c)'
    PROVE  CurrentInv'
  BY FadeKeepsOrder, FadeKeepsCovered DEF CurrentInv

LEMMA UnparseStep ==
    ASSUME TypeOK, CurrentInv, NEW c \in Cert, ArchiveUnparse(c)
    PROVE  CurrentInv'
<1> DEFINE a == arch[c]
           f == a.old
<1>1. /\ a \in Archiving /\ arch \in [Cert -> Archiving]
      /\ files \in [FileId -> Row] /\ a.pc = "unparse"
  BY DEF TypeOK, ProcessesOK, TablesOK, ArchiveUnparse
<1>2. /\ arch'[c].pc = "reactivate" /\ arch'[c].todo = a.todo
      /\ arch'[c].name = a.name /\ arch'[c].old = a.old
      /\ arch'[c].cur = a.cur
      /\ \A d \in Cert : d # c => arch'[d] = arch[d]
      /\ UNCHANGED <<nextFile, clock>>
  BY <1>1 DEF ArchiveUnparse, Archiving
<1>3. RowsFade
  BY <1>1 DEF ArchiveUnparse, RowsFade, Exists, KeyOf, Row
<1>4. \A n \in Name : CurrentOf(c, n)' \subseteq CurrentOf(c, n)
  BY <1>3 DEF RowsFade, CurrentOf, Rows
<1>5. f \in FileId /\ a.name \in Name /\ a.todo \subseteq Name
  BY <1>1 DEF Archiving
<1>6. Covered(c)
  BY DEF CurrentInv
<1>7. /\ \A n \in a.todo : CurrentOf(c, n)' \subseteq {a.cur[n]}
      /\ a.name \notin a.todo
      /\ CurrentOf(c, a.name)' \subseteq {f}
      /\ f < nextFile'
      /\ Exists(f)' => KeyOf(f)' = <<c, a.name>>
  BY <1>1, <1>2, <1>3, <1>4, <1>5, <1>6 DEF Covered, Busy, RowsFade
<1>8. Covered(c)'
  BY <1>2, <1>7 DEF Covered, Busy
<1>9. QED
  BY <1>2, <1>3, <1>8, FadeAndCover

\* The version that becomes current again is now the latest one.
LEMMA ReactivateStep ==
    ASSUME TypeOK, CurrentInv, NEW c \in Cert, ArchiveReactivate(c)
    PROVE  CurrentInv'
<1> DEFINE a == arch[c]
           f == a.old
<1>1. /\ a \in Archiving /\ arch \in [Cert -> Archiving]
      /\ files \in [FileId -> Row] /\ a.pc = "reactivate"
      /\ clock \in Nat /\ nextFile \in Nat
  BY DEF TypeOK, ProcessesOK, TablesOK, ArchiveReactivate
<1>2. /\ arch'[c].pc = "compare" /\ arch'[c].todo = a.todo
      /\ arch'[c].cur = Without(a.cur, a.name)
      /\ \A d \in Cert : d # c => arch'[d] = arch[d]
      /\ nextFile' = nextFile
  BY <1>1 DEF ArchiveReactivate, Archiving
<1>3. f \in FileId /\ a.name \in Name /\ a.todo \subseteq Name
      /\ a.cur \in [Name -> FileId \cup {NoFile}]
  BY <1>1 DEF Archiving
<1>4. /\ \A n \in a.todo : CurrentOf(c, n) \subseteq {a.cur[n]}
      /\ a.name \notin a.todo
      /\ CurrentOf(c, a.name) \subseteq {f}
      /\ Exists(f) => KeyOf(f) = <<c, a.name>>
  BY <1>1 DEF CurrentInv, Covered, Busy
<1>5. \A n \in a.todo : Without(a.cur, a.name)[n] = a.cur[n]
  BY <1>3, <1>4 DEF Without
<1>6. CASE UNCHANGED <<files, clock>>
  <2>1. RowsFade
    BY <1>6 DEF RowsFade, Exists, KeyOf
  <2>2. \A n \in Name : CurrentOf(c, n)' = CurrentOf(c, n)
    BY <1>6 DEF CurrentOf, Rows, Exists, KeyOf
  <2>3. Covered(c)'
    BY <1>2, <1>3, <1>4, <1>5, <2>2 DEF Covered, Busy
  <2>4. QED
    BY <1>2, <1>6, <2>1, <2>3, FadeAndCover
<1>7. CASE /\ Exists(f)
           /\ files' = [files EXCEPT ![f] = [files[f] EXCEPT
                                               !.current = TRUE,
                                               !.received = clock]]
           /\ clock' = clock + 1
  <2>1. /\ \A g \in FileId : g # f => files'[g] = files[g]
        /\ files'[f].exists /\ files'[f].current
        /\ files'[f].received = clock
        /\ \A g \in FileId : Exists(g)' = Exists(g) /\ KeyOf(g)' = KeyOf(g)
    BY <1>1, <1>3, <1>7 DEF Exists, KeyOf, Row
  <2>2. Rows' = Rows /\ f \in Rows
    BY <1>3, <1>7, <2>1 DEF Rows
  <2>3. \A g \in Rows : files[g].received \in Nat /\ files[g].received < clock
    BY <1>1 DEF CurrentInv, InOrder, Rows, Row
  <2>4. InOrder'
    <3>1. \A g \in Rows : files'[g].received < clock'
      BY <1>1, <1>7, <2>1, <2>3 DEF Rows
    <3>2. ASSUME NEW g \in Rows, NEW h \in Rows,
                 files'[g].received = files'[h].received
          PROVE  g = h
      BY <1>1, <2>1, <2>3, <3>2 DEF CurrentInv, InOrder, Rows
    <3>3. QED
      BY <2>2, <3>1, <3>2 DEF InOrder
  <2>5. CurrentIsLatest'
    <3>1. ASSUME NEW g \in Rows, NEW h \in Rows,
                 files'[g].current, KeyOf(g) = KeyOf(h)
          PROVE  files'[h].received <= files'[g].received
      <4>1. CASE g = f
        BY <1>1, <2>1, <2>3, <4>1 DEF Rows
      <4>2. CASE g # f
        <5>1. files[g].current
          BY <2>1, <3>1, <4>2 DEF Rows
        <5>2. KeyOf(g) # <<c, a.name>>
          BY <1>4, <4>2, <5>1 DEF CurrentOf
        <5>3. h # f
          BY <1>4, <1>7, <3>1, <5>2
        <5>4. QED
          BY <2>1, <3>1, <4>2, <5>1, <5>3
          DEF CurrentInv, CurrentIsLatest, Rows
      <4>3. QED
        BY <4>1, <4>2
    <3>2. QED
      BY <2>1, <2>2, <3>1 DEF CurrentIsLatest, Rows
  <2>6. ASSUME NEW d \in Cert, NEW n \in Name, <<d, n>> # <<c, a.name>>
        PROVE  CurrentOf(d, n)' \subseteq CurrentOf(d, n)
    BY <1>4, <1>7, <2>1, <2>2, <2>6 DEF CurrentOf, Rows
  <2>7. Covered(c)'
    <3>1. \A n \in a.todo : CurrentOf(c, n)' \subseteq {a.cur[n]}
      BY <1>3, <1>4, <2>6
    <3>2. QED
      BY <1>2, <1>5, <3>1 DEF Covered, Busy
  <2>8. \A d \in Cert : d # c => Covered(d)'
    <3>1. ASSUME NEW d \in Cert, d # c PROVE Covered(d)'
      <4>1. \A n \in Name : CurrentOf(d, n)' \subseteq CurrentOf(d, n)
        BY <2>6, <3>1
      <4>2. QED
        BY <1>1, <1>2, <2>1, <3>1, <4>1, StaysCovered DEF CurrentInv
    <3>2. QED
      BY <3>1
  <2>9. QED
    BY <2>4, <2>5, <2>7, <2>8 DEF CurrentInv
<1>8. QED
  BY <1>6, <1>7 DEF ArchiveReactivate

LEMMA RetireFades ==
    ASSUME NEW f \in FileId, files \in [FileId -> Row], Retire(f)
    PROVE  RowsFade /\ (files'[f].exists => ~files'[f].current)
  BY DEF Retire, RowsFade, Exists, KeyOf, Row

\* The file on the list is the only one that was current, and it is not now.
LEMMA RetireStep ==
    ASSUME TypeOK, CurrentInv, NEW c \in Cert, ArchiveRetire(c)
    PROVE  CurrentInv'
<1> DEFINE a == arch[c]
           f == a.cur[a.name]
<1>1. /\ a \in Archiving /\ arch \in [Cert -> Archiving]
      /\ files \in [FileId -> Row] /\ a.pc = "retire"
  BY DEF TypeOK, ProcessesOK, TablesOK, ArchiveRetire
<1>2. /\ arch'[c].pc = "insert" /\ arch'[c].todo = a.todo
      /\ arch'[c].name = a.name /\ arch'[c].cur = Without(a.cur, a.name)
      /\ \A d \in Cert : d # c => arch'[d] = arch[d]
      /\ UNCHANGED <<nextFile, clock>>
  BY <1>1 DEF ArchiveRetire, Archiving
<1>3. f \in FileId /\ a.name \in Name /\ a.todo \subseteq Name
      /\ a.cur \in [Name -> FileId \cup {NoFile}]
  BY <1>1 DEF Archiving
<1>4. RowsFade /\ (files'[f].exists => ~files'[f].current)
  BY <1>1, <1>3, RetireFades DEF ArchiveRetire
<1>5. \A n \in Name : CurrentOf(c, n)' \subseteq CurrentOf(c, n)
  BY <1>4 DEF RowsFade, CurrentOf, Rows
<1>6. /\ \A n \in a.todo : CurrentOf(c, n) \subseteq {a.cur[n]}
      /\ a.name \notin a.todo
      /\ CurrentOf(c, a.name) \subseteq {f}
  BY <1>1 DEF CurrentInv, Covered, Busy
<1>7. CurrentOf(c, a.name)' = {}
  <2>1. CurrentOf(c, a.name)' \subseteq {f}
    BY <1>2, <1>3, <1>5, <1>6
  <2>2. ASSUME NEW g \in CurrentOf(c, a.name)'
        PROVE  FALSE
    <3>1. g = f /\ files'[g].exists /\ files'[g].current
      BY <2>1, <2>2 DEF CurrentOf, Rows, Exists
    <3>2. QED
      BY <1>4, <3>1
  <2>3. QED
    BY <2>2
<1>8. \A n \in a.todo : CurrentOf(c, n)' \subseteq {Without(a.cur, a.name)[n]}
  BY <1>3, <1>5, <1>6 DEF Without
<1>9. Covered(c)'
  BY <1>2, <1>6, <1>7, <1>8 DEF Covered, Busy
<1>10. QED
  BY <1>2, <1>4, <1>9, FadeAndCover

\* The new version is the latest one, and no other is current.
LEMMA InsertStep ==
    ASSUME TypeOK, CurrentInv, NEW c \in Cert, ArchiveInsert(c)
    PROVE  CurrentInv'
<1> DEFINE a == arch[c]
<1> SUFFICES ASSUME NEW f, f = nextFile PROVE CurrentInv'
  OBVIOUS
<1>1. /\ a \in Archiving /\ arch \in [Cert -> Archiving]
      /\ files \in [FileId -> Row] /\ a.pc = "insert"
      /\ clock \in Nat /\ f \in FileId /\ f \in Nat
  BY FileIdAssumption
  DEF TypeOK, ProcessesOK, TablesOK, ArchiveInsert
<1>2. /\ arch'[c].pc = "compare" /\ arch'[c].todo = a.todo
      /\ arch'[c].cur = a.cur
      /\ \A d \in Cert : d # c => arch'[d] = arch[d]
      /\ nextFile' = f + 1 /\ clock' = clock + 1
  BY <1>1 DEF ArchiveInsert, Archiving
<1>3. a.name \in Name /\ a.todo \subseteq Name
  BY <1>1 DEF Archiving
<1>4. /\ \A n \in a.todo : CurrentOf(c, n) \subseteq {a.cur[n]}
      /\ a.name \notin a.todo
      /\ CurrentOf(c, a.name) = {}
  BY <1>1 DEF CurrentInv, Covered, Busy
<1>5. /\ \A g \in FileId : g # f => files'[g] = files[g]
      /\ Exists(f)' /\ files'[f].received = clock
      /\ KeyOf(f)' = <<c, a.name>>
  BY <1>1 DEF ArchiveInsert, Exists, KeyOf
<1>6. Rows' = Rows \cup {f} /\ f \notin Rows
  <2>1. \A g \in Rows : g \in Nat /\ g < f
    BY FileIdAssumption DEF TypeOK, TablesOK, Rows
  <2>2. f \notin Rows
    BY <1>1, <2>1
  <2>3. QED
    BY <1>1, <1>5, <2>2 DEF Rows, Exists
<1>7. \A g \in Rows : /\ files'[g] = files[g] /\ g \in FileId
                      /\ KeyOf(g)' = KeyOf(g)
  BY <1>5, <1>6 DEF Rows, KeyOf
<1>8. \A g \in Rows : files[g].received \in Nat /\ files[g].received < clock
  BY <1>1 DEF CurrentInv, InOrder, Rows, Row
<1>9. InOrder'
  <2>1. \A g \in Rows' : files'[g].received < clock'
    BY <1>1, <1>2, <1>5, <1>6, <1>7, <1>8
  <2>2. ASSUME NEW g \in Rows', NEW h \in Rows',
               files'[g].received = files'[h].received
        PROVE  g = h
    BY <1>1, <1>5, <1>6, <1>7, <1>8, <2>2 DEF CurrentInv, InOrder
  <2>3. QED
    BY <2>1, <2>2 DEF InOrder
<1>10. CurrentIsLatest'
  <2>1. ASSUME NEW g \in Rows', NEW h \in Rows',
               files'[g].current, KeyOf(g)' = KeyOf(h)'
        PROVE  files'[h].received <= files'[g].received
    <3>1. CASE g = f
      BY <1>1, <1>5, <1>6, <1>7, <1>8, <3>1
    <3>2. CASE g # f
      <4>1. g \in Rows /\ files[g].current
        BY <1>6, <1>7, <2>1, <3>2
      <4>2. KeyOf(g)' # <<c, a.name>>
        BY <1>4, <1>7, <4>1 DEF CurrentOf
      <4>3. h \in Rows
        BY <1>5, <1>6, <2>1, <4>2
      <4>4. QED
        BY <1>7, <2>1, <4>1, <4>3 DEF CurrentInv, CurrentIsLatest
    <3>3. QED
      BY <3>1, <3>2
  <2>2. QED
    BY <2>1 DEF CurrentIsLatest
<1>11. ASSUME NEW d \in Cert, NEW n \in Name, <<d, n>> # <<c, a.name>>
       PROVE  CurrentOf(d, n)' \subseteq CurrentOf(d, n)
  <2>1. ASSUME NEW g \in CurrentOf(d, n)'
        PROVE  g \in CurrentOf(d, n)
    <3>1. g \in Rows' /\ files'[g].current /\ KeyOf(g)' = <<d, n>>
      BY <2>1 DEF CurrentOf
    <3>2. g \in Rows
      BY <1>5, <1>6, <1>11, <3>1
    <3>3. QED
      BY <1>7, <3>1, <3>2 DEF CurrentOf
  <2>2. QED
    BY <2>1
<1>12. Covered(c)'
  <2>1. \A n \in a.todo : CurrentOf(c, n)' \subseteq {a.cur[n]}
    BY <1>3, <1>4, <1>11
  <2>2. QED
    BY <1>2, <2>1 DEF Covered, Busy
<1>13. ASSUME NEW d \in Cert, d # c
       PROVE  Covered(d)'
  <2>1. \A n \in Name : CurrentOf(d, n)' \subseteq CurrentOf(d, n)
    BY <1>11, <1>13
  <2>2. \A g \in FileId : g < nextFile /\ Exists(g)'
                            => Exists(g) /\ KeyOf(g)' = KeyOf(g)
    BY <1>1, <1>5, FileIdAssumption DEF Exists, KeyOf
  <2>3. nextFile' \in Nat /\ nextFile <= nextFile'
    BY <1>1, <1>2
  <2>4. QED
    BY <1>2, <1>13, <2>1, <2>2, <2>3, StaysCovered DEF CurrentInv
<1>14. QED
  BY <1>9, <1>10, <1>12, <1>13 DEF CurrentInv

\* The files that are not in the package: all of the package is done by then.
LEMMA ClearStep ==
    ASSUME TypeOK, CurrentInv, NEW c \in Cert,
           ArchiveClear(c) \/ ArchiveUnindex(c)
    PROVE  CurrentInv'
<1> DEFINE a == arch[c]
<1>1. /\ a \in Archiving /\ arch \in [Cert -> Archiving]
      /\ files \in [FileId -> Row]
  BY DEF TypeOK, ProcessesOK, TablesOK
<1>2. a.todo = {}
  BY DEF ArchiveClear, ArchiveUnindex, CurrentInv, Covered
<1>3. /\ arch'[c].pc \in {"unindex", "compare"} /\ arch'[c].todo = a.todo
      /\ \A d \in Cert : d # c => arch'[d] = arch[d]
      /\ UNCHANGED <<nextFile, clock>>
  <2>1. CASE ArchiveClear(c)
    <3>1. PICK n \in Name :
            arch' = [arch EXCEPT ![c] = [a EXCEPT !.pc = "unindex", !.name = n]]
      BY <2>1 DEF ArchiveClear
    <3>2. UNCHANGED <<nextFile, clock>>
      BY <2>1 DEF ArchiveClear
    <3>3. QED
      BY <1>1, <3>1, <3>2 DEF Archiving
  <2>2. CASE ArchiveUnindex(c)
    BY <1>1, <2>2 DEF ArchiveUnindex, Archiving, db
  <2>3. QED
    BY <2>1, <2>2
<1>4. Covered(c)'
  BY <1>2, <1>3 DEF Covered, Busy
<1>5. RowsFade
  <2>1. CASE ArchiveClear(c)
    <3>1. PICK n \in Name : a.cur[n] # NoFile /\ Retire(a.cur[n])
      BY <2>1 DEF ArchiveClear
    <3>2. a.cur[n] \in FileId
      BY <1>1, <3>1 DEF Archiving
    <3>3. QED
      BY <1>1, <3>1, <3>2, RetireFades
  <2>2. CASE ArchiveUnindex(c)
    BY <2>2 DEF ArchiveUnindex, RowsFade, Exists, KeyOf, db
  <2>3. QED
    BY <2>1, <2>2
<1>6. QED
  BY <1>3, <1>4, <1>5, FadeAndCover

\* An archive that starts, ends, or starts over relies on nothing.
LEMMA IdleCovers ==
    ASSUME NEW c \in Cert, arch'[c].pc \in {"idle", "listCurrent"}
    PROVE  Covered(c)'
  BY DEF Covered, Busy

LEMMA ArchiveKeepsInv ==
    ASSUME TypeOK, CurrentInv, NEW c \in Cert,
           \/ \E pack \in [Name -> Content \cup {Absent}] :
                ArchiveStart(c, pack)
           \/ Archive(c) \/ ArchiveFail(c)
           \/ ArchiveCountFail(c) \/ ArchiveCompareFail(c)
    PROVE  CurrentInv'
<1>0. arch \in [Cert -> Archiving]
  BY DEF TypeOK, ProcessesOK
<1>1. ASSUME \/ \E pack \in [Name -> Content \cup {Absent}] :
                  ArchiveStart(c, pack)
             \/ ArchiveDone(c) \/ ArchiveFail(c)
      PROVE  CurrentInv'
  <2>1. /\ arch'[c].pc \in {"idle", "listCurrent"}
        /\ \A d \in Cert : d # c => arch'[d] = arch[d]
        /\ UNCHANGED db
    <3>1. IdleArchive \in Archiving /\ IdleArchive.pc = "idle"
      BY IdleTyped DEF IdleArchive
    <3>2. ASSUME NEW pack \in [Name -> Content \cup {Absent}],
                 ArchiveStart(c, pack)
          PROVE  /\ arch'[c].pc = "listCurrent"
                 /\ \A d \in Cert : d # c => arch'[d] = arch[d]
                 /\ UNCHANGED db
      BY <1>0, <3>1, <3>2 DEF ArchiveStart, Archiving
    <3>3. CASE ArchiveDone(c) \/ ArchiveFail(c)
      BY <1>0, <3>1, <3>3 DEF ArchiveDone, ArchiveFail, db
    <3>4. QED
      BY <1>1, <3>2, <3>3
  <2>2. QED
    BY <2>1, IdleCovers, ArchiveReads
<1>2. CASE \/ ArchiveListCurrent(c) \/ ArchiveCountHost(c)
           \/ ArchiveCountFail(c) \/ ArchiveCompare(c)
           \/ ArchiveCompareFail(c)
  <2>1. Covered(c)'
    BY <1>2, ListCovers, CountCovers, CompareCovers
  <2>2. /\ \A d \in Cert : d # c => arch'[d] = arch[d]
        /\ UNCHANGED db
    BY <1>0, <1>2
    DEF ArchiveListCurrent, ArchiveCountHost, ArchiveCountFail,
        ArchiveCompare, ArchiveCompareFail
  <2>3. QED
    BY <2>1, <2>2, ArchiveReads
<1>3. QED
  BY <1>1, <1>2, UnparseStep, ReactivateStep, RetireStep, InsertStep, ClearStep
  DEF Archive

LEMMA RestartKeepsInv == TypeOK /\ CurrentInv /\ Restart => CurrentInv'
<1> SUFFICES ASSUME TypeOK, CurrentInv, Restart PROVE CurrentInv'
  OBVIOUS
<1>1. UNCHANGED db
  BY DEF Restart
<1>2. \A c \in Cert : arch'[c].pc \in {"idle", "listCurrent"}
  BY DEF Restart, IdleArchive
<1>3. InOrder' /\ CurrentIsLatest'
  BY <1>1, FadeKeepsOrder DEF CurrentInv, RowsFade, Exists, KeyOf, db
<1>4. QED
  BY <1>2, <1>3, IdleCovers DEF CurrentInv

(***************************************************************************)
(* The theorem.                                                            *)
(***************************************************************************)

LEMMA InitCurrent == Init => UntilRenewal
  BY DEF Init, UntilRenewal, CurrentInv, InOrder, CurrentIsLatest, Covered,
         Busy, Rows, Exists, NoRow, IdleArchive

LEMMA NextCurrent == TypeOK /\ UntilRenewal /\ [Next]_vars => UntilRenewal'
<1> SUFFICES ASSUME TypeOK, UntilRenewal, [Next]_vars, used'.renewal = 0
             PROVE  CurrentInv'
  BY DEF UntilRenewal
<1>1. UsedOK
  BY DEF TypeOK
<1>2. ~ \E old, new \in Cert : RenewCommit(old, new)
  BY <1>1 DEF RenewCommit, UsedOK
<1>3. CurrentInv
  BY <1>1, <1>2, OthersCount DEF CountedElsewhere, UsedOK, UntilRenewal
<1>4. ASSUME NEW c \in Cert,
             \/ \E pack \in [Name -> Content \cup {Absent}] :
                  ArchiveStart(c, pack)
             \/ Archive(c) \/ ArchiveFail(c)
             \/ ArchiveCountFail(c) \/ ArchiveCompareFail(c)
      PROVE  CurrentInv'
  BY <1>3, <1>4, ArchiveKeepsInv
<1>5. QED
  BY <1>2, <1>3, <1>4, OthersKeepInv, RestartKeepsInv DEF Next

\* Until a certificate is renewed, a host has at most one current version of
\* a file, although processArchive works statement by statement on a list that
\* it read at the start, while hosts are removed and versions pruned, and
\* although any statement may fail and the service may stop at any of them.
THEOREM OneVersionIsCurrent == Spec => []OneCurrentVersion
<1>1. TypeOK /\ UntilRenewal => OneCurrentVersion
  BY OneCurrent DEF TypeOK, UntilRenewal, CurrentInv, OneCurrentVersion
<1>2. QED
  BY <1>1, InitCurrent, NextCurrent, TypeCorrect, PTL DEF Spec

===============================================================================
