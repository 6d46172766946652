------------------------------ MODULE NamingProofs -----------------------------
(***************************************************************************)
(* The naming of hosts, for any hosts, names, addresses and networks: the  *)
(* job never gives one name to two hosts, although it decides on what it   *)
(* read before uploads, requests and removals changed it.                  *)
(***************************************************************************)
EXTENDS Naming, TLAPS

(* Names come from the OS, from DNS, from an approval or from a request.   *)
NamingInv ==
    /\ TypeOK
    /\ dns \in [Ip -> Name \cup {NoName}]
    /\ clock \in Nat

Unique(rows) ==
    \A h, g \in Host : /\ rows[h].known /\ rows[g].known
                       /\ rows[h].hostname = rows[g].hostname /\ rows[h].hostname # NoName
                       => h = g

LEMMA UniqueRows == TypeOK => hostinfo \in [Host -> Row] /\ Unique(hostinfo)
BY DEF TypeOK, Unique, Known, Hostname

LEMMA NoRowIsRow == NoRow \in Row
<1>1. (CHOOSE i \in Ip : TRUE) \in Ip /\ (CHOOSE n \in Name : TRUE) \in Name
  BY NameAssumption
<1> QED
  BY <1>1 DEF NoRow, Row

LEMMA NamingStart == Init => NamingInv
<1>1. NoRow.known = FALSE
  BY DEF NoRow
<1> QED
  BY <1>1, NoRowIsRow DEF Init, NamingInv, TypeOK, Known, Hostname

-----------------------------------------------------------------------------
(* A step that changes one row and keeps its hostname, or loses it         *)
LEMMA RowStep ==
  ASSUME NamingInv, NEW h \in Host, NEW r \in Row,
         hostinfo' = [hostinfo EXCEPT ![h] = r],
         r.known => r.hostname = NoName \/ (hostinfo[h].known /\ r.hostname = Hostname(h)),
         UNCHANGED <<approval, dns, list, naming>>, clock' \in Nat,
         request' = request \/ request' = Idle
  PROVE  NamingInv'
<1>1. hostinfo' \in [Host -> Row] /\ Unique(hostinfo')
  BY UniqueRows DEF NamingInv, Unique, Hostname
<1> QED
  BY <1>1 DEF NamingInv, TypeOK, Unique, Known, Hostname

LEMMA FileStep ==
  ASSUME NamingInv, NEW h \in Host, NEW ip \in Addresses[h], NEW os \in Name,
         ParseFile(h, ip, os) \/ UnchangedFile(h, ip, os)
  PROVE  NamingInv'
<1>1. ip \in Ip
  BY AddressesAssumption
<1>2. clock' \in {clock, clock + 1} /\ clock' \in Nat
  BY DEF ParseFile, UnchangedFile, Received, NamingInv
<1>3. hostinfo[h] \in Row /\ NoRow \in Row /\ NoRow.hostname = NoName
  BY NoRowIsRow DEF NamingInv, TypeOK, NoRow
<1>4. UNCHANGED <<approval, dns, list, naming, request>>
  BY DEF ParseFile, UnchangedFile, world
<1> DEFINE seen == Seen(h, clock')
<1>5. seen \in Nat
  BY <1>2, <1>3 DEF Row, Seen
<1>6. CASE ParseFile(h, ip, os) /\ hostinfo[h].known
  <2> DEFINE r == [hostinfo[h] EXCEPT !.lastseen = seen]
  <2>1. r \in Row /\ r.hostname = Hostname(h)
    <3> HIDE DEF seen
    <3> QED  BY <1>3, <1>5 DEF Row, Hostname
  <2>2. hostinfo' = [hostinfo EXCEPT ![h] = r]
    BY <1>6 DEF ParseFile, Received, Known
  <2> HIDE DEF r
  <2> QED
    BY <1>2, <1>4, <1>6, <2>1, <2>2, RowStep
<1>7. CASE ParseFile(h, ip, os) /\ ~hostinfo[h].known
  <2> DEFINE r == [NoRow EXCEPT !.known = TRUE, !.ip = ip, !.os = os, !.due = TRUE, !.lastseen = clock']
  <2>1. r \in Row /\ r.hostname = NoName
    BY <1>1, <1>2, <1>3 DEF Row
  <2>2. hostinfo' = [hostinfo EXCEPT ![h] = r]
    BY <1>7 DEF ParseFile, Received, Known
  <2> HIDE DEF r
  <2> QED
    BY <1>2, <1>4, <2>1, <2>2, RowStep
<1>8. CASE UnchangedFile(h, ip, os)
  <2> DEFINE due == hostinfo[h].due \/ <<ip, os>> # <<hostinfo[h].ip, hostinfo[h].os>>
             r == [hostinfo[h] EXCEPT !.lastseen = seen, !.ip = ip, !.os = os, !.due = due]
  <2>1. r \in Row /\ r.hostname = Hostname(h) /\ hostinfo[h].known
    <3>1. due \in BOOLEAN
      BY <1>3 DEF Row
    <3> HIDE DEF seen, due
    <3> QED  BY <1>1, <1>3, <1>5, <1>8, <3>1 DEF Row, Hostname, UnchangedFile, Known
  <2>2. hostinfo' = [hostinfo EXCEPT ![h] = r]
    BY <1>8 DEF UnchangedFile, Received
  <2> HIDE DEF r
  <2> QED
    BY <1>2, <1>4, <2>1, <2>2, RowStep
<1> QED
  BY <1>6, <1>7, <1>8

(* The other writers of hostinfo: removal, the ttl and a PATCH             *)
LEMMA EditStep ==
  ASSUME NamingInv, PatchUpdate \/ \E h \in Host : Remove(h) \/ Expire(h)
  PROVE  NamingInv'
<1>1. ASSUME NEW h \in Host, Remove(h) PROVE NamingInv'
  BY <1>1, NoRowIsRow, RowStep DEF Remove, world, NoRow, NamingInv
<1>2. ASSUME NEW h \in Host, Expire(h) PROVE NamingInv'
  <2> DEFINE r == [hostinfo[h] EXCEPT !.due = TRUE]
  <2>1. r \in Row /\ r.hostname = Hostname(h) /\ r.known = hostinfo[h].known
    BY DEF NamingInv, TypeOK, Row, Hostname
  <2>2. hostinfo' = [hostinfo EXCEPT ![h] = r]
    BY <1>2 DEF Expire
  <2> HIDE DEF r
  <2> QED
    BY <1>2, <2>1, <2>2, RowStep DEF Expire, world, NamingInv
<1>3. CASE PatchUpdate
  <2> DEFINE h == request.host
             r == IF hostinfo[h].known
                  THEN [hostinfo[h] EXCEPT !.override = request.name, !.due = TRUE] ELSE hostinfo[h]
  <2>1. h \in Host /\ request.name \in Name \cup {Empty}
    BY <1>3 DEF PatchUpdate, NamingInv, TypeOK, Idle
  <2>2. r \in Row /\ r.hostname = Hostname(h) /\ r.known = hostinfo[h].known
    BY <2>1 DEF NamingInv, TypeOK, Row, Hostname
  <2>3. hostinfo' = [hostinfo EXCEPT ![h] = r]
    BY <1>3 DEF PatchUpdate
  <2>4. UNCHANGED <<approval, dns, list, naming>> /\ request' = Idle /\ clock' \in Nat
    BY <1>3 DEF PatchUpdate, world, NamingInv
  <2> HIDE DEF r, h
  <2> QED
    BY <2>1, <2>2, <2>3, <2>4, RowStep
<1> QED
  BY <1>1, <1>2, <1>3

(* The name comes from somewhere.                                          *)
LEMMA NameIsName ==
  ASSUME NamingInv, NEW m \in [host : Host, ip : Ip, os : Name, lastseen : Nat]
  PROVE  nameMachine(m) \in Name \cup {NoName}
BY DEF NamingInv, TypeOK, nameMachine, ByDns, ByOs, Approved

(* The job takes the name from everyone else in the same step: that is     *)
(* why what it decided on may be outdated.                                 *)
LEMMA CommitStep ==
  ASSUME NamingInv, JobCommit
  PROVE  NamingInv'
<1>1. /\ naming.host \in Host /\ naming.ip \in Ip /\ naming.name \in Name \cup {NoName}
      /\ naming' = Idle /\ UNCHANGED <<dns, list, clock>>
      /\ request' = request \/ request' = Idle
  BY DEF JobCommit, CommitName, NamingInv, TypeOK, Idle, world
<1>2. approval' \in [Ip -> Name \cup {NoName}]
  BY <1>1 DEF JobCommit, CommitName, NamingInv, TypeOK
<1>3. hostinfo' \in [Host -> Row] /\ Unique(hostinfo')
  <2>1. CASE naming.name = NoName
    BY <2>1, UniqueRows DEF JobCommit, CommitName, NamingInv
  <2>2. CASE naming.name # NoName
    <3> DEFINE taken(h) == [hostinfo[h] EXCEPT !.hostname = NoName]
               named(h) == [hostinfo[h] EXCEPT !.hostname = naming.name, !.due = FALSE]
    <3>1. ASSUME NEW h \in Host
          PROVE  /\ taken(h) \in Row /\ taken(h).hostname = NoName
                 /\ named(h) \in Row /\ named(h).hostname = naming.name
      BY <1>1 DEF NamingInv, TypeOK, Row
    <3>2. hostinfo' = [h \in Host |->
             IF h = naming.host /\ hostinfo[h].known THEN named(h)
             ELSE IF Hostname(h) = naming.name THEN taken(h) ELSE hostinfo[h]]
      BY <2>2 DEF JobCommit, CommitName, Named, NameTaken, Known
    <3>3. \A h \in Host : hostinfo[h] \in Row /\ (named(h).known = hostinfo[h].known)
      BY DEF NamingInv, TypeOK, Row
    <3> HIDE DEF taken, named
    <3>4. hostinfo' \in [Host -> Row]
      BY <3>1, <3>2, <3>3
    <3>5. ASSUME NEW h \in Host, NEW g \in Host, h # g,
                 hostinfo'[h].known, hostinfo'[g].known,
                 hostinfo'[h].hostname = hostinfo'[g].hostname
          PROVE  hostinfo'[h].hostname = NoName
      <4>1. CASE h = naming.host /\ hostinfo[h].known
        BY <3>1, <3>2, <3>5, <4>1 DEF Hostname
      <4>2. CASE g = naming.host /\ hostinfo[g].known
        BY <3>1, <3>2, <3>5, <4>2 DEF Hostname
      <4>3. CASE ~(h = naming.host /\ hostinfo[h].known) /\ ~(g = naming.host /\ hostinfo[g].known)
        <5>1. \/ hostinfo'[h].hostname = NoName
              \/ hostinfo'[h] = hostinfo[h] /\ hostinfo'[g] = hostinfo[g]
          BY <3>1, <3>2, <3>5, <4>3
        <5> QED
          BY <3>5, <5>1, UniqueRows DEF Unique, NamingInv
      <4> QED
        BY <4>1, <4>2, <4>3
    <3> QED
      BY <3>4, <3>5 DEF Unique
  <2> QED
    BY <2>1, <2>2
<1> QED
  BY <1>1, <1>2, <1>3 DEF NamingInv, TypeOK, Unique, Known, Hostname

(* Every part of the state has its type, and no two hosts have the same    *)
(* hostname, whatever happens between what the job read and its commit.    *)
THEOREM NamesAreUnique == Spec => []TypeOK
<1>1. NamingInv /\ [Next]_vars => NamingInv'
  <2> SUFFICES ASSUME NamingInv, [Next]_vars
               PROVE  NamingInv'
    OBVIOUS
  <2>1. ASSUME NEW h \in Host, NEW n \in Name \cup {Empty}, PatchSelect(h, n) PROVE NamingInv'
    BY <2>1 DEF PatchSelect, NamingInv, TypeOK, Known, Hostname, world
  <2>2. ASSUME NEW ip \in Ip, NEW n \in Name, ApproveSelect(ip, n) PROVE NamingInv'
    BY <2>2 DEF ApproveSelect, NamingInv, TypeOK, Known, Hostname, world
  <2>3. CASE ApproveUpdate
    <3>1. request.ip \in Ip /\ request.name \in Name
      BY <2>3 DEF ApproveUpdate, NamingInv, TypeOK, Idle
    <3> QED
      BY <2>3, <3>1 DEF ApproveUpdate, NamingInv, TypeOK, Known, Hostname, world
  <2>4. CASE JobSelect
    <3>1. \A h \in Host : hostinfo[h].ip \in Ip /\ hostinfo[h].os \in Name /\ hostinfo[h].lastseen \in Nat
      BY DEF NamingInv, TypeOK, Row
    <3>2. \A m \in list' : m \in [host : Host, ip : Ip, os : Name, lastseen : Nat]
      BY <2>4, <3>1 DEF JobSelect, Known
    <3> QED
      BY <2>4, <3>2 DEF JobSelect, NamingInv, TypeOK, Known, Hostname, world
  <2>5. CASE JobName
    <3>1. PICK m \in list : /\ list' = list \ {m}
                            /\ naming' = [pc |-> IF UsesApproval(m) THEN "approval" ELSE "commit",
                                          host |-> m.host, ip |-> m.ip,
                                          name |-> nameMachine(m), approval |-> UsesApproval(m)]
      BY <2>5 DEF JobName
    <3>2. m \in [host : Host, ip : Ip, os : Name, lastseen : Nat]
      BY <3>1 DEF NamingInv, TypeOK
    <3>3. UsesApproval(m) \in BOOLEAN
      BY DEF UsesApproval
    <3>4. naming' \in [pc : {"approval", "commit"}, host : Host, ip : Ip, name : Name \cup {NoName}, approval : BOOLEAN]
      BY <3>1, <3>2, <3>3, NameIsName
    <3> QED
      BY <2>5, <3>1, <3>4 DEF JobName, NamingInv, TypeOK, Known, Hostname, world
  <2>6. CASE JobApproval
    <3>1. naming' \in [pc : {"approval", "commit"}, host : Host, ip : Ip, name : Name \cup {NoName}, approval : BOOLEAN]
      BY <2>6 DEF JobApproval, NamingInv, TypeOK, Idle
    <3> QED
      BY <2>6, <3>1 DEF JobApproval, NamingInv, TypeOK, Known, Hostname, world
  <2>7. CASE UNCHANGED vars
    BY <2>7 DEF vars, world, NamingInv, TypeOK, Known, Hostname
  <2> QED
    BY <2>1, <2>2, <2>3, <2>4, <2>5, <2>6, <2>7, FileStep, EditStep, CommitStep DEF Next, Job, Request
<1>2. NamingInv => TypeOK
  BY DEF NamingInv
<1> QED
  BY <1>1, <1>2, NamingStart, PTL DEF Spec
================================================================================
