----------------------------- MODULE CertificatesProofs --------------------------
(***************************************************************************)
(* The certificates, for any machines and names and any number of upsets:  *)
(* every value stays in its range, no certificate that is in use is        *)
(* deleted, and the host of a machine goes with it from certificate to     *)
(* certificate.  That the clients settle and that what is expired goes     *)
(* are promises under fairness, which stay with the model checker.         *)
(***************************************************************************)
EXTENDS Certificates, SequenceTheorems, TLAPS

(* What TypeOK says, and that the functions and sequences are just that.   *)
Cert == [by : Machine, age : Age, cn : Name, text : {"go", "openssl"}]
Wait == {w \in [ipaddr : Machine, approved : BOOLEAN, hostname : Names] :
           w.approved => w.hostname \in Name}   \* What is approved has a name.
Row == [previous : Nat, first : Nat, revoked : BOOLEAN]
Client == [cert : Id \cup {None}, on : {None} \cup Slot]

IssuedTypes == issued \in Seq(Cert)

RowTypes ==
    /\ DOMAIN row \subseteq Id /\ row \in [DOMAIN row -> Row]
    /\ \A c \in DOMAIN row : row[c].previous \in 0 .. c - 1 /\ row[c].first \in 0 .. c

NameTypes ==
    /\ DOMAIN host \subseteq Id /\ host \in [DOMAIN host -> Names]
    /\ files \subseteq [certfp : Id, original : Id \cup {None}]
    /\ queue \subseteq Id

WaitTypes == waiting \in Seq(Wait)

TalkTypes ==
    /\ client \in [Machine -> Client]
    /\ request \in [Machine -> [Slot -> Request]]
    /\ \A m \in Machine : client[m].on # None => request[m][client[m].on] # Free

WorldTypes ==
    /\ job.pc = "idle" \/ (job.pc = "delete" /\ job.used \subseteq Id)
    /\ trusted \subseteq Machine /\ cut \subseteq Machine /\ late \subseteq Machine
    /\ upsets \in 0 .. MaxUpsets

CertTypes == IssuedTypes /\ RowTypes /\ NameTypes /\ WaitTypes /\ TalkTypes /\ WorldTypes

-----------------------------------------------------------------------------
(* What a reply does to the client and to its requests: the client no      *)
(* longer waits for it, or goes on to ask for a new certificate, or gets   *)
(* what it waited for.                                                     *)
AfterReply(m, s, c) ==
    \/ /\ client[m].on # s
       /\ client' = client
       /\ request' = [request EXCEPT ![m] = [@ EXCEPT ![s] = Free]]
    \/ /\ client[m].on = s /\ c = None
       /\ client' = client
       /\ request' = [request EXCEPT ![m] = [@ EXCEPT ![s] = [pc |-> "look"]]]
    \/ /\ client[m].on = s
       /\ client' = [client EXCEPT ![m] = [cert |-> IF c = None THEN client[m].cert ELSE c,
                                           on |-> None]]
       /\ request' = [request EXCEPT ![m] = [@ EXCEPT ![s] = Free]]

LEMMA ReplyIs ==
  ASSUME TalkTypes, NEW m \in Machine, NEW s \in Slot, NEW c, Replies(m, s, c)
  PROVE  AfterReply(m, s, c)
<1>1. client[m] \in Client /\ request[m] \in [Slot -> Request]
  BY DEF TalkTypes
<1>2. CASE client[m].on # s
  BY <1>2 DEF Replies, Answer, AfterReply
<1>3. CASE client[m].on = s /\ Again(m, s, c)
  BY <1>3 DEF Replies, Answer, AfterReply, Again
<1>4. CASE client[m].on = s /\ ~Again(m, s, c)
  BY <1>4 DEF Replies, Answer, AfterReply
<1> QED
  BY <1>2, <1>3, <1>4

LEMMA RequestTypes ==
  /\ Free \in Request /\ [pc |-> "look"] \in Request /\ [pc |-> "add"] \in Request
  /\ [pc |-> "look"] # Free /\ [pc |-> "add"] # Free
  /\ \A c \in Id : [pc |-> "check", cert |-> c] \in Request
                   /\ [pc |-> "check", cert |-> c] # Free
  /\ \A c \in Id, n \in Name : [pc |-> "commit", cert |-> c, cn |-> n] \in Request
                               /\ [pc |-> "commit", cert |-> c, cn |-> n] # Free
  /\ \A r \in Request : r.pc = "free" <=> r = Free
  /\ \A r \in Request : r.pc \in {"check", "commit"} => r.cert \in Id
  /\ \A r \in Request : r.pc = "commit" => r.cn \in Name
BY DEF Request, Free

(* The new certificate                                                     *)
LEMMA Issuing ==
  ASSUME IssuedTypes, NEW x \in Cert, issued' = Append(issued, x)
  PROVE  /\ IssuedTypes' /\ Id' = Id \cup {New} /\ New \notin Id /\ New \in Nat \ {0}
         /\ issued'[New] = x /\ \A c \in Id : issued'[c] = issued[c] /\ c < New
BY DEF IssuedTypes, Id, New

LEMMA IdIsNat ==
  ASSUME IssuedTypes
  PROVE  Id \subseteq Nat \ {0} /\ None \notin Id /\ \A c \in Id : issued[c] \in Cert
BY DEF IssuedTypes, Id, None

(* What only refers to certificates stays when there are more of them.     *)
LEMMA TalkGrows ==
  ASSUME TalkTypes, Id \subseteq Id', UNCHANGED <<client, request>>
  PROVE  TalkTypes'
<1>1. Client \subseteq Client'
  BY DEF Client
<1>2. Request \subseteq Request'
  BY DEF Request
<1>3. [Machine -> [Slot -> Request]] \subseteq [Machine -> [Slot -> Request']]
  BY <1>2
<1> QED
  BY <1>1, <1>3 DEF TalkTypes

LEMMA TalkReplies ==
  ASSUME TalkTypes, Id \subseteq Id', NEW m \in Machine, NEW s \in Slot, NEW c \in Id' \cup {None},
         AfterReply(m, s, c)
  PROVE  TalkTypes'
<1>1. Client \subseteq Client' /\ Request \subseteq Request'
  BY DEF Client, Request
<1>2. Free \in Request' /\ [pc |-> "look"] \in Request' /\ [pc |-> "look"] # Free
  BY DEF Request, Free
<1>3. client \in [Machine -> Client'] /\ request \in [Machine -> [Slot -> Request']]
  BY <1>1 DEF TalkTypes
<1>4. request' \in [Machine -> [Slot -> Request']]
  BY <1>2, <1>3 DEF AfterReply
<1>5. client' \in [Machine -> Client']
  <2>1. [cert |-> IF c = None THEN client[m].cert ELSE c, on |-> None] \in Client'
    BY <1>3 DEF Client
  <2> QED
    BY <1>3, <2>1 DEF AfterReply
<1>6. ASSUME NEW n \in Machine, client'[n].on # None
      PROVE  request'[n][client'[n].on] # Free
  <2>1. CASE n # m
    <3>1. client'[n] = client[n] /\ request'[n] = request[n]
      BY <1>3, <2>1 DEF AfterReply
    <3> QED
      BY <1>6, <3>1 DEF TalkTypes
  <2>2. CASE n = m /\ client[m].on # s
    <3>1. client'[m] = client[m] /\ client[m].on \in Slot
      BY <1>3, <1>6, <2>2 DEF AfterReply, Client, TalkTypes
    <3>2. request'[m][client[m].on] = request[m][client[m].on]
      BY <1>3, <2>2, <3>1 DEF AfterReply
    <3> QED
      BY <1>6, <2>2, <3>1, <3>2 DEF TalkTypes
  <2>3. CASE n = m /\ client[m].on = s
    <3>1. client'[m].on # None
      BY <1>6, <2>3
    <3>2. client' = client /\ request'[m][s] = [pc |-> "look"]
      BY <1>3, <2>3, <3>1 DEF AfterReply
    <3> QED
      BY <1>2, <2>3, <3>2
  <2> QED
    BY <2>1, <2>2, <2>3
<1> QED
  BY <1>4, <1>5, <1>6 DEF TalkTypes

LEMMA TalkSends ==
  ASSUME TalkTypes, IssuedTypes, NEW m \in Machine, NEW r \in Request, r # Free,
         Sends(m, r), issued' = issued
  PROVE  TalkTypes'
<1>1. PICK s \in Slot : /\ request' = [request EXCEPT ![m] = [@ EXCEPT ![s] = r]]
                        /\ client' = [client EXCEPT ![m] = [@ EXCEPT !.on = s]]
  BY DEF Sends
<1>2. Client' = Client /\ Request' = Request
  BY DEF Client, Request, Id
<1>3. request' \in [Machine -> [Slot -> Request]]
  BY <1>1 DEF TalkTypes
<1>4. [client[m] EXCEPT !.on = s] \in Client
  BY DEF TalkTypes, Client
<1>5. client' \in [Machine -> Client]
  BY <1>1, <1>4 DEF TalkTypes
<1>6. ASSUME NEW n \in Machine, client'[n].on # None
      PROVE  request'[n][client'[n].on] # Free
  <2>1. CASE n = m
    BY <1>1, <2>1 DEF TalkTypes, Client
  <2>2. CASE n # m
    BY <1>1, <1>6, <2>2 DEF TalkTypes
  <2> QED
    BY <2>1, <2>2
<1> QED
  BY <1>2, <1>3, <1>5, <1>6 DEF TalkTypes

(* A request that goes on to its next step *)
LEMMA TalkGoesOn ==
  ASSUME TalkTypes, NEW m \in Machine, NEW s \in Slot, NEW r \in Request, r # Free,
         request' = [request EXCEPT ![m] = [@ EXCEPT ![s] = r]], UNCHANGED <<client, issued>>
  PROVE  TalkTypes'
<1>1. Client' = Client /\ Request' = Request
  BY DEF Client, Request, Id
<1>2. request' \in [Machine -> [Slot -> Request]]
  BY DEF TalkTypes
<1>3. ASSUME NEW n \in Machine, client[n].on # None
      PROVE  request'[n][client[n].on] # Free
  <2>1. client[n].on \in Slot /\ request[n][client[n].on] # Free
    BY <1>3 DEF TalkTypes, Client
  <2> QED
    BY <2>1 DEF TalkTypes
<1> QED
  BY <1>1, <1>2, <1>3 DEF TalkTypes

LEMMA CertStart ==
  ASSUME Init
  PROVE  CertTypes
<1>0. OsName \in Name /\ MaxUpsets \in Nat
  BY CertificatesAssumption
<1>1. /\ \A m \in Machine : client[m].cert = 2 => 2 \in Id
      /\ client \in [Machine -> [cert : {None, 2}, on : {None}]]
      /\ request \in [Machine -> [Slot -> {Free}]]
      /\ waiting = <<>> /\ queue = {}
  <2>1. CASE issued = <<>>
    BY <2>1 DEF Init, Id, None
  <2>2. CASE issued # <<>>
    BY <2>2 DEF Init, Id, None
  <2> QED
    BY <2>1, <2>2
<1>2. TalkTypes
  <2>1. client \in [Machine -> Client]
    BY <1>1 DEF Client, None
  <2>2. request \in [Machine -> [Slot -> Request]]
    BY <1>1, RequestTypes
  <2> QED
    BY <1>1, <2>1, <2>2 DEF TalkTypes
<1>3. WaitTypes
  BY <1>1 DEF WaitTypes
<1>4. WorldTypes
  BY <1>0 DEF Init, WorldTypes
<1>5. CASE issued = <<>> /\ row = <<>> /\ host = <<>> /\ files = {}
  <2>1. IssuedTypes /\ RowTypes /\ NameTypes
    BY <1>1, <1>5 DEF IssuedTypes, RowTypes, NameTypes, Id
  <2> QED
    BY <1>2, <1>3, <1>4, <2>1 DEF CertTypes
<1>6. ASSUME NEW m \in Machine, issued = <<Openssl(m, "expired"), Openssl(m, "fresh")>>,
             row = [c \in {1, 2} |-> [previous |-> c - 1, first |-> 1, revoked |-> FALSE]],
             NEW known \in SUBSET {2}, host = [c \in known |-> OsName],
             files = {[certfp |-> c, original |-> 1] : c \in known}
      PROVE  CertTypes
  <2>1. IssuedTypes /\ Id = {1, 2}
    BY <1>0, <1>6 DEF IssuedTypes, Id, Openssl, Cert, Age
  <2>2. RowTypes
    BY <1>6, <2>1 DEF RowTypes, Row
  <2>3. NameTypes
    BY <1>0, <1>1, <1>6, <2>1 DEF NameTypes, Names
  <2> QED
    BY <1>2, <1>3, <1>4, <2>1, <2>2, <2>3 DEF CertTypes
<1> QED
  BY <1>5, <1>6 DEF Init

(* The steps of the client *)
LEMMA ClientTypes ==
  ASSUME CertTypes, NEW m \in Machine, Run(m) \/ ClientMisses(m)
  PROVE  CertTypes'
<1> DEFINE c == client[m].cert
<1>0. /\ client[m] \in Client
      /\ issued' = issued => Id' = Id /\ Client' = Client /\ Request' = Request
  BY DEF CertTypes, TalkTypes, Id, Client, Request
<1>1. CASE ClientPosts(m)
  <2>1. c \in Id /\ queue' = queue \cup {c}
    BY <1>0, <1>1 DEF ClientPosts, Client
  <2>2. UNCHANGED <<issued, row, host, files, waiting, client, request, trusted, world>>
    BY <1>1 DEF ClientPosts
  <2> QED
    BY <1>0, <2>1, <2>2 DEF CertTypes, IssuedTypes, RowTypes, NameTypes, WaitTypes, TalkTypes, WorldTypes,
                            world, Id
<1>2. CASE ClientRenews(m)
  <2>1. [pc |-> "check", cert |-> c] \in Request /\ [pc |-> "check", cert |-> c] # Free
    BY <1>0, <1>2, RequestTypes DEF ClientRenews, Client
  <2>2. TalkTypes'
    BY <1>2, <2>1, TalkSends DEF ClientRenews, CertTypes
  <2>3. UNCHANGED <<issued, row, host, files, queue, trusted, waiting, world>>
    BY <1>2 DEF ClientRenews
  <2> QED
    BY <2>2, <2>3 DEF CertTypes, IssuedTypes, RowTypes, NameTypes, WaitTypes, WorldTypes, world, Id
<1>3. CASE ClientRequests(m)
  <2>1. TalkTypes'
    BY <1>3, RequestTypes, TalkSends DEF ClientRequests, CertTypes
  <2>2. UNCHANGED <<issued, row, host, files, queue, trusted, waiting, world>>
    BY <1>3 DEF ClientRequests
  <2> QED
    BY <2>1, <2>2 DEF CertTypes, IssuedTypes, RowTypes, NameTypes, WaitTypes, WorldTypes, world, Id
<1>4. CASE ClientMisses(m)
  <2>1. client' = [client EXCEPT ![m] = [@ EXCEPT !.on = None]] /\ cut' = cut \cup {m}
        /\ UNCHANGED <<server, job, late, upsets>>
    BY <1>4 DEF ClientMisses
  <2>2. TalkTypes'
    <3>1. client' \in [Machine -> Client]
      BY <1>0, <2>1 DEF CertTypes, TalkTypes, Client
    <3> QED
      BY <1>0, <2>1, <3>1 DEF CertTypes, TalkTypes, server
  <2> QED
    BY <2>1, <2>2 DEF CertTypes, IssuedTypes, RowTypes, NameTypes, WaitTypes, WorldTypes, server, Id
<1> QED
  BY <1>1, <1>2, <1>3, <1>4 DEF Run

LEMMA IssueTypes ==
  ASSUME CertTypes, NEW m \in Machine, NEW s \in Slot, NEW n \in Name, request[m][s] # Free,
         Issue(m, s, n)
  PROVE  CertTypes'
<1> DEFINE x == [by |-> m, age |-> "fresh", cn |-> n, text |-> "go"]
           new == [previous |-> None, first |-> New, revoked |-> FALSE]
<1>1. issued' = Append(issued, x) /\ x \in Cert
  BY DEF Issue, Cert, Age
<1>2. IssuedTypes' /\ Id' = Id \cup {New} /\ New \notin Id /\ New \in Nat \ {0}
  BY <1>1, Issuing DEF CertTypes
<1>3. AfterReply(m, s, New)
  BY ReplyIs DEF Issue, CertTypes
<1>4. TalkTypes'
  BY <1>2, <1>3, TalkReplies DEF CertTypes
<1>5. RowTypes'
  <2>1. /\ DOMAIN row' = DOMAIN row \cup {New}
        /\ row' = [c \in DOMAIN row' |-> row'[c]]
        /\ row'[New] = new
        /\ \A c \in DOMAIN row : row'[c] = row[c]
    BY <1>2 DEF Issue, CertTypes, RowTypes
  <2>2. new \in Row /\ new.previous \in 0 .. New - 1 /\ new.first \in 0 .. New
    BY <1>2 DEF Row, None
  <2> HIDE DEF new
  <2> QED
    BY <1>2, <2>1, <2>2 DEF CertTypes, RowTypes
<1> QED
  BY <1>2, <1>4, <1>5 DEF CertTypes, NameTypes, WaitTypes, WorldTypes, Issue, world

LEMMA RenewTypes ==
  ASSUME CertTypes, NEW m \in Machine, NEW s \in Slot, RenewCommit(m, s)
  PROVE  CertTypes'
<1> DEFINE r == request[m][s]
           x == [by |-> m, age |-> "fresh", cn |-> r.cn, text |-> "go"]
           there == r.cert \in DOMAIN row
           new == [previous |-> IF there THEN r.cert ELSE None,
                   first |-> IF there THEN row[r.cert].first ELSE None, revoked |-> FALSE]
<1>0. r \in Request /\ r.pc = "commit" /\ r # Free /\ r.cert \in Id /\ r.cn \in Name
  BY RequestTypes DEF RenewCommit, Renewed, CertTypes, TalkTypes, Free
<1>1. issued' = Append(issued, x) /\ x \in Cert
  BY <1>0 DEF RenewCommit, Renewed, Cert, Age
<1>2. /\ IssuedTypes' /\ Id' = Id \cup {New} /\ New \notin Id /\ New \in Nat \ {0}
      /\ Id \subseteq Nat \ {0} /\ \A c \in Id : c < New
  BY <1>1, Issuing, IdIsNat DEF CertTypes
<1>3. AfterReply(m, s, New)
  BY ReplyIs DEF RenewCommit, Renewed, CertTypes
<1>4. TalkTypes'
  BY <1>2, <1>3, TalkReplies DEF CertTypes
<1>5. RowTypes'
  <2>1. /\ DOMAIN row' = DOMAIN row \cup {New}
        /\ row' = [c \in DOMAIN row' |-> row'[c]]
        /\ row'[New] = new
        /\ \A c \in DOMAIN row : row'[c] = row[c]
    BY <1>2 DEF RenewCommit, Renewed, CertTypes, RowTypes
  <2>2. new \in Row /\ new.previous \in 0 .. New - 1 /\ new.first \in 0 .. New
    BY <1>0, <1>2 DEF Row, None, CertTypes, RowTypes
  <2> HIDE DEF new
  <2> QED
    BY <1>2, <2>1, <2>2 DEF CertTypes, RowTypes
<1>6. NameTypes'
  <2>1. host' = Moved(r.cert) /\ queue' = queue
        /\ files' = {IF f.certfp = r.cert THEN [f EXCEPT !.certfp = New] ELSE f : f \in files}
    BY DEF RenewCommit, Renewed
  <2>2. files' \subseteq [certfp : Id', original : Id' \cup {None}]
    BY <1>2, <2>1 DEF CertTypes, NameTypes
  <2>3. DOMAIN host' \subseteq Id' /\ host' \in [DOMAIN host' -> Names]
    BY <1>2, <2>1 DEF CertTypes, NameTypes, Moved
  <2> QED
    BY <1>2, <2>1, <2>2, <2>3 DEF CertTypes, NameTypes
<1>7. WaitTypes' /\ WorldTypes'
  BY <1>2 DEF CertTypes, WaitTypes, WorldTypes, RenewCommit, Renewed
<1> QED
  BY <1>2, <1>4, <1>5, <1>6, <1>7 DEF CertTypes

(* What a request gets that does not end in a certificate                  *)
LEMMA ServeTypes ==
  ASSUME CertTypes, NEW m \in Machine, NEW s \in Slot,
         Serve(m, s) \/ RenewCheckNoName(m, s) \/ RequestFails(m, s)
  PROVE  CertTypes'
<1> DEFINE r == request[m][s]
<1>0. /\ r \in Request /\ client[m] \in Client
      /\ issued' = issued => Id' = Id /\ Client' = Client /\ Request' = Request
  BY DEF CertTypes, TalkTypes, Id, Client, Request
<1>a. ASSUME Replies(m, s, None), r # Free, issued' = issued
      PROVE  TalkTypes'
  BY <1>0, <1>a, ReplyIs, TalkReplies DEF CertTypes
<1>1. CASE ReqCertTrusted(m, s)
  BY <1>1, IssueTypes, CertificatesAssumption DEF ReqCertTrusted, Free
<1>2. CASE ReqCertApproved(m, s)
  <2>1. PICK w \in At(m) : waiting[w].approved /\ Issue(m, s, waiting[w].hostname)
    BY <1>2 DEF ReqCertApproved
  <2>2. waiting[w].hostname \in Name
    BY <2>1 DEF CertTypes, WaitTypes, Wait, At
  <2> QED
    BY <1>2, <2>1, <2>2, IssueTypes DEF ReqCertApproved, Free
<1>3. CASE ReqCertBePatient(m, s)
  <2>1. TalkTypes'
    BY <1>3, <1>a DEF ReqCertBePatient, Free
  <2>2. UNCHANGED <<issued, row, host, files, queue, trusted, waiting, world>>
    BY <1>3 DEF ReqCertBePatient
  <2> QED
    BY <2>1, <2>2 DEF CertTypes, IssuedTypes, RowTypes, NameTypes, WaitTypes, WorldTypes, world, Id
<1>4. CASE ReqCertUnknown(m, s)
  <2>1. request' = [request EXCEPT ![m] = [@ EXCEPT ![s] = [pc |-> "add"]]]
    <3>1. r = [pc |-> "look"]
      BY <1>0, <1>4 DEF ReqCertUnknown, Request, Free
    <3>2. [r EXCEPT !.pc = "add"] = [pc |-> "add"]
      BY <3>1
    <3>3. request' = [request EXCEPT ![m] = [@ EXCEPT ![s] = [r EXCEPT !.pc = "add"]]]
      BY <1>4 DEF ReqCertUnknown
    <3> HIDE DEF r
    <3> QED
      BY <3>2, <3>3
  <2>2. UNCHANGED <<issued, row, host, files, queue, trusted, waiting, client, world>>
    BY <1>4 DEF ReqCertUnknown
  <2>3. TalkTypes'
    BY <2>1, <2>2, TalkGoesOn, RequestTypes DEF CertTypes
  <2> QED
    BY <2>2, <2>3 DEF CertTypes, IssuedTypes, RowTypes, NameTypes, WaitTypes, WorldTypes, world, Id
<1>5. CASE ReqCertAdd(m, s)
  <2>1. TalkTypes'
    BY <1>5, <1>a DEF ReqCertAdd, Free
  <2>2. UNCHANGED <<issued, row, host, files, queue, trusted, world>>
    BY <1>5 DEF ReqCertAdd
  <2>3. WaitTypes'
    BY <1>5 DEF ReqCertAdd, Enlist, CertTypes, WaitTypes, Wait, Names
  <2> QED
    BY <2>1, <2>2, <2>3 DEF CertTypes, IssuedTypes, RowTypes, NameTypes, WorldTypes, world, Id
<1>6. CASE RenewCheck(m, s)
  <2>1. UNCHANGED <<issued, row, host, files, queue, trusted, waiting, world>>
    BY <1>6 DEF RenewCheck
  <2>2. TalkTypes'
    <3>1. CASE r.cert \in DOMAIN row /\ ~row[r.cert].revoked
      <4> DEFINE n == IF r.cert \in DOMAIN host /\ host[r.cert] # NoName THEN host[r.cert]
                      ELSE issued[r.cert].cn
                 q == [pc |-> "commit", cert |-> r.cert, cn |-> n]
      <4>1. request' = [request EXCEPT ![m] = [@ EXCEPT ![s] = q]] /\ client' = client
        BY <1>6, <3>1 DEF RenewCheck
      <4>2. r.cert \in Id
        BY <1>0, <1>6, RequestTypes DEF RenewCheck
      <4>3. n \in Name
        BY <4>2, IdIsNat DEF CertTypes, NameTypes, Names, Cert
      <4>4. q \in Request /\ q # Free
        <5> HIDE DEF n
        <5> QED
          BY <4>2, <4>3, RequestTypes
      <4> HIDE DEF q
      <4> QED
        BY <2>1, <4>1, <4>4, TalkGoesOn DEF CertTypes
    <3>2. CASE ~(r.cert \in DOMAIN row /\ ~row[r.cert].revoked)
      <4>1. Replies(m, s, None)
        BY <1>6, <3>2 DEF RenewCheck
      <4> QED
        BY <1>6, <1>a, <2>1, <4>1 DEF RenewCheck, Free
    <3> QED
      BY <3>1, <3>2
  <2> QED
    BY <2>1, <2>2 DEF CertTypes, IssuedTypes, RowTypes, NameTypes, WaitTypes, WorldTypes, world, Id
<1>7. CASE RenewCommit(m, s)
  BY <1>7, RenewTypes
<1>8. CASE RequestFails(m, s)
  <2>1. TalkTypes'
    BY <1>8, <1>a DEF RequestFails
  <2>2. UNCHANGED <<issued, row, host, files, queue, trusted, waiting, job, cut, late>> /\ Upset
    BY <1>8 DEF RequestFails
  <2> QED
    BY <2>1, <2>2, CertificatesAssumption
    DEF CertTypes, IssuedTypes, RowTypes, NameTypes, WaitTypes, WorldTypes, Id, Upset
<1>9. CASE RenewCheckNoName(m, s)
  <2> DEFINE q == [pc |-> "commit", cert |-> r.cert, cn |-> issued[r.cert].cn]
  <2>1. /\ request' = [request EXCEPT ![m] = [@ EXCEPT ![s] = q]] /\ client' = client
        /\ UNCHANGED <<issued, row, host, files, queue, trusted, waiting, job, cut, late>> /\ Upset
    BY <1>9 DEF RenewCheckNoName
  <2>2. r.cert \in Id
    BY <1>0, <1>9, RequestTypes DEF RenewCheckNoName
  <2>3. issued[r.cert].cn \in Name
    BY <2>2, IdIsNat DEF CertTypes, Cert
  <2>4. q \in Request /\ q # Free
    BY <2>2, <2>3, RequestTypes
  <2> HIDE DEF q
  <2>5. TalkTypes'
    BY <2>1, <2>4, TalkGoesOn DEF CertTypes
  <2> QED
    BY <2>1, <2>5, CertificatesAssumption
    DEF CertTypes, IssuedTypes, RowTypes, NameTypes, WaitTypes, WorldTypes, Id, Upset
<1> QED
  BY <1>1, <1>2, <1>3, <1>4, <1>5, <1>6, <1>7, <1>8, <1>9 DEF Serve

(* The administrators *)
LEMMA AdminTypes ==
  ASSUME CertTypes,
         \/ \E w \in DOMAIN waiting : Approve(w) \/ Withdraw(w)
         \/ \E m \in Machine : ApproveInAdvance(m)
         \/ \E c \in Id : RemoveHost(c) \/ \E n \in Name : Rename(c, n)
  PROVE  CertTypes'
<1>0. MaxUpsets \in Nat
  BY CertificatesAssumption
<1>1. ASSUME WaitTypes', upsets' \in 0 .. MaxUpsets,
             UNCHANGED <<issued, row, host, files, queue, trusted, client, request, job, cut, late>>
      PROVE  CertTypes'
  BY <1>1 DEF CertTypes, IssuedTypes, RowTypes, NameTypes, TalkTypes, WorldTypes, Id, Client, Request
<1>a. waiting \in Seq(Wait) /\ DOMAIN waiting = 1 .. Len(waiting)
      /\ \A w \in DOMAIN waiting : waiting[w] \in Wait
  BY DEF CertTypes, WaitTypes
<1>2. ASSUME NEW w \in DOMAIN waiting, Approve(w)
      PROVE  CertTypes'
  <2>1. PICK n \in Name : waiting' = [waiting EXCEPT ![w] = [@ EXCEPT !.approved = TRUE, !.hostname = n]]
    BY <1>2 DEF Approve
  <2>2. [waiting[w] EXCEPT !.approved = TRUE, !.hostname = n] \in Wait
    BY <1>a DEF Wait, Names
  <2>3. WaitTypes'
    BY <1>a, <2>1, <2>2, ExceptSeq DEF WaitTypes
  <2> QED
    BY <1>1, <1>2, <2>3 DEF Approve, world, CertTypes, WorldTypes
<1>3. ASSUME NEW w \in DOMAIN waiting, Withdraw(w)
      PROVE  CertTypes'
  <2>1. CASE waiting' = [waiting EXCEPT ![w].approved = FALSE]
    <3>1. [waiting[w] EXCEPT !.approved = FALSE] \in Wait
      BY <1>a DEF Wait
    <3>2. WaitTypes'
      BY <1>a, <2>1, <3>1, ExceptSeq DEF WaitTypes
    <3> QED
      BY <1>0, <1>1, <1>3, <3>2 DEF Withdraw, Upset, CertTypes, WorldTypes
  <2>2. CASE waiting' = SubSeq(waiting, 1, w - 1) \o SubSeq(waiting, w + 1, Len(waiting))
    <3>1. w \in Int /\ Len(waiting) \in Int /\ 1 <= w /\ w <= Len(waiting)
      BY <1>a
    <3>2. /\ \A i \in 1 .. w - 1 : waiting[i] \in Wait
          /\ \A i \in w + 1 .. Len(waiting) : waiting[i] \in Wait
      BY <1>a, <3>1
    <3>3. SubSeq(waiting, 1, w - 1) \in Seq(Wait)
      BY <3>1, <3>2, SubSeqProperties
    <3>4. SubSeq(waiting, w + 1, Len(waiting)) \in Seq(Wait)
      BY <3>1, <3>2, SubSeqProperties
    <3>5. WaitTypes'
      BY <2>2, <3>3, <3>4, ConcatProperties DEF WaitTypes
    <3> QED
      BY <1>0, <1>1, <1>3, <3>5 DEF Withdraw, Upset, CertTypes, WorldTypes
  <2> QED
    BY <1>3, <2>1, <2>2 DEF Withdraw
<1>4. ASSUME NEW m \in Machine, ApproveInAdvance(m)
      PROVE  CertTypes'
  <2>1. PICK n \in Name : waiting' = Append(waiting, [ipaddr |-> m, approved |-> TRUE, hostname |-> n])
    BY <1>4 DEF ApproveInAdvance, Enlist
  <2>2. WaitTypes'
    BY <2>1 DEF CertTypes, WaitTypes, Wait, Names
  <2> QED
    BY <1>0, <1>1, <1>4, <2>2 DEF ApproveInAdvance, Upset, CertTypes, WorldTypes
<1>5. ASSUME NameTypes', upsets' \in 0 .. MaxUpsets,
             UNCHANGED <<issued, row, queue, trusted, waiting, client, request, job, cut, late>>
      PROVE  CertTypes'
  BY <1>5 DEF CertTypes, IssuedTypes, RowTypes, WaitTypes, TalkTypes, WorldTypes, Id, Client, Request
<1>6. ASSUME NEW c \in Id, RemoveHost(c)
      PROVE  CertTypes'
  <2>1. NameTypes'
    BY <1>6 DEF RemoveHost, CertTypes, NameTypes, Id
  <2> QED
    BY <1>0, <1>5, <1>6, <2>1 DEF RemoveHost, Upset, CertTypes, WorldTypes
<1>7. ASSUME NEW c \in Id, NEW n \in Name, Rename(c, n)
      PROVE  CertTypes'
  <2>1. NameTypes'
    BY <1>7 DEF Rename, CertTypes, NameTypes, Id, Names
  <2> QED
    BY <1>0, <1>5, <1>7, <2>1 DEF Rename, Upset, CertTypes, WorldTypes
<1> QED
  BY <1>2, <1>3, <1>4, <1>6, <1>7

(* The job, the processing of archives, and what changes certificates      *)
LEMMA OtherTypes ==
  ASSUME CertTypes,
         \/ JobLook \/ JobDelete \/ NewCA
         \/ \E m \in Machine : Ages(m) \/ Revoke(m) \/ Trust(m)
         \/ \E c \in Id : Process(c)
  PROVE  CertTypes'
<1>0. MaxUpsets \in Nat /\ Id \subseteq Nat \ {0} /\ \A c \in Id : issued[c] \in Cert
  BY CertificatesAssumption, IdIsNat DEF CertTypes
<1>1. CASE JobLook
  <2>1. InUse \subseteq Id
    BY DEF InUse, Line, CertTypes, RowTypes
  <2> QED
    BY <1>1, <2>1 DEF JobLook, JobLooks, server, CertTypes, IssuedTypes, RowTypes, NameTypes, WaitTypes, TalkTypes,
                      WorldTypes, Id, Client, Request
<1>2. CASE JobDelete
  <2>1. RowTypes'
    <3> DEFINE old == {c \in DOMAIN row : PastNotAfter(c)} \ job.used
    <3>1. row' = row \/ row' = [c \in DOMAIN row \ old |-> row[c]]
      BY <1>2 DEF JobDelete
    <3>2. issued' = issued
      BY <1>2 DEF JobDelete
    <3> HIDE DEF old
    <3> QED
      BY <3>1, <3>2 DEF CertTypes, RowTypes, Id
  <2> QED
    BY <1>2, <2>1 DEF JobDelete, CertTypes, IssuedTypes, NameTypes, WaitTypes, TalkTypes, WorldTypes, Id, Client, Request
<1>3. ASSUME IssuedTypes', Id' = Id, upsets' \in 0 .. MaxUpsets,
             UNCHANGED <<row, host, files, queue, trusted, waiting, client, request, job, cut, late>>
      PROVE  CertTypes'
  BY <1>3 DEF CertTypes, RowTypes, NameTypes, WaitTypes, TalkTypes, WorldTypes, Client, Request
<1>4. CASE NewCA
  <2>1. issued' \in Seq(Cert) /\ Id' = Id
    <3>1. issued' \in [1 .. Len(issued) -> Cert]
      BY <1>0, <1>4 DEF NewCA, CertTypes, IssuedTypes, Id, Cert, Age
    <3> QED
      BY <3>1 DEF CertTypes, IssuedTypes, Id
  <2> QED
    BY <1>0, <1>3, <1>4, <2>1 DEF NewCA, Upset, CertTypes, IssuedTypes, WorldTypes
<1>5. ASSUME NEW m \in Machine, Ages(m)
      PROVE  CertTypes'
  <2> DEFINE c == client[m].cert
             x == [issued[c] EXCEPT !.age = IF @ = "fresh" THEN "due" ELSE "expired"]
  <2>0. c \in Id /\ c \in 1 .. Len(issued) /\ issued' = [issued EXCEPT ![c] = x]
    BY <1>5 DEF Ages, CertTypes, IssuedTypes, TalkTypes, Client, Id
  <2>a. x \in Cert
    BY <1>0, <2>0 DEF Cert, Age
  <2>1. issued' \in Seq(Cert) /\ Id' = Id
    <3> HIDE DEF x, c
    <3> QED
      BY <2>0, <2>a, ExceptSeq DEF CertTypes, IssuedTypes, Id
  <2> QED
    BY <1>0, <1>3, <1>5, <2>1 DEF Ages, Upset, CertTypes, IssuedTypes, WorldTypes
<1>6. ASSUME NEW m \in Machine, Revoke(m)
      PROVE  CertTypes'
  <2>1. RowTypes'
    BY <1>0, <1>6 DEF Revoke, CertTypes, RowTypes, Row, Id
  <2> QED
    BY <1>0, <1>6, <2>1 DEF Revoke, Upset, CertTypes, IssuedTypes, NameTypes, WaitTypes, TalkTypes, WorldTypes, Id,
                            Client, Request
<1>7. ASSUME NEW m \in Machine, Trust(m)
      PROVE  CertTypes'
  BY <1>0, <1>7 DEF Trust, Upset, CertTypes, IssuedTypes, RowTypes, NameTypes, WaitTypes, TalkTypes, WorldTypes, Id,
                    Client, Request
<1>8. ASSUME NEW c \in Id, Process(c)
      PROVE  CertTypes'
  <2>1. NameTypes'
    <3>1. DOMAIN host' \subseteq Id /\ host' \in [DOMAIN host' -> Names] /\ queue' \subseteq Id /\ Id' = Id
      BY <1>8 DEF Process, CertTypes, NameTypes, Names, Id
    <3>2. files' \subseteq [certfp : Id, original : Id \cup {None}]
      BY <1>8 DEF Process, CertTypes, NameTypes
    <3> QED
      BY <3>1, <3>2 DEF NameTypes
  <2> QED
    BY <1>8, <2>1 DEF Process, world, CertTypes, IssuedTypes, RowTypes, WaitTypes, TalkTypes, WorldTypes, Id, Client,
                      Request
<1> QED
  BY <1>1, <1>2, <1>4, <1>5, <1>6, <1>7, <1>8

LEMMA CertTypesStep ==
  ASSUME CertTypes, [Next]_vars
  PROVE  CertTypes'
<1>1. CASE UNCHANGED vars
  BY <1>1 DEF vars, CertTypes, IssuedTypes, RowTypes, NameTypes, WaitTypes, TalkTypes, WorldTypes, Id, Client, Request
<1> QED
  BY <1>1, ClientTypes, ServeTypes, AdminTypes, OtherTypes DEF Next

-----------------------------------------------------------------------------
(* What is in use.                                                         *)

(* The certificates that the tables refer to by their fingerprints         *)
Named == DOMAIN host \cup {f.certfp : f \in files}

(* Nothing that is queued or named loses its row.  A certificate that      *)
(* waits in the queue has not expired.  What came to be named after the    *)
(* job looked is not past its date (the text of a new certificate gives    *)
(* none), or there is a file that makes the deletion fail.                 *)
InUseInv ==
    /\ Named \subseteq DOMAIN row
    /\ \A f \in files : f.original \in DOMAIN row \cup {None}
    /\ \A c \in queue : c \in DOMAIN row /\ issued[c].age # "expired"
    /\ job.pc = "delete" =>
         \A c \in Named : \/ c \in job.used \/ issued[c].text = "go"
                          \/ [certfp |-> c, original |-> c] \in files

LEMMA InUseStart ==
  ASSUME Init
  PROVE  InUseInv
<1>1. queue = {} /\ job.pc = "idle"
  BY DEF Init
<1>2. Named \subseteq DOMAIN row /\ \A f \in files : f.original \in DOMAIN row \cup {None}
  <2>1. CASE issued = <<>> /\ row = <<>> /\ host = <<>> /\ files = {}
    BY <2>1 DEF Named
  <2>2. ASSUME row = [c \in {1, 2} |-> [previous |-> c - 1, first |-> 1, revoked |-> FALSE]],
               NEW known \in SUBSET {2}, host = [c \in known |-> OsName],
               files = {[certfp |-> c, original |-> 1] : c \in known}
        PROVE  Named \subseteq DOMAIN row /\ \A f \in files : f.original \in DOMAIN row \cup {None}
    <3>1. DOMAIN row = {1, 2} /\ DOMAIN host = known
      BY <2>2
    <3>2. \A f \in files : f.certfp \in known /\ f.original = 1
      BY <2>2
    <3> QED
      BY <3>1, <3>2 DEF Named
  <2> QED
    BY <2>1, <2>2 DEF Init
<1> QED
  BY <1>1, <1>2 DEF InUseInv

(* Steps that name nothing new and delete nothing                          *)
LEMMA InUseKeeps ==
  ASSUME CertTypes, InUseInv, UNCHANGED <<queue, job, files>>, DOMAIN host' \subseteq DOMAIN host,
         DOMAIN row \subseteq DOMAIN row',
         \A c \in Id : /\ issued'[c].text = issued[c].text
                       /\ c \in queue /\ issued[c].age # "expired" => issued'[c].age # "expired"
  PROVE  InUseInv'
<1>1. Named' \subseteq Named
  BY DEF Named
<1>2. Named \subseteq Id /\ queue \subseteq Id
  BY DEF Named, CertTypes, NameTypes
<1> QED
  BY <1>1, <1>2 DEF InUseInv

LEMMA RenewInUse ==
  ASSUME CertTypes, InUseInv, NEW m \in Machine, NEW s \in Slot, RenewCommit(m, s)
  PROVE  InUseInv'
<1> DEFINE r == request[m][s]
           x == [by |-> m, age |-> "fresh", cn |-> r.cn, text |-> "go"]
<1>0. r \in Request /\ r.pc = "commit" /\ r.cert \in Id /\ r.cn \in Name
  BY RequestTypes DEF RenewCommit, Renewed, CertTypes, TalkTypes
<1>1. issued' = Append(issued, x) /\ x \in Cert
  BY <1>0 DEF RenewCommit, Renewed, Cert, Age
<1>2. /\ New \notin Id /\ issued'[New] = x /\ \A c \in Id : issued'[c] = issued[c]
      /\ \A c \in Id : c # New
  BY <1>1, Issuing, IdIsNat DEF CertTypes
<1>3. /\ DOMAIN row' = DOMAIN row \cup {New}
      /\ host' = Moved(r.cert) /\ UNCHANGED <<queue, job>>
      /\ files' = {IF f.certfp = r.cert THEN [f EXCEPT !.certfp = New] ELSE f : f \in files}
  BY DEF RenewCommit, Renewed
<1>4. DOMAIN host' \subseteq (DOMAIN host \ {r.cert}) \cup {New}
  BY <1>3 DEF Moved
<1>5. \A f \in files' : \/ f \in files /\ f.certfp # r.cert
                        \/ f.certfp = New /\ \E g \in files : f.original = g.original
  BY <1>3 DEF CertTypes, NameTypes
<1>6. Named' \subseteq (Named \ {r.cert}) \cup {New}
  BY <1>4, <1>5 DEF Named
<1>7. \A c \in Id \ {r.cert} : [certfp |-> c, original |-> c] \in files
                               => [certfp |-> c, original |-> c] \in files'
  BY <1>3
<1>8. \A f \in files' : f.original \in DOMAIN row' \cup {None}
  BY <1>3, <1>5 DEF InUseInv
<1>9. \A c \in queue' : c \in DOMAIN row' /\ issued'[c].age # "expired"
  BY <1>2, <1>3 DEF InUseInv, CertTypes, NameTypes
<1>10. ASSUME job'.pc = "delete", NEW c \in Named'
       PROVE  \/ c \in job'.used \/ issued'[c].text = "go"
              \/ [certfp |-> c, original |-> c] \in files'
  <2>1. CASE c = New
    BY <1>2, <2>1
  <2>2. CASE c # New
    <3>1. c \in Named /\ c \in Id /\ c # r.cert
      BY <1>6, <2>2 DEF Named, CertTypes, NameTypes
    <3> QED
      BY <1>2, <1>3, <1>7, <1>10, <3>1 DEF InUseInv
  <2> QED
    BY <2>1, <2>2
<1> QED
  BY <1>3, <1>6, <1>8, <1>9, <1>10 DEF InUseInv

LEMMA DeleteInUse ==
  ASSUME CertTypes, InUseInv, JobDelete
  PROVE  InUseInv' /\ \A c \in DOMAIN row \ DOMAIN row' : issued[c].text = "openssl"
<1> DEFINE old == {c \in DOMAIN row : PastNotAfter(c)} \ job.used
<1>1. /\ job.pc = "delete" /\ job'.pc = "idle" /\ UNCHANGED <<issued, host, files, queue>>
      /\ \/ row' = row
         \/ row' = [c \in DOMAIN row \ old |-> row[c]] /\ ~\E f \in files : f.original \in old
  BY DEF JobDelete
<1>2. Named' = Named
  BY <1>1 DEF Named
<1>3. \A c \in queue : c \notin old
  BY DEF InUseInv, PastNotAfter
<1>4. ASSUME ~\E f \in files : f.original \in old
      PROVE  \A c \in Named : c \notin old
  BY <1>1, <1>4 DEF InUseInv, PastNotAfter
<1>5. \A c \in old : issued[c].text = "openssl"
  BY DEF PastNotAfter
<1> HIDE DEF old
<1> QED
  BY <1>1, <1>2, <1>3, <1>4, <1>5 DEF InUseInv

LEMMA ProcessInUse ==
  ASSUME CertTypes, InUseInv, NEW c \in Id, Process(c)
  PROVE  InUseInv'
<1>1. /\ c \in queue /\ queue' = queue \ {c} /\ DOMAIN host' = DOMAIN host \cup {c}
      /\ UNCHANGED <<issued, row, job>>
  BY DEF Process, world
<1>2. c \in DOMAIN row
  BY <1>1 DEF InUseInv
<1>3. CASE files' = files /\ \E f \in files : f.certfp = c
  <2>1. Named' = Named
    BY <1>1, <1>3 DEF Named
  <2> QED
    BY <1>1, <1>3, <2>1 DEF InUseInv
<1>4. CASE files' = files \cup {[certfp |-> c, original |-> c]}
  <2>1. Named' = Named \cup {c}
    BY <1>1, <1>4 DEF Named
  <2>2. \A f \in files' : f.original \in DOMAIN row' \cup {None}
    BY <1>1, <1>2, <1>4 DEF InUseInv
  <2>3. \A d \in queue' : d \in DOMAIN row' /\ issued'[d].age # "expired"
    BY <1>1 DEF InUseInv
  <2>4. job'.pc = "delete" =>
          \A d \in Named' : \/ d \in job'.used \/ issued'[d].text = "go"
                            \/ [certfp |-> d, original |-> d] \in files'
    BY <1>1, <1>4, <2>1 DEF InUseInv
  <2> QED
    BY <1>1, <1>2, <2>1, <2>2, <2>3, <2>4 DEF InUseInv
<1> QED
  BY <1>1, <1>2, <1>3, <1>4 DEF Process

LEMMA InUseStep ==
  ASSUME CertTypes, InUseInv, [Next]_vars
  PROVE  InUseInv'
<1>a. IssuedTypes
  BY DEF CertTypes
<1>1. ASSUME UNCHANGED <<issued, row, host, files, queue, job>>
      PROVE  InUseInv'
  BY <1>1 DEF InUseInv, Named
<1>2. ASSUME NEW m \in Machine, ClientPosts(m)
      PROVE  InUseInv'
  BY <1>2 DEF ClientPosts, Accepts, world, InUseInv, Named
<1>3. ASSUME NEW m \in Machine, ClientRenews(m) \/ ClientRequests(m) \/ ClientMisses(m) \/ Trust(m)
                                \/ ApproveInAdvance(m)
      PROVE  InUseInv'
  BY <1>1, <1>3 DEF ClientRenews, ClientRequests, ClientMisses, Trust, ApproveInAdvance, world, server
<1>4. ASSUME NEW w \in DOMAIN waiting, Approve(w) \/ Withdraw(w)
      PROVE  InUseInv'
  BY <1>1, <1>4 DEF Approve, Withdraw, world
<1>5. ASSUME NEW m \in Machine, NEW s \in Slot, NEW n, Issue(m, s, n)
      PROVE  InUseInv'
  <2>1. /\ issued' = Append(issued, [by |-> m, age |-> "fresh", cn |-> n, text |-> "go"])
        /\ DOMAIN row' = DOMAIN row \cup {New} /\ UNCHANGED <<host, files, queue, job>>
    BY <1>5 DEF Issue, world
  <2>2. \A c \in Id : issued'[c] = issued[c]
    BY <1>a, <2>1 DEF IssuedTypes, Id
  <2> QED
    BY <2>1, <2>2, InUseKeeps
<1>6. ASSUME NEW m \in Machine, NEW s \in Slot,
             ReqCertTrusted(m, s) \/ ReqCertApproved(m, s)
      PROVE  InUseInv'
  BY <1>5, <1>6 DEF ReqCertTrusted, ReqCertApproved
<1>7. ASSUME NEW m \in Machine, NEW s \in Slot,
             ReqCertBePatient(m, s) \/ ReqCertUnknown(m, s) \/ ReqCertAdd(m, s)
             \/ RenewCheck(m, s) \/ RenewCheckNoName(m, s) \/ RequestFails(m, s)
      PROVE  InUseInv'
  BY <1>1, <1>7 DEF ReqCertBePatient, ReqCertUnknown, ReqCertAdd, RenewCheck, RenewCheckNoName,
                   RequestFails, world
<1>8. ASSUME NEW c \in Id, RemoveHost(c)
      PROVE  InUseInv'
  <2>1. /\ UNCHANGED <<issued, row, queue, job>> /\ DOMAIN host' = DOMAIN host \ {c}
        /\ files' = files \/ files' = {f \in files : f.certfp # c}
    BY <1>8 DEF RemoveHost
  <2>2. CASE files' = files
    BY <2>1, <2>2, InUseKeeps
  <2>3. CASE files' = {f \in files : f.certfp # c}
    <3>1. Named' = Named \ {c}
      BY <2>1, <2>3 DEF Named
    <3>2. \A d \in Named' : [certfp |-> d, original |-> d] \in files
                            => [certfp |-> d, original |-> d] \in files'
      BY <2>3, <3>1
    <3> QED
      BY <2>1, <2>3, <3>1, <3>2 DEF InUseInv
  <2> QED
    BY <2>1, <2>2, <2>3
<1>9. ASSUME NEW c \in Id, NEW n \in Name, Rename(c, n)
      PROVE  InUseInv'
  <2>1. UNCHANGED <<issued, row, files, queue, job>> /\ DOMAIN host' = DOMAIN host
    BY <1>9 DEF Rename
  <2> QED
    BY <2>1, InUseKeeps
<1>10. ASSUME NEW m \in Machine, Ages(m)
       PROVE  InUseInv'
  <2>1. UNCHANGED <<row, host, files, queue, job>> /\ client[m].cert \notin queue
        /\ \A c \in Id : /\ issued'[c].text = issued[c].text
                         /\ c # client[m].cert => issued'[c] = issued[c]
    BY <1>a, <1>10 DEF Ages, IssuedTypes, Id, Cert
  <2> QED
    BY <2>1, InUseKeeps
<1>11. CASE NewCA
  <2>1. UNCHANGED <<row, host, files, queue, job>>
        /\ \A c \in Id : /\ issued'[c].text = issued[c].text
                         /\ issued[c].age # "expired" => issued'[c].age # "expired"
    BY <1>a, <1>11, IdIsNat DEF NewCA, Cert
  <2> QED
    BY <2>1, InUseKeeps
<1>12. ASSUME NEW m \in Machine, Revoke(m)
       PROVE  InUseInv'
  BY <1>12, InUseKeeps DEF Revoke
<1>13. CASE JobLook
  <2>1. job' = [pc |-> "delete", used |-> InUse] /\ UNCHANGED <<issued, row, host, files, queue>>
    BY <1>13 DEF JobLook, JobLooks, server
  <2>2. \A c \in DOMAIN row : c \in Line(c)
    BY DEF Line
  <2>3. Named \subseteq InUse
    BY <2>2 DEF Named, InUse, Refers, InUseInv
  <2> QED
    BY <2>1, <2>3 DEF InUseInv, Named
<1>14. CASE UNCHANGED vars
  BY <1>1, <1>14 DEF vars
<1> QED
  BY <1>2, <1>3, <1>4, <1>6, <1>7, <1>8, <1>9, <1>10, <1>11, <1>12, <1>13, <1>14,
     RenewInUse, DeleteInUse, ProcessInUse DEF Next, Run, Serve

-----------------------------------------------------------------------------
(* Whose the certificates are.                                             *)

(* A line of certificates belongs to one machine.  Only certificates that  *)
(* openssl described lose their rows, and all of those belong to one       *)
(* machine: the lines that go on from a lost row, which have no first, are *)
(* its.                                                                    *)
Lines ==
    /\ \A c \in Id \ DOMAIN row : issued[c].text = "openssl"
    /\ \A a, b \in Id : issued[a].text = "openssl" /\ issued[b].text = "openssl"
                          => issued[a].by = issued[b].by
    /\ \A c \in DOMAIN row : issued[c].text = "openssl" => row[c].first = 1
    /\ \A c \in DOMAIN row : row[c].first = None =>
         \E a \in Id : issued[a].text = "openssl" /\ issued[a].by = issued[c].by
    /\ \A a, b \in DOMAIN row : row[a].first = row[b].first => issued[a].by = issued[b].by

(* A machine has its own certificates, and so have its requests.           *)
Holders ==
    \A m \in Machine :
      /\ client[m].cert # None => issued[client[m].cert].by = m
      /\ \A s \in Slot : request[m][s].pc \in {"check", "commit"} => issued[request[m][s].cert].by = m

(* A machine that did not miss a reply has no request but the one that it  *)
(* waits for, which is about the certificate it has.  While that is one of *)
(* the old ones, the machine never had another kind.                       *)
InStep ==
    \A m \in Machine \ cut :
      /\ \A s \in Slot : request[m][s] # Free =>
           /\ client[m].on = s
           /\ request[m][s].pc \in {"check", "commit"} => request[m][s].cert = client[m].cert
      /\ client[m].cert # None /\ issued[client[m].cert].text = "openssl" =>
           \A c \in Id : issued[c].by = m => issued[c].text = "openssl"

(* ClientKeepsItsHost, for what is still queued, too                       *)
OneHost ==
    \A m \in Machine \ (cut \cup late) :
      \A h \in (DOMAIN host \cup queue) \cap DOMAIN row :
        LET c == client[m].cert
        IN c \in DOMAIN row /\ row[h].first = row[c].first => h = c

\* Nobody's certificates change hands, and no more are issued.
SameHands == /\ Id' = Id
             /\ \A c \in Id : issued'[c].by = issued[c].by /\ issued'[c].text = issued[c].text

LEMMA OwnersStart ==
  ASSUME Init
  PROVE  Lines /\ Holders /\ InStep /\ OneHost
<1>1. /\ \A m \in Machine, s \in Slot : request[m][s] = Free
      /\ queue = {}
      /\ \A m \in Machine : client[m].cert = IF \E c \in Id : issued[c].by = m THEN 2 ELSE None
  BY DEF Init
<1>2. CASE issued = <<>> /\ row = <<>> /\ host = <<>>
  <2>1. Id = {} /\ DOMAIN row = {}
    BY <1>2 DEF Id
  <2>2. \A m \in Machine : client[m].cert = None
    BY <1>1, <2>1
  <2> QED
    BY <1>1, <2>1, <2>2 DEF Lines, Holders, InStep, OneHost, Free
<1>3. ASSUME NEW m \in Machine, issued = <<Openssl(m, "expired"), Openssl(m, "fresh")>>,
             row = [c \in {1, 2} |-> [previous |-> c - 1, first |-> 1, revoked |-> FALSE]],
             NEW known \in SUBSET {2}, host = [c \in known |-> OsName]
      PROVE  Lines /\ Holders /\ InStep /\ OneHost
  <2>1. /\ Id = {1, 2} /\ \A c \in Id : issued[c].by = m /\ issued[c].text = "openssl"
        /\ DOMAIN row = {1, 2} /\ \A c \in {1, 2} : row[c].first = 1
        /\ DOMAIN host \subseteq {2}
    BY <1>3 DEF Id, Openssl
  <2>2. \A n \in Machine : client[n].cert = IF n = m THEN 2 ELSE None
    BY <1>1, <2>1
  <2>3. Lines
    BY <2>1 DEF Lines, None
  <2>4. Holders /\ InStep
    BY <1>1, <2>1, <2>2 DEF Holders, InStep, Free, None
  <2>5. OneHost
    BY <1>1, <2>1, <2>2 DEF OneHost, None
  <2> QED
    BY <2>3, <2>4, <2>5
<1> QED
  BY <1>2, <1>3 DEF Init

LEMMA LinesKeep ==
  ASSUME Lines, SameHands, DOMAIN row' \subseteq DOMAIN row, DOMAIN row \subseteq Id,
         \A c \in DOMAIN row \ DOMAIN row' : issued[c].text = "openssl",
         \A c \in DOMAIN row' : row'[c].first = row[c].first
  PROVE  Lines'
BY DEF Lines, SameHands

(* A new row begins a line, goes on with a line of the same machine, or    *)
(* goes on from a lost row of the same machine.                            *)
LEMMA LinesGrow ==
  ASSUME CertTypes, Lines, NEW x \in Cert, x.text = "go", issued' = Append(issued, x),
         DOMAIN row' = DOMAIN row \cup {New}, \A c \in DOMAIN row : row'[c] = row[c],
         \/ row'[New].first = New
         \/ \E b \in DOMAIN row : row'[New].first = row[b].first /\ issued[b].by = x.by
         \/ row'[New].first = None /\ \E a \in Id \ DOMAIN row : issued[a].by = x.by
  PROVE  Lines'
<1>1. /\ Id' = Id \cup {New} /\ New \notin Id /\ issued'[New] = x
      /\ \A c \in Id : issued'[c] = issued[c]
      /\ New # None /\ DOMAIN row \subseteq Id
      /\ \A c \in DOMAIN row : row[c].first # New
  <2>1. /\ Id' = Id \cup {New} /\ New \notin Id /\ New \in Nat \ {0} /\ issued'[New] = x
        /\ \A c \in Id : issued'[c] = issued[c] /\ c < New
    BY Issuing DEF CertTypes
  <2>2. DOMAIN row \subseteq Id /\ \A c \in DOMAIN row : row[c].first \in 0 .. c /\ c \in Nat
    BY IdIsNat DEF CertTypes, RowTypes
  <2>3. \A c \in DOMAIN row : row[c].first # New
    BY <2>1, <2>2
  <2> QED
    BY <2>1, <2>2, <2>3 DEF None
<1>2. \A c \in Id' \ DOMAIN row' : issued'[c].text = "openssl"
  BY <1>1 DEF Lines
<1>3. \A a, b \in Id' : issued'[a].text = "openssl" /\ issued'[b].text = "openssl"
                          => issued'[a].by = issued'[b].by
  <2>1. \A a, b \in Id : issued[a].text = "openssl" /\ issued[b].text = "openssl"
                          => issued[a].by = issued[b].by
    BY DEF Lines
  <2>2. \A a \in Id' : issued'[a].text = "openssl" => a \in Id /\ issued'[a] = issued[a]
    BY <1>1
  <2> SUFFICES ASSUME NEW a \in Id', NEW b \in Id', issued'[a].text = "openssl", issued'[b].text = "openssl"
               PROVE  issued'[a].by = issued'[b].by
    OBVIOUS
  <2>3. a \in Id /\ b \in Id /\ issued'[a] = issued[a] /\ issued'[b] = issued[b]
    BY <2>2
  <2> QED
    BY <2>1, <2>3
<1>a. \A c \in DOMAIN row : row'[c] = row[c] /\ issued'[c] = issued[c]
  BY <1>1
<1>4. ASSUME NEW c \in DOMAIN row', issued'[c].text = "openssl"
      PROVE  row'[c].first = 1
  <2>1. c \in DOMAIN row /\ row'[c] = row[c] /\ issued'[c] = issued[c]
    BY <1>1, <1>4, <1>a
  <2>2. issued[c].text = "openssl"
    BY <1>4, <2>1
  <2> QED
    BY <2>1, <2>2 DEF Lines
<1>5. ASSUME NEW c \in DOMAIN row', row'[c].first = None
      PROVE  \E a \in Id' : issued'[a].text = "openssl" /\ issued'[a].by = issued'[c].by
  <2>1. CASE c # New
    <3>1. PICK a \in Id : issued[a].text = "openssl" /\ issued[a].by = issued[c].by
      BY <1>5, <2>1 DEF Lines
    <3> QED
      BY <1>1, <2>1, <3>1
  <2>2. CASE c = New
    <3>1. CASE \E b \in DOMAIN row : row'[New].first = row[b].first /\ issued[b].by = x.by
      <4>1. PICK b \in DOMAIN row : row[b].first = None /\ issued[b].by = x.by
        BY <1>5, <2>2, <3>1
      <4>2. PICK a \in Id : issued[a].text = "openssl" /\ issued[a].by = issued[b].by
        BY <4>1 DEF Lines
      <4> QED
        BY <1>1, <2>2, <4>1, <4>2
    <3>2. CASE \E a \in Id \ DOMAIN row : issued[a].by = x.by
      BY <1>1, <2>2, <3>2 DEF Lines
    <3> QED
      BY <1>1, <1>5, <2>2, <3>1, <3>2
  <2> QED
    BY <2>1, <2>2
<1>6. ASSUME NEW b \in DOMAIN row, row[b].first = row'[New].first
      PROVE  issued[b].by = x.by
  <2>1. CASE \E d \in DOMAIN row : row'[New].first = row[d].first /\ issued[d].by = x.by
    BY <1>6, <2>1 DEF Lines
  <2>2. CASE row'[New].first = None /\ \E a \in Id \ DOMAIN row : issued[a].by = x.by
    <3>1. PICK a \in Id \ DOMAIN row : issued[a].by = x.by
      BY <2>2
    <3>2. issued[a].text = "openssl"
      BY <3>1 DEF Lines
    <3>3. PICK d \in Id : issued[d].text = "openssl" /\ issued[d].by = issued[b].by
      BY <1>6, <2>2 DEF Lines
    <3>4. issued[a].by = issued[d].by
      BY <3>2, <3>3 DEF Lines
    <3> QED
      BY <3>1, <3>3, <3>4
  <2> QED
    BY <1>1, <1>6, <2>1, <2>2
<1>7. \A a, b \in DOMAIN row' : row'[a].first = row'[b].first => issued'[a].by = issued'[b].by
  <2> SUFFICES ASSUME NEW a \in DOMAIN row', NEW b \in DOMAIN row', row'[a].first = row'[b].first
               PROVE  issued'[a].by = issued'[b].by
    OBVIOUS
  <2>1. CASE a \in DOMAIN row /\ b \in DOMAIN row
    <3>1. row[a].first = row[b].first
      BY <1>a, <2>1
    <3>2. issued[a].by = issued[b].by
      BY <2>1, <3>1 DEF Lines
    <3> QED
      BY <1>a, <2>1, <3>2
  <2>2. CASE a = New /\ b \in DOMAIN row
    BY <1>1, <1>6, <2>2
  <2>3. CASE a \in DOMAIN row /\ b = New
    BY <1>1, <1>6, <2>3
  <2>4. CASE a = New /\ b = New
    BY <2>4
  <2> QED
    BY <2>1, <2>2, <2>3, <2>4
<1> QED
  BY <1>2, <1>3, <1>4, <1>5, <1>7 DEF Lines

(* The client has what it had; its requests are what they were, or have no *)
(* certificate.                                                            *)
LEMMA HoldersKeep ==
  ASSUME CertTypes, Holders, \A c \in Id : issued'[c].by = issued[c].by,
         \A m \in Machine : client'[m].cert = client[m].cert,
         \A m \in Machine, s \in Slot :
           \/ request'[m][s].pc \notin {"check", "commit"}
           \/ request'[m][s] = request[m][s]
           \/ client[m].cert # None /\ request'[m][s].cert = client[m].cert
           \/ request[m][s].pc \in {"check", "commit"} /\ request'[m][s].cert = request[m][s].cert
  PROVE  Holders'
<1>1. \A m \in Machine : client[m].cert \in Id \cup {None}
  BY DEF CertTypes, TalkTypes, Client
<1>2. \A m \in Machine, s \in Slot : request[m][s].pc \in {"check", "commit"} => request[m][s].cert \in Id
  BY RequestTypes DEF CertTypes, TalkTypes
<1>3. ASSUME NEW m \in Machine, client'[m].cert # None
      PROVE  issued'[client'[m].cert].by = m
  BY <1>1, <1>3 DEF Holders
<1>4. ASSUME NEW m \in Machine, NEW s \in Slot, request'[m][s].pc \in {"check", "commit"}
      PROVE  issued'[request'[m][s].cert].by = m
  <2>1. CASE request'[m][s] = request[m][s]
    BY <1>2, <1>4, <2>1 DEF Holders
  <2>2. CASE client[m].cert # None /\ request'[m][s].cert = client[m].cert
    BY <1>1, <1>4, <2>2 DEF Holders
  <2>3. CASE request[m][s].pc \in {"check", "commit"} /\ request'[m][s].cert = request[m][s].cert
    BY <1>2, <1>4, <2>3 DEF Holders
  <2> QED
    BY <1>4, <2>1, <2>2, <2>3
<1> QED
  BY <1>3, <1>4 DEF Holders

(* After a reply, a client may have a certificate that was made for it.    *)
LEMMA HoldersReply ==
  ASSUME CertTypes, Holders, \A c \in Id : issued'[c].by = issued[c].by,
         NEW m \in Machine, NEW s \in Slot, NEW c, c = None \/ issued'[c].by = m, AfterReply(m, s, c)
  PROVE  Holders'
<1>1. \A n \in Machine : client[n].cert \in Id \cup {None}
  BY DEF CertTypes, TalkTypes, Client
<1>2. \A n \in Machine, t \in Slot : request[n][t].pc \in {"check", "commit"} => request[n][t].cert \in Id
  BY RequestTypes DEF CertTypes, TalkTypes
<1>3. \A n \in Machine : client'[n].cert \in {client[n].cert} \/ (n = m /\ c # None /\ client'[n].cert = c)
  BY DEF AfterReply, CertTypes, TalkTypes
<1>4. \A n \in Machine, t \in Slot : \/ request'[n][t] = request[n][t]
                                   \/ request'[n][t].pc \in {"free", "look"}
  BY DEF AfterReply, CertTypes, TalkTypes, Free
<1> QED
  BY <1>1, <1>2, <1>3, <1>4 DEF Holders

LEMMA InStepKeeps ==
  ASSUME CertTypes, InStep, SameHands, UNCHANGED <<client, request>>, cut \subseteq cut'
  PROVE  InStep'
<1>1. \A m \in Machine : client[m].cert \in Id \cup {None}
  BY DEF CertTypes, TalkTypes, Client
<1> QED
  BY <1>1 DEF InStep, SameHands

LEMMA InStepSends ==
  ASSUME CertTypes, InStep, SameHands, UNCHANGED cut, NEW m \in Machine, NEW r, client[m].on = None,
         r.pc \in {"check", "commit"} => r.cert = client[m].cert, Sends(m, r)
  PROVE  InStep'
<1>1. PICK s \in Slot : /\ request' = [request EXCEPT ![m] = [@ EXCEPT ![s] = r]]
                        /\ client' = [client EXCEPT ![m] = [@ EXCEPT !.on = s]]
  BY DEF Sends
<1>2. /\ \A n \in Machine \ {m} : client'[n] = client[n] /\ request'[n] = request[n]
      /\ client'[m].on = s /\ client'[m].cert = client[m].cert
      /\ request'[m][s] = r /\ \A t \in Slot \ {s} : request'[m][t] = request[m][t]
  BY <1>1 DEF CertTypes, TalkTypes, Client
<1>3. \A n \in Machine : client[n].cert \in Id \cup {None}
  BY DEF CertTypes, TalkTypes, Client
<1>4. m \notin cut => \A t \in Slot : request[m][t] = Free
  BY DEF InStep, Slot, None
<1>5. ASSUME NEW n \in Machine \ cut, NEW t \in Slot, request'[n][t] # Free
      PROVE  /\ client'[n].on = t
             /\ request'[n][t].pc \in {"check", "commit"} => request'[n][t].cert = client'[n].cert
  BY <1>2, <1>4, <1>5 DEF InStep
<1>6. ASSUME NEW n \in Machine \ cut, client'[n].cert # None, issued'[client'[n].cert].text = "openssl",
             NEW c \in Id', issued'[c].by = n
      PROVE  issued'[c].text = "openssl"
  <2>1. client'[n].cert = client[n].cert
    BY <1>2
  <2> QED
    BY <1>3, <1>6, <2>1 DEF InStep, SameHands
<1> QED
  BY <1>5, <1>6 DEF InStep

LEMMA InStepGoesOn ==
  ASSUME CertTypes, InStep, SameHands, UNCHANGED <<client, cut>>, NEW m \in Machine, NEW s \in Slot, NEW r,
         request[m][s] # Free,
         r.pc \in {"check", "commit"} => /\ request[m][s].pc \in {"check", "commit"}
                                         /\ r.cert = request[m][s].cert,
         request' = [request EXCEPT ![m] = [@ EXCEPT ![s] = r]]
  PROVE  InStep'
<1>1. /\ \A n \in Machine, t \in Slot : n # m \/ t # s => request'[n][t] = request[n][t]
      /\ request'[m][s] = r
  BY DEF CertTypes, TalkTypes
<1>2. \A n \in Machine : client[n].cert \in Id \cup {None}
  BY DEF CertTypes, TalkTypes, Client
<1> QED
  BY <1>1, <1>2 DEF InStep, SameHands

LEMMA InStepReply ==
  ASSUME CertTypes, InStep, UNCHANGED cut, NEW m \in Machine, NEW s \in Slot, NEW c,
         request[m][s] # Free, AfterReply(m, s, c), \A d \in Id : issued'[d] = issued[d],
         \/ c = None /\ Id' = Id
         \/ c # None /\ Id' = Id \cup {c} /\ issued'[c].by = m /\ issued'[c].text = "go"
  PROVE  InStep'
<1>1. \A n \in Machine \ {m} : client'[n] = client[n] /\ request'[n] = request[n]
  BY DEF AfterReply, CertTypes, TalkTypes
<1>2. \A n \in Machine : client[n].cert \in Id \cup {None}
  BY DEF CertTypes, TalkTypes, Client
<1>3. ASSUME NEW n \in Machine \ cut, n # m
      PROVE  /\ \A t \in Slot : request'[n][t] # Free =>
                  /\ client'[n].on = t
                  /\ request'[n][t].pc \in {"check", "commit"} => request'[n][t].cert = client'[n].cert
             /\ client'[n].cert # None /\ issued'[client'[n].cert].text = "openssl" =>
                  \A d \in Id' : issued'[d].by = n => issued'[d].text = "openssl"
  BY <1>1, <1>2, <1>3 DEF InStep
<1>4. ASSUME m \notin cut
      PROVE  /\ \A t \in Slot : request'[m][t] # Free =>
                  /\ client'[m].on = t
                  /\ request'[m][t].pc \in {"check", "commit"} => request'[m][t].cert = client'[m].cert
             /\ client'[m].cert # None /\ issued'[client'[m].cert].text = "openssl" =>
                  \A d \in Id' : issued'[d].by = m => issued'[d].text = "openssl"
  <2>1. client[m].on = s /\ \A t \in Slot \ {s} : request[m][t] = Free
    BY <1>4 DEF InStep
  <2>2. CASE c = None /\ client' = client /\ request' = [request EXCEPT ![m] = [@ EXCEPT ![s] = [pc |-> "look"]]]
    <3>1. /\ request'[m][s].pc = "look" /\ \A t \in Slot \ {s} : request'[m][t] = Free
      BY <2>1, <2>2 DEF CertTypes, TalkTypes
    <3> QED
      BY <1>2, <1>4, <2>1, <2>2, <3>1 DEF InStep
  <2>3. CASE /\ client' = [client EXCEPT ![m] = [cert |-> IF c = None THEN client[m].cert ELSE c, on |-> None]]
             /\ request' = [request EXCEPT ![m] = [@ EXCEPT ![s] = Free]]
    <3>1. /\ \A t \in Slot : request'[m][t] = Free
          /\ client'[m].cert = IF c = None THEN client[m].cert ELSE c
      BY <2>1, <2>3 DEF CertTypes, TalkTypes
    <3>2. CASE c = None
      BY <1>2, <1>4, <3>1, <3>2 DEF InStep
    <3>3. CASE c # None
      BY <3>1, <3>3
    <3> QED
      BY <3>2, <3>3
  <2> QED
    BY <2>1, <2>2, <2>3 DEF AfterReply
<1> QED
  BY <1>3, <1>4 DEF InStep

LEMMA OneHostKeeps ==
  ASSUME OneHost, (DOMAIN host' \cup queue') \cap DOMAIN row' \subseteq (DOMAIN host \cup queue) \cap DOMAIN row,
         DOMAIN row' \subseteq DOMAIN row, \A c \in DOMAIN row' : row'[c].first = row[c].first,
         \A m \in Machine : client'[m].cert = client[m].cert, cut \subseteq cut', late \subseteq late'
  PROVE  OneHost'
BY DEF OneHost

LEMMA IssueOwners ==
  ASSUME CertTypes, InUseInv, Lines, Holders, InStep, OneHost,
         NEW m \in Machine, NEW s \in Slot, NEW n \in Name, request[m][s] # Free, Issue(m, s, n)
  PROVE  Lines' /\ Holders' /\ InStep' /\ OneHost'
<1> DEFINE x == [by |-> m, age |-> "fresh", cn |-> n, text |-> "go"]
<1>1. issued' = Append(issued, x) /\ x \in Cert
  BY DEF Issue, Cert, Age
<1>2. /\ Id' = Id \cup {New} /\ New \notin Id /\ New # None
      /\ issued'[New] = x /\ \A c \in Id : issued'[c] = issued[c] /\ c < New
      /\ Id \subseteq Nat \ {0} /\ New \in Nat \ {0}
  BY <1>1, Issuing, IdIsNat DEF CertTypes, None
<1>3. /\ DOMAIN row' = DOMAIN row \cup {New} /\ row'[New].first = New
      /\ \A c \in DOMAIN row : row'[c] = row[c]
      /\ UNCHANGED <<host, queue, cut, late>>
  BY <1>2 DEF Issue, world, CertTypes, RowTypes
<1>4. AfterReply(m, s, New)
  BY ReplyIs DEF Issue, CertTypes
<1>5. Lines'
  BY <1>1, <1>3, LinesGrow
<1>6. Holders'
  BY <1>2, <1>4, HoldersReply
<1>7. InStep'
  BY <1>2, <1>3, <1>4, InStepReply
<1>8. OneHost'
  <2>1. \A c \in DOMAIN row : row[c].first # New /\ c # New
    <3> TAKE c \in DOMAIN row
    <3>1. row[c].first \in 0 .. c /\ c \in Id
      BY DEF CertTypes, RowTypes
    <3>2. c \in Nat /\ c < New
      BY <1>2, <3>1
    <3> QED
      BY <1>2, <3>1, <3>2
  <2>2. (DOMAIN host \cup queue) \cap DOMAIN row' \subseteq DOMAIN row
    BY <1>2, <1>3 DEF CertTypes, NameTypes
  <2>3. \A k \in Machine : client'[k].cert = client[k].cert \/ client'[k].cert = New
    BY <1>4 DEF AfterReply, CertTypes, TalkTypes
  <2> QED
    BY <1>2, <1>3, <2>1, <2>2, <2>3 DEF OneHost
<1> QED
  BY <1>5, <1>6, <1>7, <1>8

(* The host goes with the certificate that is renewed.  What would be left *)
(* behind under the same line is still in the queue.                       *)
LEMMA RenewOwners ==
  ASSUME CertTypes, InUseInv, Lines, Holders, InStep, OneHost,
         NEW m \in Machine, NEW s \in Slot, RenewCommit(m, s)
  PROVE  Lines' /\ Holders' /\ InStep' /\ OneHost'
<1> DEFINE r == request[m][s]
           o == r.cert
           x == [by |-> m, age |-> "fresh", cn |-> r.cn, text |-> "go"]
           new == [previous |-> IF o \in DOMAIN row THEN o ELSE None,
                   first |-> IF o \in DOMAIN row THEN row[o].first ELSE None, revoked |-> FALSE]
<1>0. r \in Request /\ r.pc = "commit" /\ r # Free /\ o \in Id /\ r.cn \in Name
  BY RequestTypes DEF RenewCommit, Renewed, CertTypes, TalkTypes, Free
<1>1. issued' = Append(issued, x) /\ x \in Cert
  BY <1>0 DEF RenewCommit, Renewed, Cert, Age
<1>2. /\ Id' = Id \cup {New} /\ New \notin Id /\ New # None
      /\ issued'[New] = x /\ \A c \in Id : issued'[c] = issued[c] /\ c < New
      /\ Id \subseteq Nat \ {0} /\ New \in Nat \ {0}
  BY <1>1, Issuing, IdIsNat DEF CertTypes, None
<1>3. /\ DOMAIN row' = DOMAIN row \cup {New}
      /\ row'[New] = new /\ \A c \in DOMAIN row : row'[c] = row[c]
      /\ host' = Moved(o) /\ UNCHANGED <<queue, cut>>
      /\ late' = IF o \in queue THEN late \cup {m} ELSE late
  BY <1>2 DEF RenewCommit, Renewed, CertTypes, RowTypes
<1>4. AfterReply(m, s, New)
  BY ReplyIs DEF RenewCommit, Renewed, CertTypes
<1>5. issued[o].by = m
  BY <1>0 DEF Holders
<1>6. new.first = IF o \in DOMAIN row THEN row[o].first ELSE None
  OBVIOUS
<1>7. Lines'
  <2>1. CASE o \in DOMAIN row
    BY <1>1, <1>3, <1>5, <1>6, <2>1, LinesGrow
  <2>2. CASE o \notin DOMAIN row
    BY <1>0, <1>1, <1>3, <1>5, <1>6, <2>2, LinesGrow
  <2> QED
    BY <2>1, <2>2
<1>8. Holders'
  <2>1. issued'[New].by = m /\ \A c \in Id : issued'[c].by = issued[c].by
    BY <1>2
  <2> QED
    BY <1>4, <2>1, HoldersReply
<1>9. InStep'
  BY <1>0, <1>2, <1>3, <1>4, InStepReply
<1>10. OneHost'
  <2> SUFFICES ASSUME NEW k \in Machine, k \notin cut', k \notin late',
                      NEW h \in (DOMAIN host' \cup queue') \cap DOMAIN row', client'[k].cert \in DOMAIN row',
                      row'[h].first = row'[client'[k].cert].first
               PROVE  h = client'[k].cert
    BY DEF OneHost
  <2>0. k \notin cut /\ k \notin late /\ (o \in queue => k # m)
    BY <1>3
  <2>1. /\ DOMAIN host' \subseteq (DOMAIN host \ {o}) \cup {New}
        /\ queue' \subseteq Id /\ DOMAIN row \subseteq Id /\ DOMAIN host \subseteq Id
    BY <1>3 DEF Moved, CertTypes, NameTypes, RowTypes
  <2>2. h # New => h \in (DOMAIN host \cup queue) \cap DOMAIN row
    BY <1>2, <1>3, <2>1
  <2>3. \A d \in DOMAIN row : row'[d] = row[d] /\ issued'[d] = issued[d]
    BY <1>2, <1>3, <2>1
  <2>4. CASE k # m
    <3>1. client'[k] = client[k] /\ client[k].cert # New
      BY <1>2, <1>4, <2>4 DEF AfterReply, CertTypes, TalkTypes, Client
    <3>2. client[k].cert \in DOMAIN row /\ issued[client[k].cert].by = k
      BY <1>2, <1>3, <2>1, <3>1, IdIsNat DEF Holders, CertTypes, None
    <3>3. h # New
      <4> SUFFICES ASSUME h = New
                   PROVE  FALSE
        OBVIOUS
      <4>1. issued'[New].by = issued'[client[k].cert].by
        BY <1>3, <1>7, <3>1, <3>2 DEF Lines
      <4> QED
        BY <1>2, <2>3, <2>4, <3>2, <4>1
    <3>4. row[h].first = row[client[k].cert].first
      BY <2>2, <2>3, <3>1, <3>2, <3>3
    <3> QED
      BY <2>0, <2>2, <3>1, <3>2, <3>3, <3>4 DEF OneHost
  <2>5. CASE k = m
    <3>1. client[m].on = s /\ client[m].cert = o
      BY <1>0, <2>0, <2>5 DEF InStep
    <3>2. client'[m].cert = New
      BY <1>2, <1>4, <3>1 DEF AfterReply, CertTypes, TalkTypes
    <3>3. CASE h = New
      BY <2>5, <3>2, <3>3
    <3>4. CASE h # New /\ o \in DOMAIN row
      <4>1. row[h].first = row[o].first
        BY <1>3, <1>6, <2>2, <2>3, <2>5, <3>2, <3>4
      <4>2. h = o
        BY <2>0, <2>2, <2>5, <3>1, <3>4, <4>1 DEF OneHost
      <4>3. h \notin DOMAIN host' /\ h \notin queue'
        BY <1>3, <2>0, <2>1, <2>5, <3>4, <4>2
      <4> QED
        BY <4>3
    <3>5. CASE h # New /\ o \notin DOMAIN row
      <4>1. row[h].first = None /\ h \in DOMAIN row
        BY <1>3, <1>6, <2>2, <2>3, <2>5, <3>2, <3>5
      <4>2. issued[o].text = "openssl"
        BY <1>0, <3>5 DEF Lines
      <4>3. PICK a \in Id : issued[a].text = "openssl" /\ issued[a].by = issued[h].by
        BY <4>1 DEF Lines
      <4>4. issued[h].by = m
        BY <1>0, <1>5, <4>2, <4>3 DEF Lines
      <4>5. o # None
        BY <1>0, <1>2 DEF None
      <4>6. issued[h].text = "openssl"
        BY <2>0, <2>1, <2>5, <3>1, <4>1, <4>2, <4>4, <4>5 DEF InStep
      <4>7. row[h].first = 1
        BY <4>1, <4>6 DEF Lines
      <4> QED
        BY <4>1, <4>7 DEF None
    <3> QED
      BY <3>3, <3>4, <3>5
  <2> QED
    BY <2>4, <2>5
<1> QED
  BY <1>7, <1>8, <1>9, <1>10

\* A request that is turned down
LEMMA RefusalOwners ==
  ASSUME CertTypes, Lines, Holders, InStep, OneHost, NEW m \in Machine, NEW s \in Slot,
         request[m][s] # Free, Replies(m, s, None), UNCHANGED <<issued, row, host, queue, cut, late>>
  PROVE  Lines' /\ Holders' /\ InStep' /\ OneHost'
<1>1. AfterReply(m, s, None)
  BY ReplyIs DEF CertTypes
<1>2. Id' = Id /\ SameHands
  BY DEF Id, SameHands
<1>3. Lines'
  BY <1>2, LinesKeep DEF CertTypes, RowTypes
<1>4. Holders'
  BY <1>1, <1>2, HoldersReply DEF SameHands
<1>5. InStep'
  BY <1>1, <1>2, InStepReply
<1>6. \A n \in Machine : client'[n].cert = client[n].cert
  BY <1>1 DEF AfterReply, CertTypes, TalkTypes
<1>7. OneHost'
  BY <1>6, OneHostKeeps
<1> QED
  BY <1>3, <1>4, <1>5, <1>7

(* Steps that change no certificate's owner, no client and no request      *)
LEMMA QuietOwners ==
  ASSUME CertTypes, Lines, Holders, InStep, OneHost, SameHands, UNCHANGED <<client, request, cut, late>>,
         DOMAIN row' \subseteq DOMAIN row, \A c \in DOMAIN row \ DOMAIN row' : issued[c].text = "openssl",
         \A c \in DOMAIN row' : row'[c].first = row[c].first,
         DOMAIN host' \cup queue' \subseteq DOMAIN host \cup queue
  PROVE  Lines' /\ Holders' /\ InStep' /\ OneHost'
<1>1. Lines'
  BY LinesKeep DEF CertTypes, RowTypes
<1>2. Holders'
  BY HoldersKeep DEF SameHands
<1>3. InStep'
  BY InStepKeeps
<1>4. OneHost'
  BY OneHostKeeps
<1> QED
  BY <1>1, <1>2, <1>3, <1>4

LEMMA ClientOwners ==
  ASSUME CertTypes, InUseInv, Lines, Holders, InStep, OneHost, NEW m \in Machine,
         Run(m) \/ ClientMisses(m)
  PROVE  Lines' /\ Holders' /\ InStep' /\ OneHost'
<1> DEFINE c == client[m].cert
<1>0. c \in Id \cup {None} /\ DOMAIN row \subseteq Id
  BY DEF CertTypes, TalkTypes, Client, RowTypes
<1>a. issued' = issued => Id' = Id /\ SameHands
  BY DEF Id, SameHands
<1>1. CASE ClientPosts(m)
  <2>1. /\ c \in DOMAIN row /\ c # None /\ queue' = queue \cup {c}
        /\ UNCHANGED <<issued, row, host, client, request, cut, late>>
    BY <1>1 DEF ClientPosts, Accepts, world
  <2>2. Lines' /\ Holders' /\ InStep'
    BY <1>0, <1>a, <2>1, LinesKeep, HoldersKeep, InStepKeeps DEF SameHands
  <2>3. OneHost'
    <3> SUFFICES ASSUME NEW k \in Machine \ (cut \cup late), client[k].cert \in DOMAIN row,
                        row[c].first = row[client[k].cert].first
                 PROVE  c = client[k].cert
      BY <2>1 DEF OneHost
    <3>1. issued[c].by = m
      BY <2>1 DEF Holders
    <3>2. issued[client[k].cert].by = k
      BY <1>0, IdIsNat DEF Holders, CertTypes
    <3>3. issued[c].by = issued[client[k].cert].by
      BY <2>1 DEF Lines
    <3> QED
      BY <3>1, <3>2, <3>3
  <2> QED
    BY <2>2, <2>3
<1>2. ASSUME NEW r, r.pc \in {"check", "commit"} => c # None /\ r.cert = c, client[m].on = None, Sends(m, r),
             UNCHANGED <<issued, row, host, queue, cut, late>>
      PROVE  Lines' /\ Holders' /\ InStep' /\ OneHost'
  <2>1. \A n \in Machine : client'[n].cert = client[n].cert
    BY <1>2 DEF Sends, CertTypes, TalkTypes, Client
  <2>2. \A n \in Machine, t \in Slot : request'[n][t] = request[n][t] \/ (n = m /\ request'[n][t] = r)
    BY <1>2 DEF Sends, CertTypes, TalkTypes
  <2>3. Lines'
    BY <1>0, <1>2, <1>a, LinesKeep
  <2>4. Holders'
    BY <1>2, <1>a, <2>1, <2>2, HoldersKeep DEF SameHands
  <2>5. InStep'
    BY <1>2, <1>a, InStepSends
  <2>6. OneHost'
    BY <1>2, <2>1, OneHostKeeps
  <2> QED
    BY <2>3, <2>4, <2>5, <2>6
<1>3. CASE ClientRenews(m)
  <2> DEFINE r == [pc |-> "check", cert |-> c]
  <2>1. /\ c # None /\ client[m].on = None /\ Sends(m, r)
        /\ UNCHANGED <<issued, row, host, queue, cut, late>>
    BY <1>3 DEF ClientRenews, world
  <2>2. r.pc \in {"check", "commit"} => c # None /\ r.cert = c
    BY <2>1
  <2> HIDE DEF r, c
  <2> QED
    BY <1>2, <2>1, <2>2
<1>4. CASE ClientRequests(m)
  <2> DEFINE r == [pc |-> "look"]
  <2>1. client[m].on = None /\ Sends(m, r) /\ UNCHANGED <<issued, row, host, queue, cut, late>>
    BY <1>4 DEF ClientRequests, world
  <2>2. r.pc \notin {"check", "commit"}
    OBVIOUS
  <2> HIDE DEF r, c
  <2> QED
    BY <1>2, <2>1, <2>2
<1>5. CASE ClientMisses(m)
  <2>1. /\ client' = [client EXCEPT ![m] = [@ EXCEPT !.on = None]] /\ cut' = cut \cup {m}
        /\ UNCHANGED <<issued, row, host, queue, request, late>>
    BY <1>5 DEF ClientMisses, server
  <2>2. /\ \A n \in Machine : client'[n].cert = client[n].cert
        /\ \A n \in Machine \ {m} : client'[n] = client[n]
    BY <2>1 DEF CertTypes, TalkTypes, Client
  <2>3. Lines'
    BY <1>0, <1>a, <2>1, LinesKeep
  <2>4. Holders'
    BY <1>a, <2>1, <2>2, HoldersKeep DEF SameHands
  <2>5. InStep'
    BY <1>a, <2>1, <2>2 DEF InStep
  <2>6. OneHost'
    BY <2>1, <2>2, OneHostKeeps
  <2> QED
    BY <2>3, <2>4, <2>5, <2>6
<1> QED
  BY <1>1, <1>3, <1>4, <1>5 DEF Run

LEMMA ServeOwners ==
  ASSUME CertTypes, InUseInv, Lines, Holders, InStep, OneHost, NEW m \in Machine, NEW s \in Slot,
         Serve(m, s) \/ RenewCheckNoName(m, s) \/ RequestFails(m, s)
  PROVE  Lines' /\ Holders' /\ InStep' /\ OneHost'
<1> DEFINE r == request[m][s]
<1>0. r \in Request /\ r.pc # "free" => r # Free
  BY DEF CertTypes, TalkTypes, Free
<1>1. CASE ReqCertTrusted(m, s)
  BY <1>1, IssueOwners, CertificatesAssumption DEF ReqCertTrusted, Free
<1>2. CASE ReqCertApproved(m, s)
  <2>1. PICK w \in At(m) : waiting[w].approved /\ Issue(m, s, waiting[w].hostname)
    BY <1>2 DEF ReqCertApproved
  <2>2. waiting[w].hostname \in Name
    BY <2>1 DEF CertTypes, WaitTypes, Wait, At
  <2> QED
    BY <1>2, <2>1, <2>2, IssueOwners DEF ReqCertApproved, Free
<1>3. CASE ReqCertBePatient(m, s) \/ ReqCertAdd(m, s) \/ RequestFails(m, s)
  <2>1. r # Free /\ Replies(m, s, None) /\ UNCHANGED <<issued, row, host, queue, cut, late>>
    <3>1. CASE ReqCertBePatient(m, s)
      BY <3>1 DEF ReqCertBePatient, world, Free
    <3>2. CASE ReqCertAdd(m, s)
      BY <3>2 DEF ReqCertAdd, world, Free
    <3>3. CASE RequestFails(m, s)
      BY <3>3 DEF RequestFails
    <3> QED
      BY <1>3, <3>1, <3>2, <3>3
  <2> QED
    BY <2>1, RefusalOwners
<1>4. ASSUME NEW q, q.pc \in {"check", "commit"} => r.pc \in {"check", "commit"} /\ q.cert = r.cert,
             r # Free, request' = [request EXCEPT ![m] = [@ EXCEPT ![s] = q]],
             UNCHANGED <<issued, row, host, queue, client, cut, late>>
      PROVE  Lines' /\ Holders' /\ InStep' /\ OneHost'
  <2>1. SameHands /\ DOMAIN row \subseteq Id
    BY <1>4 DEF SameHands, Id, CertTypes, RowTypes
  <2>2. \A n \in Machine, t \in Slot : request'[n][t] = request[n][t] \/ (n = m /\ t = s /\ request'[n][t] = q)
    BY <1>4 DEF CertTypes, TalkTypes
  <2>3. Lines'
    BY <1>4, <2>1, LinesKeep
  <2>4. Holders'
    BY <1>4, <2>1, <2>2, HoldersKeep DEF SameHands
  <2>5. InStep'
    BY <1>4, <2>1, InStepGoesOn
  <2>6. OneHost'
    BY <1>4, OneHostKeeps
  <2> QED
    BY <2>3, <2>4, <2>5, <2>6
<1>5. CASE ReqCertUnknown(m, s)
  <2>1. r.pc = "look" /\ UNCHANGED <<issued, row, host, queue, client, cut, late>>
    BY <1>5 DEF ReqCertUnknown, world
  <2>2. request' = [request EXCEPT ![m] = [@ EXCEPT ![s] = [r EXCEPT !.pc = "add"]]]
    BY <1>5 DEF ReqCertUnknown
  <2>3. r = [pc |-> "look"]
    BY <2>1 DEF CertTypes, TalkTypes, Request, Free
  <2>4. [r EXCEPT !.pc = "add"].pc = "add" /\ r # Free
    BY <2>3 DEF Free
  <2> HIDE DEF r
  <2> QED
    BY <1>4, <2>1, <2>2, <2>4
<1>6. CASE RenewCheck(m, s)
  <2>1. r.pc = "check" /\ r # Free /\ UNCHANGED <<issued, row, host, queue, cut, late>>
    BY <1>6 DEF RenewCheck, world, Free
  <2>2. CASE r.cert \in DOMAIN row /\ ~row[r.cert].revoked
    <3> DEFINE q == [pc |-> "commit", cert |-> r.cert,
                     cn |-> IF r.cert \in DOMAIN host /\ host[r.cert] # NoName THEN host[r.cert]
                            ELSE issued[r.cert].cn]
    <3>1. request' = [request EXCEPT ![m] = [@ EXCEPT ![s] = q]] /\ client' = client
      BY <1>6, <2>2 DEF RenewCheck
    <3>2. q.cert = r.cert
      OBVIOUS
    <3> HIDE DEF q, r
    <3> QED
      BY <1>4, <2>1, <3>1, <3>2
  <2>3. CASE ~(r.cert \in DOMAIN row /\ ~row[r.cert].revoked)
    <3>1. Replies(m, s, None)
      BY <1>6, <2>3 DEF RenewCheck
    <3> QED
      BY <2>1, <3>1, RefusalOwners
  <2> QED
    BY <2>2, <2>3
<1>7. CASE RenewCommit(m, s)
  BY <1>7, RenewOwners
<1>8. CASE RenewCheckNoName(m, s)
  <2> DEFINE q == [pc |-> "commit", cert |-> r.cert, cn |-> issued[r.cert].cn]
  <2>1. /\ r.pc = "check" /\ r # Free
        /\ request' = [request EXCEPT ![m] = [@ EXCEPT ![s] = q]]
        /\ UNCHANGED <<issued, row, host, queue, client, cut, late>>
    BY <1>8 DEF RenewCheckNoName, Free
  <2>2. q.cert = r.cert
    OBVIOUS
  <2> HIDE DEF q, r
  <2> QED
    BY <1>4, <2>1, <2>2
<1> QED
  BY <1>1, <1>2, <1>3, <1>5, <1>6, <1>7, <1>8 DEF Serve

LEMMA OtherOwners ==
  ASSUME CertTypes, InUseInv, Lines, Holders, InStep, OneHost,
         \/ JobLook \/ JobDelete \/ NewCA
         \/ \E m \in Machine : Ages(m) \/ Revoke(m) \/ Trust(m) \/ ApproveInAdvance(m)
         \/ \E w \in DOMAIN waiting : Approve(w) \/ Withdraw(w)
         \/ \E c \in Id : Process(c) \/ RemoveHost(c) \/ \E n \in Name : Rename(c, n)
         \/ UNCHANGED vars
  PROVE  Lines' /\ Holders' /\ InStep' /\ OneHost'
<1>0. DOMAIN row \subseteq Id /\ \A c \in Id : issued[c] \in Cert
  BY IdIsNat DEF CertTypes, RowTypes
<1>a. issued' = issued => SameHands
  BY DEF Id, SameHands
<1>1. ASSUME UNCHANGED <<issued, row, client, request, cut, late>>,
             DOMAIN host' \cup queue' \subseteq DOMAIN host \cup queue
      PROVE  Lines' /\ Holders' /\ InStep' /\ OneHost'
  BY <1>1, <1>a, QuietOwners
<1>2. ASSUME \/ JobLook \/ \E m \in Machine : Trust(m) \/ ApproveInAdvance(m)
             \/ \E w \in DOMAIN waiting : Approve(w) \/ Withdraw(w)
             \/ UNCHANGED vars
      PROVE  Lines' /\ Holders' /\ InStep' /\ OneHost'
  <2>1. UNCHANGED <<issued, row, client, request, cut, late, host, queue>>
    BY <1>2 DEF JobLook, JobLooks, Trust, ApproveInAdvance, Approve, Withdraw, vars, server, world
  <2> QED
    BY <1>1, <2>1
<1>3. ASSUME NEW c \in Id, Process(c) \/ RemoveHost(c) \/ \E n \in Name : Rename(c, n)
      PROVE  Lines' /\ Holders' /\ InStep' /\ OneHost'
  <2>1. /\ UNCHANGED <<issued, row, client, request, cut, late>>
        /\ DOMAIN host' \cup queue' \subseteq DOMAIN host \cup queue
    BY <1>3 DEF Process, RemoveHost, Rename, world
  <2> QED
    BY <1>1, <2>1
<1>4. CASE JobDelete
  <2>1. /\ UNCHANGED <<issued, host, queue, client, request, cut, late>>
        /\ DOMAIN row' \subseteq DOMAIN row /\ \A c \in DOMAIN row' : row'[c].first = row[c].first
    BY <1>4 DEF JobDelete
  <2>2. \A c \in DOMAIN row \ DOMAIN row' : issued[c].text = "openssl"
    BY <1>4, DeleteInUse
  <2> QED
    BY <1>a, <2>1, <2>2, QuietOwners
<1>5. ASSUME NEW m \in Machine, Revoke(m)
      PROVE  Lines' /\ Holders' /\ InStep' /\ OneHost'
  <2>1. /\ UNCHANGED <<issued, host, queue, client, request, cut, late>>
        /\ DOMAIN row' = DOMAIN row /\ \A c \in DOMAIN row' : row'[c].first = row[c].first
    BY <1>5 DEF Revoke, CertTypes, RowTypes, Row
  <2> QED
    BY <1>a, <2>1, QuietOwners
<1>6. ASSUME NewCA \/ \E m \in Machine : Ages(m)
      PROVE  Lines' /\ Holders' /\ InStep' /\ OneHost'
  <2>1. UNCHANGED <<row, host, queue, client, request, cut, late>>
    BY <1>6 DEF NewCA, Ages
  <2>2. SameHands
    <3>1. CASE NewCA
      BY <1>0, <3>1 DEF NewCA, SameHands, Id, Cert
    <3>2. ASSUME NEW m \in Machine, Ages(m)
          PROVE  SameHands
      BY <1>0, <3>2 DEF Ages, SameHands, Id, Cert
    <3> QED
      BY <1>6, <3>1, <3>2
  <2> QED
    BY <2>1, <2>2, QuietOwners
<1> QED
  BY <1>2, <1>3, <1>4, <1>5, <1>6

-----------------------------------------------------------------------------
CertInv == CertTypes /\ InUseInv /\ Lines /\ Holders /\ InStep /\ OneHost

LEMMA CertStep ==
  ASSUME CertInv, [Next]_vars
  PROVE  CertInv'
<1>1. CertTypes' /\ InUseInv'
  BY CertTypesStep, InUseStep DEF CertInv
<1>2. Lines' /\ Holders' /\ InStep' /\ OneHost'
  BY ClientOwners, ServeOwners, OtherOwners DEF CertInv, Next
<1> QED
  BY <1>1, <1>2 DEF CertInv

LEMMA CertInvariant == Spec => []CertInv
<1>1. Init => CertInv
  BY CertStart, InUseStart, OwnersStart DEF CertInv
<1>2. CertInv /\ [Next]_vars => CertInv'
  BY CertStep
<1> QED
  BY <1>1, <1>2, PTL DEF Spec

(* Every table refers to certificates that were issued, a line goes back   *)
(* from a certificate to earlier ones, and a client that waits for a reply *)
(* waits for a request that the service works on (cert.go, nivlheim_client,*)
(* ping.go).                                                               *)
THEOREM CertificatesAreTyped == Spec => []TypeOK
<1>1. CertInv => TypeOK
  <2> SUFFICES ASSUME CertInv
               PROVE  TypeOK
    OBVIOUS
  <2>1. \A c \in Id : issued[c] \in Cert
    BY IdIsNat DEF CertInv, CertTypes
  <2>2. \A c \in DOMAIN row :
          row[c] \in [previous : 0 .. c - 1, first : 0 .. c, revoked : BOOLEAN]
    BY DEF CertInv, CertTypes, RowTypes, Row
  <2>3. \A w \in DOMAIN waiting :
          waiting[w] \in [ipaddr : Machine, approved : BOOLEAN, hostname : Names]
    BY DEF CertInv, CertTypes, WaitTypes, Wait
  <2>4. \A m \in Machine :
          /\ client[m] \in [cert : Id \cup {None}, on : {None} \cup Slot]
          /\ \A s \in Slot : request[m][s] \in Request
          /\ client[m].on # None => request[m][client[m].on] # Free
    BY DEF CertInv, CertTypes, TalkTypes, Client
  <2>5. /\ DOMAIN row \subseteq Id /\ DOMAIN host \subseteq Id /\ queue \subseteq Id
        /\ \A c \in DOMAIN host : host[c] \in Names
        /\ files \subseteq [certfp : Id, original : Id \cup {None}]
    BY DEF CertInv, CertTypes, RowTypes, NameTypes
  <2> QED
    BY <2>1, <2>2, <2>3, <2>4, <2>5 DEF CertInv, CertTypes, WorldTypes, Cert, TypeOK
<1> QED
  BY CertInvariant, <1>1, PTL

(* The job that deletes old certificates never deletes one that a host is  *)
(* under or that a file refers to, although archives are processed and     *)
(* certificates renewed between its look and its deletion                  *)
(* (deleteOldCertificates.go, 26-46).                                      *)
THEOREM UsedCertificatesStay == Spec => []UsedStay
<1>1. CertInv => UsedStay
  BY DEF CertInv, InUseInv, Named, UsedStay
<1> QED
  BY CertInvariant, <1>1, PTL

(* A machine that missed no reply, and renewed only when nothing of it was *)
(* queued, leaves no other host behind under its line (cert.go, RenewCert, *)
(* where the host moves to the new certificate).                           *)
THEOREM HostGoesAlong == Spec => []ClientKeepsItsHost
<1>1. CertInv => ClientKeepsItsHost
  BY DEF CertInv, OneHost, ClientKeepsItsHost
<1> QED
  BY CertInvariant, <1>1, PTL
================================================================================
