--------------------------------- MODULE Naming --------------------------------
(***************************************************************************)
(* How a host gets its name: handleDNSchangesJob and its algorithm         *)
(* nameMachine (handleDNSchanges.go), the uploads that set the address and *)
(* the name the operating system has (parseFiles.go, processarchive.go),   *)
(* PATCH /api/v2/host, which sets a name by hand (api_host.go), and the    *)
(* approval of machines outside the known networks                         *)
(* (api_awaitingApproval.go).                                              *)
(*                                                                         *)
(* nameMachine and the two UPDATEs that follow are one transaction at      *)
(* READ COMMITTED: its queries are one step, the statement that uses up an *)
(* approval another, its commit a third.                                   *)
(***************************************************************************)
EXTENDS Integers, FiniteSets

CONSTANTS Host,      \* the certificates of the hosts
          Ip,
          Name,
          NoName,    \* NULL, or the empty string that nameMachine returns
          Empty,     \* the empty string as override_hostname
          Addresses, \* Host -> the addresses it can be at
          Networks,  \* the kinds of network there are: "dns" (an ip range
                     \* with use_dns), "auto" (without), "none" (no ip range)
          OneAddress,   \* no two addresses resolve to the same name
          OwnSecond,    \* no two uploads are received in the same second
          Edited,       \* bound: no name is set by hand unless all networks are these
          MaxUploads, MaxRequests, MaxRemovals   \* bounds

ASSUME NameAssumption == /\ Name # {} /\ Ip # {}
                         /\ NoName \notin Name /\ Empty \notin Name \cup {NoName}
ASSUME AddressesAssumption == Addresses \in [Host -> SUBSET Ip]
ASSUME NetworksAssumption == Edited \subseteq Networks /\ Networks \subseteq {"dns", "auto", "none"}
ASSUME BoundsAssumption == {MaxUploads, MaxRequests, MaxRemovals} \subseteq Nat

VARIABLES
    hostinfo,   \* table hostinfo
    approval,   \* table waiting_for_approval: Ip -> the approved name
    dns,        \* Ip -> what forwardConfirmReverseDNS says
    network,    \* Ip -> the kind of its network
    trusted,    \* certificates.trusted_by_cfengine
    list,       \* the hosts that the job has yet to name, as it read them
    naming,     \* the transaction of the job
    request,    \* the PATCH or the approval that is being served
    clock,
    used        \* how much of each bound is used up

world == <<dns, network, trusted>>
vars == <<hostinfo, approval, world, list, naming, request, clock, used>>

\* due: dnsttl is null or in the past
Row == [known : BOOLEAN, ip : Ip, os : Name, hostname : Name \cup {NoName},
        override : Name \cup {NoName, Empty}, due : BOOLEAN, lastseen : Nat]
NoRow == [known |-> FALSE, ip |-> CHOOSE i \in Ip : TRUE,
          os |-> CHOOSE n \in Name : TRUE, hostname |-> NoName,
          override |-> NoName, due |-> FALSE, lastseen |-> 0]

Known == {h \in Host : hostinfo[h].known}
Hostname(h) == hostinfo[h].hostname
Override(h) == hostinfo[h].override
Others(h) == Known \ {h}

\* hostname = n OR override_hostname = n
Uses(h, n) == Hostname(h) = n \/ Override(h) = n

Idle == [pc |-> "idle"]

Init ==
    /\ hostinfo = [h \in Host |-> NoRow]
    /\ approval = [i \in Ip |-> NoName]
    /\ dns \in [Ip -> Name \cup {NoName}]
    /\ OneAddress => \A i, j \in Ip : dns[i] = dns[j] /\ dns[i] # NoName => i = j
    /\ network \in [Ip -> Networks]
    /\ trusted \in SUBSET (IF \E i \in Ip : network[i] = "auto" THEN Host ELSE {})
    /\ list = {}
    /\ naming = Idle
    /\ request = Idle
    /\ clock = 0
    /\ used = [upload |-> 0, request |-> 0, removal |-> 0]

(***************************************************************************)
(* What uploads and removals do to hostinfo.                               *)
(***************************************************************************)

Received(t) == /\ clock' = t
               /\ t \in {clock + 1} \cup IF OwnSecond THEN {} ELSE {clock}
               /\ used.upload < MaxUploads
               /\ used' = [used EXCEPT !.upload = @ + 1]

\* UPDATE hostinfo SET lastseen ... WHERE lastseen < received
Seen(h, t) == IF hostinfo[h].lastseen < t THEN t ELSE hostinfo[h].lastseen

\* parseFile: a host without a row gets one.  With a row, the second UPDATE
\* asks for lastseen < received, which the first one has just set: the
\* address and the name stay.
ParseFile(h, ip, os) ==
    /\ \E t \in {clock, clock + 1} :
         /\ Received(t)
         /\ hostinfo' = [hostinfo EXCEPT ![h] =
              IF h \in Known THEN [@ EXCEPT !.lastseen = Seen(h, t)]
              ELSE [NoRow EXCEPT !.known = TRUE, !.ip = ip, !.os = os,
                                 !.due = TRUE, !.lastseen = t]]
    /\ UNCHANGED <<approval, world, list, naming, request>>

\* processFile, for a file that has not changed
UnchangedFile(h, ip, os) ==
    /\ h \in Known
    /\ \E t \in {clock, clock + 1} :
         /\ Received(t)
         /\ hostinfo' = [hostinfo EXCEPT ![h] =
              [@ EXCEPT !.lastseen = Seen(h, t), !.ip = ip, !.os = os,
                        !.due = hostinfo[h].due
                                \/ <<ip, os>> # <<hostinfo[h].ip, hostinfo[h].os>>]]
    /\ UNCHANGED <<approval, world, list, naming, request>>

\* DELETE /api/v2/host, removeInactiveMachinesJob
Remove(h) ==
    /\ h \in Known
    /\ used.removal < MaxRemovals
    /\ used' = [used EXCEPT !.removal = @ + 1]
    /\ hostinfo' = [hostinfo EXCEPT ![h] = NoRow]
    /\ UNCHANGED <<approval, world, list, naming, request, clock>>

\* dnsttl passes.
Expire(h) ==
    /\ h \in Known /\ ~hostinfo[h].due
    /\ hostinfo' = [hostinfo EXCEPT ![h].due = TRUE]
    /\ UNCHANGED <<approval, world, list, naming, request, clock, used>>

(***************************************************************************)
(* PATCH /api/v2/host and PATCH /api/v2/manualApproval: the SELECT that    *)
(* looks whether the name is free, then the UPDATE.                        *)
(***************************************************************************)

PatchSelect(h, n) ==
    /\ request.pc = "idle"
    /\ h \in Known
    /\ \A g \in Others(h) : ~Uses(g, n)
    /\ used.request < MaxRequests /\ \A i \in Ip : network[i] \in Edited
    /\ used' = [used EXCEPT !.request = @ + 1]
    /\ request' = [pc |-> "override", host |-> h, name |-> n]
    /\ UNCHANGED <<hostinfo, approval, world, list, naming, clock>>

PatchUpdate ==
    /\ request.pc = "override"
    /\ hostinfo' = [hostinfo EXCEPT ![request.host] =
                      IF @.known THEN [@ EXCEPT !.override = request.name,
                                                !.due = TRUE]
                      ELSE @]
    /\ request' = Idle
    /\ UNCHANGED <<approval, world, list, naming, clock, used>>

ApproveSelect(ip, n) ==
    /\ request.pc = "idle"
    /\ \A g \in Known : ~Uses(g, n)
    /\ used.request < MaxRequests /\ \A i \in Ip : network[i] \in Edited
    /\ used' = [used EXCEPT !.request = @ + 1]
    /\ request' = [pc |-> "approve", ip |-> ip, name |-> n]
    /\ UNCHANGED <<hostinfo, approval, world, list, naming, clock>>

\* The row that the job's transaction has written to.
Held(ip) == naming.pc = "commit" /\ naming.approval /\ naming.ip = ip

\* It waits for the job's transaction.
ApproveUpdate ==
    /\ request.pc = "approve"
    /\ ~Held(request.ip)
    /\ approval' = [approval EXCEPT ![request.ip] = request.name]
    /\ request' = Idle
    /\ UNCHANGED <<hostinfo, world, list, naming, clock, used>>

(***************************************************************************)
(* nameMachine, for a host as the job read it: the name, or NoName.        *)
(***************************************************************************)

\* Slip: a name that someone has set by hand for another host is taken.
ByDnsOverOverride(m) ==
    LET name == dns[m.ip] IN
    IF name = NoName
    THEN IF \E g \in Others(m.host) : Uses(g, m.os) THEN NoName ELSE m.os
    ELSE IF \/ \E g \in Others(m.host) : /\ Hostname(g) = name
                                         /\ hostinfo[g].ip = m.ip
                                         /\ hostinfo[g].lastseen > m.lastseen
            \/ /\ name # m.os
               /\ \E g \in Others(m.host) : /\ Hostname(g) = name
                                            /\ hostinfo[g].os = name
                                            /\ network[hostinfo[g].ip] = "dns"
         THEN NoName ELSE name

\* Slip: the host whose OS agrees with DNS does not keep the name.
ByDnsNoOwner(m) ==
    LET name == dns[m.ip] IN
    IF name = NoName
    THEN IF \E g \in Others(m.host) : Uses(g, m.os) THEN NoName ELSE m.os
    ELSE IF \E g \in Known : Override(g) = name
         THEN NoName ELSE name

\* Within an ip range where DNS is used.  The name that DNS gives is left to
\* a newer host at the same address, to the host that has it by hand, and to
\* a host that agrees with DNS if this one does not.
ByDns(m) ==
    LET name == dns[m.ip] IN
    IF name = NoName
    THEN IF \E g \in Others(m.host) : Uses(g, m.os) THEN NoName ELSE m.os
    ELSE IF \/ \E g \in Others(m.host) : /\ Hostname(g) = name
                                         /\ hostinfo[g].ip = m.ip
                                         /\ hostinfo[g].lastseen > m.lastseen
            \/ \E g \in Known : Override(g) = name
            \/ /\ name # m.os
               /\ \E g \in Others(m.host) : /\ Hostname(g) = name
                                            /\ hostinfo[g].os = name
                                            /\ network[hostinfo[g].ip] = "dns"
         THEN NoName ELSE name

\* In another ip range, or trusted by CFEngine: the name that the OS gives,
\* unless another host uses it; an older one at the same address does not count.
ByOs(m) ==
    IF \E g \in Others(m.host) : /\ Uses(g, m.os)
                                 /\ ~(/\ hostinfo[g].ip = m.ip
                                      /\ hostinfo[g].lastseen < m.lastseen)
    THEN NoName ELSE m.os

Approved(m) == approval[m.ip] # NoName
Taken(n) == \E g \in Known : Uses(g, n)

nameMachine(m) ==
    IF m.host \in Known /\ Override(m.host) \in Name THEN Override(m.host)
    ELSE IF network[m.ip] = "dns" THEN ByDns(m)
    ELSE IF network[m.ip] = "auto" \/ m.host \in trusted THEN ByOs(m)
    ELSE IF Approved(m) /\ ~Taken(approval[m.ip]) THEN approval[m.ip]
    ELSE NoName

\* An approved name is used up; if it is taken, the machine goes back to
\* approval.
UsesApproval(m) ==
    /\ ~(m.host \in Known /\ Override(m.host) \in Name)
    /\ network[m.ip] = "none" /\ m.host \notin trusted
    /\ Approved(m)

(***************************************************************************)
(* handleDNSchangesJob.Run                                                 *)
(***************************************************************************)

JobSelect ==
    /\ list = {} /\ naming = Idle
    /\ list' = {[host |-> h, ip |-> hostinfo[h].ip, os |-> hostinfo[h].os,
                 lastseen |-> hostinfo[h].lastseen] :
                h \in {g \in Known : hostinfo[g].due \/ Hostname(g) = NoName}}
    /\ list' # {}
    /\ UNCHANGED <<hostinfo, approval, world, naming, request, clock, used>>

JobName ==
    /\ naming = Idle
    /\ \E m \in list :
         /\ list' = list \ {m}
         /\ naming' = [pc |-> IF UsesApproval(m) THEN "approval" ELSE "commit",
                       host |-> m.host, ip |-> m.ip,
                       name |-> nameMachine(m), approval |-> UsesApproval(m)]
    /\ UNCHANGED <<hostinfo, approval, world, request, clock, used>>

\* UPDATE or DELETE waiting_for_approval WHERE ipaddr=$1: what an approval has
\* written since the SELECT is lost, another one waits from now on.
JobApproval ==
    /\ naming.pc = "approval"
    /\ naming' = [naming EXCEPT !.pc = "commit"]
    /\ UNCHANGED <<hostinfo, approval, world, list, request, clock, used>>

\* hostinfo after the host has been named; others: the rows of the rest.
Named(others) ==
    [h \in Host |-> IF h = naming.host /\ h \in Known
                    THEN [hostinfo[h] EXCEPT !.hostname = naming.name, !.due = FALSE]
                    ELSE others[h]]

\* The rows without the name that the job gives to a host.
NameTaken ==
    [h \in Host |-> IF Hostname(h) = naming.name
                    THEN [hostinfo[h] EXCEPT !.hostname = NoName] ELSE hostinfo[h]]

\* An approval that waited finds no row when the name has been given.
RowGone == /\ naming.approval /\ naming.name # NoName
           /\ request.pc = "approve" /\ request.ip = naming.ip

CommitName(rows) ==
    /\ approval' = IF naming.approval
                   THEN [approval EXCEPT ![naming.ip] = NoName] ELSE approval
    /\ hostinfo' = IF naming.name = NoName THEN hostinfo ELSE Named(rows)
    /\ naming' = Idle
    /\ request' = IF RowGone THEN Idle ELSE request
    /\ UNCHANGED <<world, list, clock, used>>

\* Slip: the name is not taken from the host that has it.
JobCommitNotTaken == naming.pc = "commit" /\ CommitName(hostinfo)

\* The name is taken from whoever has it.
JobCommit == naming.pc = "commit" /\ CommitName(NameTaken)

Job == JobSelect \/ JobName \/ JobApproval \/ JobCommit
Request == PatchUpdate \/ ApproveUpdate

Next ==
    \/ \E h \in Host : \/ \E ip \in Addresses[h], os \in Name :
                            ParseFile(h, ip, os) \/ UnchangedFile(h, ip, os)
                       \/ \E n \in Name \cup {Empty} : PatchSelect(h, n)
                       \/ Remove(h) \/ Expire(h)
    \/ \E ip \in Ip, n \in Name : ApproveSelect(ip, n)
    \/ Request \/ Job

Fairness == /\ WF_vars(Job) /\ WF_vars(Request)
            /\ \A h \in Host : WF_vars(Expire(h))

Spec == Init /\ [][Next]_vars
FairSpec == Spec /\ Fairness

(***************************************************************************)
(* Properties                                                              *)
(***************************************************************************)

\* Every part of the state has its type, and no two hosts have the same
\* hostname (UNIQUE; an UPDATE that broke it would stop the job).
TypeOK ==
    /\ hostinfo \in [Host -> Row]
    /\ \A h, g \in Known : Hostname(h) = Hostname(g) /\ Hostname(h) # NoName
                             => h = g
    /\ approval \in [Ip -> Name \cup {NoName}]
    /\ \A m \in list : m \in [host : Host, ip : Ip, os : Name, lastseen : Nat]
    /\ naming = Idle \/ naming \in [pc : {"approval", "commit"}, host : Host, ip : Ip,
                                    name : Name \cup {NoName}, approval : BOOLEAN]
    /\ \/ request = Idle
       \/ request \in [pc : {"override"}, host : Host, name : Name \cup {Empty}]
       \/ request \in [pc : {"approve"}, ip : Ip, name : Name]

\* "Check the results again, to check for flip-flopping"
\* (handleDNSchanges_test.go:239): when nothing is uploaded or set any more,
\* the names stop changing, although the job goes on naming the hosts.
NamesSettle ==
    <>[][\A h \in Host : hostinfo'[h].hostname = Hostname(h)]_vars

\* In the end, a host to which a name was given by hand has it.
OverrideHolds ==
    <>[](\A h \in Known : Override(h) \in Name => Hostname(h) = Override(h))

\* "This statement will set dnsttl to null only if ipaddr or os_hostname
\* changed" (parseFiles.go:138): a file received from a new address makes the
\* host due for naming.
ParsedAddressIsNoticed ==
    [][\A h \in Known : \A ip \in Addresses[h] \ {hostinfo[h].ip}, os \in Name :
         ParseFile(h, ip, os) /\ hostinfo[h].lastseen < clock'
           => hostinfo'[h].due]_vars

===============================================================================
