------------------------------ MODULE IpRanges ------------------------------
(***************************************************************************)
(* The ip ranges in which machines are trusted and named (api_ipranges.go).*)
(* POST and PUT first look whether the new range lies in another one or    *)
(* contains one, and then write it, in two statements; DELETE is one.      *)
(*                                                                         *)
(* A range is the set of its addresses.  The blocks of CIDR notation are   *)
(* disjoint or nested, so two ranges that share an address are nested.     *)
(***************************************************************************)
EXTENDS Naturals

CONSTANTS Block,        \* the ranges that are asked for
          Request,      \* the requests that are served at the same time
          MaxRanges     \* bound: ids that are given out

ASSUME BlockAssumption ==
  \A a, b \in Block : a \cap b = {} \/ a \subseteq b \/ b \subseteq a

VARIABLES ranges,       \* the table ipranges: the rows that exist, by id
          lastId,       \* the serial iprangeid
          request,      \* what a request has verified and has yet to write,
                        \* and as history the rows written since its check
          unseen        \* history: the pairs of rows of which one was written
                        \* between the check and the write of the other

rangeVars == <<ranges, lastId, request, unseen>>

NoId == 0               \* -1 in the code: POST updates no row
IdleRequest == [pc |-> "idle", range |-> {}, id |-> NoId, missed |-> {}]
IsRow(id) == id \in DOMAIN ranges

Encloses(a, b) == b \subseteq a /\ a # b        \* the operator >> of PostgreSQL

RangeInit ==
  /\ ranges = [id \in {} |-> {}] /\ lastId = 0
  /\ request = [q \in Request |-> IdleRequest] /\ unseen = {}

(* $1 <<= iprange OR $1 >> iprange, among the rows but the one updated.    *)
ConflictsBelow(range, id) ==            \* Slip: the second operator is missing
  \E other \in DOMAIN ranges \ {id} : range \subseteq ranges[other]

Conflicts(range, id) ==
  \E other \in DOMAIN ranges \ {id} :
    range \subseteq ranges[other] \/ Encloses(range, ranges[other])

(* POST has no id; PUT takes any, it finds out later whether a row has it. *)
verifyIpRangeParameter(q, range, id) ==
  /\ request[q].pc = "idle"
  /\ ~Conflicts(range, id)
  /\ request' = [request EXCEPT ![q] =
       [pc |-> "verified", range |-> range, id |-> id, missed |-> {}]]
  /\ UNCHANGED <<ranges, lastId, unseen>>

PairsWithout(id) == {pair \in unseen : id \notin pair}

Write(q, id) ==
  /\ ranges' = [i \in DOMAIN ranges \cup {id} |-> IF i = id THEN request[q].range ELSE ranges[i]]
  /\ unseen' = PairsWithout(id)
       \cup {{id, other} : other \in (request[q].missed \cap DOMAIN ranges) \ {id}}
  /\ request' = [p \in Request |->
       IF p = q THEN IdleRequest
       ELSE IF request[p].pc = "idle" THEN request[p]
       ELSE [request[p] EXCEPT !.missed = @ \cup {id}]]

Insert(q) ==
  /\ request[q].pc = "verified" /\ request[q].id = NoId
  /\ lastId < MaxRanges
  /\ lastId' = lastId + 1
  /\ Write(q, lastId + 1)

Update(q) ==
  /\ request[q].pc = "verified" /\ IsRow(request[q].id)
  /\ Write(q, request[q].id)
  /\ UNCHANGED lastId

(* No row has the id (any more), or the statement fails.                   *)
WritesNothing(q) ==
  /\ request[q].pc = "verified"
  /\ request' = [request EXCEPT ![q] = IdleRequest]
  /\ UNCHANGED <<ranges, lastId, unseen>>

DeleteRange(id) ==
  /\ IsRow(id)
  /\ ranges' = [i \in DOMAIN ranges \ {id} |-> ranges[i]]
  /\ unseen' = PairsWithout(id)
  /\ UNCHANGED <<lastId, request>>

RangeNext ==
  \/ \E q \in Request, range \in Block, id \in NoId..MaxRanges :
       verifyIpRangeParameter(q, range, id)
  \/ \E q \in Request : Insert(q) \/ Update(q) \/ WritesNothing(q)
  \/ \E id \in 1..MaxRanges : DeleteRange(id)

RangeSpec == RangeInit /\ [][RangeNext]_rangeVars

-----------------------------------------------------------------------------
(* No address lies in two ranges, so that the question whether a machine   *)
(* there is trusted and named by DNS has one answer, after any insertions, *)
(* moves and deletions; except in two rows of which one was written        *)
(* between the check and the write of the other (verifyIpRangeParameter).  *)
(* A race costs this for its own two rows, until one of them is written    *)
(* anew or deleted, and for no third one, however long it stays.           *)
OneRangePerAddress ==
  \A i, j \in DOMAIN ranges :
    i # j /\ ranges[i] \cap ranges[j] # {} => {i, j} \in unseen

=============================================================================
