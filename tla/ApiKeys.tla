--------------------------------- MODULE ApiKeys -------------------------------
(***************************************************************************)
(* API keys and the cache of their access profiles: the lookup that every  *)
(* request with a key makes (wrapRequireAuth in accessControl.go,          *)
(* GetAccessProfileForAPIkey in accessControlKeys.go), the requests that   *)
(* create, update and delete keys (api_keys.go), and the temporary key     *)
(* that determineHostOwnershipJob (host_owner.go) puts into the cache and  *)
(* nowhere else.                                                           *)
(*                                                                         *)
(* What a key allows is two numbers, one for its row in apikeys and one    *)
(* for its rows in apikey_ips: an edit gives both a new number in one      *)
(* transaction, a lookup reads them in two queries.                        *)
(***************************************************************************)
EXTENDS Integers, FiniteSets

CONSTANTS Key,        \* the keys in the table
          TempKey,    \* the keys the job makes
          Lookup,     \* requests that use a key
          Edit,       \* requests that change keys, one use each
          Lifetime,   \* cacheTimeMinutes, in ticks of the clock
          MaxTime     \* bound

ASSUME KeyAssumption ==
    /\ Key \cap TempKey = {} /\ IsFiniteSet(Edit)
    /\ Lifetime \in Nat \ {0} /\ MaxTime \in Nat

VARIABLES
    table,    \* Key -> what the table says; 0 is no row
    cache,    \* apiKeyCache
    lookup,   \* where each request is
    edit,     \* where each edit is
    temp,     \* the temporary keys of the job: when they expire
    owning,   \* the key of the run of the job that is under way, if any
    keyTime,
    raced     \* keys that were invalidated while a lookup held an old answer

keyVars == <<table, cache, lookup, edit, temp, owning, keyTime, raced>>

Never == MaxTime + Lifetime + 1
Past == 0      \* the time of the end of a run, which is over at once
NoEntry == [at |-> -1]
Idle == [pc |-> "idle"]

KeyInit ==
    /\ table \in [Key -> {[row |-> 0, ips |-> 0], [row |-> 1, ips |-> 1]}]
    /\ cache = [k \in Key \cup TempKey |-> NoEntry]
    /\ lookup = [l \in Lookup |-> Idle]
    /\ edit = [e \in Edit |-> Idle]
    /\ temp = [k \in TempKey |-> Never]
    /\ owning = {}
    /\ keyTime = 0
    /\ raced = {}

Exists(k) == table[k].row > 0
Cached(k) == cache[k] # NoEntry
Valid(k) == Cached(k) /\ keyTime - cache[k].at < Lifetime

(***************************************************************************)
(* GetAccessProfileForAPIkey.  A key in the cache is served from there; a  *)
(* temporary key that is not is not in the table either.                   *)
(***************************************************************************)

Hit(l, k, at) ==
    /\ lookup[l].pc = "idle" /\ Valid(k)
    /\ cache' = [cache EXCEPT ![k].at = at]
    /\ UNCHANGED <<table, lookup, edit, temp, owning, keyTime, raced>>

LookupHitTouch(l, k) == Hit(l, k, keyTime)   \* Slip: makes the entry young again
LookupHit(l, k) == Hit(l, k, cache[k].at)

LookupRow(l, k) ==
    /\ lookup[l].pc = "idle" /\ k \in Key /\ ~Valid(k) /\ Exists(k)
    /\ lookup' = [lookup EXCEPT ![l] = [pc |-> "ips", key |-> k, row |-> table[k].row,
                                        begun |-> keyTime]]
    /\ UNCHANGED <<table, cache, edit, temp, owning, keyTime, raced>>

\* the second query; a key that was deleted since the first has no rows
LookupIps(l) ==
    /\ lookup[l].pc = "ips"
    /\ lookup' = [lookup EXCEPT ![l] =
         [pc |-> "store", key |-> @.key, row |-> @.row, begun |-> @.begun,
          ips |-> table[lookup[l].key].ips]]
    /\ UNCHANGED <<table, cache, edit, temp, owning, keyTime, raced>>

Old(k) == Cached(k) /\ keyTime - cache[k].at > Lifetime

\* One lookup in a hundred purges the entries that are too old.
Store(l, at) ==
    /\ lookup[l].pc = "store"
    /\ \E purged \in {{}, {k \in Key \cup TempKey : Old(k)}} :
         cache' = [k \in Key \cup TempKey |->
                     IF k = lookup[l].key
                     THEN [at |-> at, row |-> lookup[l].row, ips |-> lookup[l].ips,
                           begun |-> lookup[l].begun]
                     ELSE IF k \in purged THEN NoEntry ELSE cache[k]]
    /\ lookup' = [lookup EXCEPT ![l] = Idle]
    /\ UNCHANGED <<table, edit, temp, owning, keyTime, raced>>

LookupStoreLapse(l) == Store(l, keyTime + Lifetime)   \* Slip: the time when it lapses
LookupStore(l) == Store(l, keyTime)

(***************************************************************************)
(* api_keys.go: read the key, change it in one transaction, invalidate.    *)
(* A request without the rights returns after the read.                    *)
(***************************************************************************)

\* The numbers that no key has had are those above all edits so far.
NextNumber == 2 + Cardinality({e \in Edit : edit[e].pc \in {"invalidate", "done"}})

\* Keys are random strings: a new one is a key that nobody has used.
EditCreate(e, k) ==
    /\ edit[e].pc = "idle" /\ ~Exists(k) /\ \A o \in Edit : edit[o] = Idle
    /\ table' = [table EXCEPT ![k] = [row |-> NextNumber, ips |-> NextNumber]]
    /\ edit' = [edit EXCEPT ![e].pc = "done"]
    /\ UNCHANGED <<cache, lookup, temp, owning, keyTime, raced>>

EditRead(e, k, op) ==
    /\ edit[e].pc = "idle" /\ Exists(k)
    /\ edit' = [edit EXCEPT ![e] = [pc |-> "commit", key |-> k, op |-> op]]
    /\ UNCHANGED <<table, cache, lookup, temp, owning, keyTime, raced>>

\* An update of a row that was deleted meanwhile changes nothing.
EditCommit(e) ==
    /\ edit[e].pc = "commit"
    /\ table' = [table EXCEPT ![edit[e].key] =
         IF edit[e].op = "delete" \/ ~Exists(edit[e].key) THEN [row |-> 0, ips |-> 0]
         ELSE [row |-> NextNumber, ips |-> NextNumber]]
    /\ edit' = [edit EXCEPT ![e] = [pc |-> "invalidate", key |-> @.key]]
    /\ UNCHANGED <<cache, lookup, temp, owning, keyTime, raced>>

\* the transaction fails, or its ip ranges refer to a row that is gone
EditFail(e) ==
    /\ edit[e].pc = "commit"
    /\ edit' = [edit EXCEPT ![e] = [pc |-> "done"]]
    /\ UNCHANGED <<table, cache, lookup, temp, owning, keyTime, raced>>

\* a lookup that will store what is not in the table any more
HoldsOld(l, k) ==
    /\ lookup[l].pc \in {"ips", "store"} /\ lookup[l].key = k
    /\ \/ lookup[l].row # table[k].row
       \/ lookup[l].pc = "store" /\ lookup[l].ips # table[k].ips

Invalidate(e, gone) ==
    /\ edit[e].pc = "invalidate"
    /\ LET k == edit[e].key
       IN /\ cache' = IF gone THEN [cache EXCEPT ![k] = NoEntry] ELSE cache
          /\ raced' = IF \E l \in Lookup : HoldsOld(l, k) THEN raced \cup {k}
                      ELSE raced \ {k}
    /\ edit' = [edit EXCEPT ![e] = [pc |-> "done"]]
    /\ UNCHANGED <<table, lookup, temp, owning, keyTime>>

EditInvalidateFound(e) == Invalidate(e, Exists(edit[e].key))   \* Slip: not of a deleted key
EditInvalidate(e) == Invalidate(e, TRUE)

(***************************************************************************)
(* determineHostOwnershipJob: the cache holds a pointer to the profile, so *)
(* that the job can end it.                                                *)
(***************************************************************************)

OwnersBegin(k) ==
    /\ owning = {} /\ temp[k] = Never /\ ~Cached(k)
    /\ owning' = {k}
    /\ temp' = [temp EXCEPT ![k] = keyTime + Lifetime]
    /\ cache' = [cache EXCEPT ![k] = [at |-> keyTime, row |-> 0, ips |-> 0, begun |-> keyTime]]
    /\ UNCHANGED <<table, lookup, edit, keyTime, raced>>

Owned(expires) ==
    /\ owning # {}
    /\ temp' = [k \in TempKey |-> IF k \in owning THEN expires ELSE temp[k]]
    /\ owning' = {}
    /\ UNCHANGED <<table, cache, lookup, edit, keyTime, raced>>

\* Slip: only when Run returns, not when it panics
OwnersEndReturn == Owned(Past) \/ \E k \in owning : Owned(temp[k])
OwnersEnd == Owned(Past)

\* A lookup takes less than a tick, ten minutes divided by Lifetime, so the
\* clock passes at most once between two of its steps.
KeyTick ==
    /\ keyTime < MaxTime
    /\ \A l \in Lookup : lookup[l].pc # "idle" => lookup[l].begun = keyTime
    /\ keyTime' = keyTime + 1
    /\ UNCHANGED <<table, cache, lookup, edit, temp, owning, raced>>

KeyNext ==
    \/ \E l \in Lookup : LookupIps(l) \/ LookupStore(l)
    \/ \E l \in Lookup, k \in Key \cup TempKey : LookupHit(l, k) \/ LookupRow(l, k)
    \/ \E e \in Edit : EditCommit(e) \/ EditFail(e) \/ EditInvalidate(e)
    \/ \E e \in Edit, k \in Key : EditCreate(e, k)
                                  \/ \E op \in {"update", "delete"} : EditRead(e, k, op)
    \/ \E k \in TempKey : OwnersBegin(k)
    \/ OwnersEnd \/ KeyTick

KeySpec == KeyInit /\ [][KeyNext]_keyVars

(***************************************************************************)
(* Properties.                                                             *)
(***************************************************************************)

Number == 0 .. Cardinality(Edit) + 1

\* An entry is as old as it says, a lookup and an edit that are under way
\* know their key, and only the keys of the job have a time to end.
TypeOK ==
    /\ table \in [Key -> [row : Number, ips : Number]]
    /\ \A k \in Key \cup TempKey :
         cache[k] \in {NoEntry} \cup [at : 0 .. keyTime, row : Number, ips : Number,
                                      begun : 0 .. keyTime]
    /\ \A l \in Lookup :
         \/ lookup[l] = Idle
         \/ lookup[l] \in [pc : {"ips"}, key : Key, row : Number, begun : 0 .. keyTime]
         \/ lookup[l] \in [pc : {"store"}, key : Key, row : Number, ips : Number,
                           begun : 0 .. keyTime]
    /\ \A e \in Edit :
         \/ edit[e].pc \in {"idle", "done"}
         \/ edit[e].pc \in {"commit", "invalidate"} /\ edit[e].key \in Key
    /\ temp \in [TempKey -> 0 .. Never]
    /\ owning \subseteq TempKey
    /\ keyTime \in 0 .. MaxTime
    /\ raced \subseteq Key

\* What the cache serves was read from the table less than the lifetime of an
\* entry and the time of a lookup ago, however the lookups and edits fall.
StalenessBounded ==
    \A k \in Key : Valid(k) => keyTime - cache[k].begun <= Lifetime

\* The cache serves what the table says of a key, its row and its ip ranges,
\* unless an edit of the key is between its commit and its invalidation, or
\* was invalidated while a lookup held what it had read before.
CacheFollowsEdits ==
    \A k \in Key :
      Valid(k) /\ k \notin raced
               /\ (\A e \in Edit : edit[e].pc = "invalidate" => edit[e].key # k)
      => cache[k].row = table[k].row /\ cache[k].ips = table[k].ips

\* What wrapRequireAuth lets a temporary key do
TempAccepted(k) == Valid(k) /\ keyTime < temp[k]

\* A temporary key ends with the run of the job that made it, whether that
\* returns or panics, and with the lifetime of the cache at the latest.
TempKeyDiesWithJob == \A k \in TempKey : TempAccepted(k) => owning = {k}
================================================================================
