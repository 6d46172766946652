-------------------------- MODULE HousekeepingProofs --------------------------
(***************************************************************************)
(* The parts of the service that share no state with the others: API keys  *)
(* and their cache, custom fields, ip ranges, the pruning of versions, the *)
(* interval buffer and the distance of strings.  Each has a section of its *)
(* own: the inductive invariant, the lemmas of its steps, its theorems.    *)
(***************************************************************************)
EXTENDS ApiKeys, CustomFields, IpRanges, Pruning, IntervalBuffer, Levenshtein,
        FiniteSetTheorems, SequenceTheorems, WellFoundedInduction, TLAPS

(***************************************************************************)
(* API keys, for any keys, requests, edits and lifetime of the cache: what *)
(* the cache serves is young and agrees with the table, and a temporary    *)
(* key ends with its run.  The strengthening: lookups that are under way   *)
(* know nothing that is older than a tick or that a settled key has lost.  *)
(***************************************************************************)
Numbers == [row : Number, ips : Number]
Entry == [at : 0 .. MaxTime, row : Number, ips : Number, begun : 0 .. MaxTime]
HasRow == [pc : {"ips"}, key : Key, row : Number, begun : 0 .. MaxTime]
HasBoth == [pc : {"store"}, key : Key, row : Number, ips : Number, begun : 0 .. MaxTime]
MayCommit == [pc : {"commit"}, key : Key, op : {"update", "delete"}]
MayInvalidate == [pc : {"invalidate"}, key : Key]
Done == [pc |-> "done"]

KeyTypes ==
  /\ table \in [Key -> Numbers]
  /\ cache \in [Key \cup TempKey -> {NoEntry} \cup Entry]
  /\ lookup \in [Lookup -> {Idle} \cup HasRow \cup HasBoth]
  /\ edit \in [Edit -> {Idle, Done} \cup MayCommit \cup MayInvalidate]
  /\ temp \in [TempKey -> 0 .. Never]
  /\ owning \subseteq TempKey
  /\ keyTime \in 0 .. MaxTime
  /\ raced \subseteq Key

(* A lookup takes at most one tick, and an entry is as old as the lookup   *)
(* that stored it says.                                                    *)
Young ==
  /\ \A l \in Lookup : lookup[l] # Idle =>
       lookup[l].begun <= keyTime /\ keyTime <= lookup[l].begun + 1
  /\ \A k \in Key \cup TempKey : Cached(k) =>
       /\ cache[k].begun <= cache[k].at /\ cache[k].at <= cache[k].begun + 1
       /\ cache[k].at <= keyTime

(* One run of the job at a time, whose key alone has not ended.            *)
OneOwner ==
  /\ \A k, o \in owning : k = o
  /\ \A k \in TempKey \ owning : temp[k] = Past \/ (temp[k] = Never /\ ~Cached(k))

(* No edit of the key waits for its invalidation or was overtaken.         *)
Settled(k) == k \notin raced /\ \A e \in Edit : edit[e].pc = "invalidate" => edit[e].key # k

(* Of a settled key neither the cache nor a lookup knows what is not in    *)
(* the table any more.                                                     *)
Follows ==
  \A k \in Key : Settled(k) =>
    /\ Cached(k) => cache[k].row = table[k].row /\ cache[k].ips = table[k].ips
    /\ \A l \in Lookup : ~HoldsOld(l, k)

(* Before the first edit, nobody knows a key that is not in the table.     *)
Unborn ==
  (\A e \in Edit : edit[e] = Idle) =>
    \A k \in Key : ~Exists(k) =>
      ~Cached(k) /\ \A l \in Lookup : lookup[l] # Idle => lookup[l].key # k

KeyInv == KeyTypes /\ Young /\ OneOwner /\ Follows /\ Unborn

-----------------------------------------------------------------------------
LEMMA KeyStart == KeyInit => KeyInv
<1> SUFFICES ASSUME KeyInit PROVE KeyInv
  OBVIOUS
<1> USE DEF KeyInit
<1>1. Cardinality(Edit) \in Nat
  BY KeyAssumption, FS_CardinalityType
<1>2. KeyTypes
  <2>1. 0 \in Number /\ 1 \in Number
    BY <1>1 DEF Number
  <2>2. table \in [Key -> Numbers]
    BY <2>1 DEF Numbers
  <2>3. Never \in Nat
    BY KeyAssumption DEF Never
  <2>4. keyTime \in 0 .. MaxTime
    BY KeyAssumption
  <2>5. temp \in [TempKey -> 0 .. Never]
    BY <2>3
  <2> QED
    BY <2>2, <2>4, <2>5 DEF KeyTypes
<1>3. \A k \in Key \cup TempKey : ~Cached(k)
  BY DEF Cached
<1>4. \A l \in Lookup : lookup[l] = Idle /\ lookup[l].pc = "idle"
  BY DEF Idle
<1>5. Young /\ OneOwner
  BY <1>3, <1>4 DEF Young, OneOwner
<1>6. Follows
  BY <1>3, <1>4 DEF Follows, HoldsOld
<1>7. Unborn
  BY <1>3, <1>4 DEF Unborn
<1> QED
  BY <1>2, <1>5, <1>6, <1>7 DEF KeyInv

(* What the states of a lookup, an edit and an entry say.                  *)
LEMMA LookupStates ==
  ASSUME KeyTypes, NEW l \in Lookup
  PROVE  /\ lookup[l].pc = "idle" <=> lookup[l] = Idle
         /\ lookup[l].pc = "ips" => lookup[l] \in HasRow
         /\ lookup[l].pc = "store" => lookup[l] \in HasBoth
         /\ lookup[l].pc \in {"idle", "ips", "store"}
<1>1. lookup[l] \in {Idle} \cup HasRow \cup HasBoth
  BY DEF KeyTypes
<1> QED
  BY <1>1 DEF Idle, HasRow, HasBoth

LEMMA EditStates ==
  ASSUME KeyTypes, NEW e \in Edit
  PROVE  /\ edit[e].pc = "idle" <=> edit[e] = Idle
         /\ edit[e].pc = "done" <=> edit[e] = Done
         /\ edit[e].pc = "commit" => edit[e] \in MayCommit
         /\ edit[e].pc = "invalidate" => edit[e] \in MayInvalidate
         /\ edit[e].pc \in {"idle", "done", "commit", "invalidate"}
<1>1. edit[e] \in {Idle, Done} \cup MayCommit \cup MayInvalidate
  BY DEF KeyTypes
<1> QED
  BY <1>1 DEF Idle, Done, MayCommit, MayInvalidate

LEMMA EntryIsAnEntry ==
  ASSUME KeyTypes, NEW k \in Key \cup TempKey, Cached(k)
  PROVE  cache[k] \in Entry
BY DEF KeyTypes, Cached

(* An edit gives a number that is within the type, since it has not        *)
(* committed yet.                                                          *)
LEMMA NextNumberType ==
  ASSUME NEW e \in Edit, edit[e].pc \notin {"invalidate", "done"}
  PROVE  NextNumber \in Number /\ NextNumber > 0
<1> DEFINE S == {o \in Edit : edit[o].pc \in {"invalidate", "done"}}
<1>1. IsFiniteSet(Edit)
  BY KeyAssumption
<1>2. S \subseteq Edit \ {e}
  OBVIOUS
<1>3. IsFiniteSet(Edit \ {e}) /\ Cardinality(Edit \ {e}) = Cardinality(Edit) - 1
  BY <1>1, FS_RemoveElement
<1>4. IsFiniteSet(S) /\ Cardinality(S) <= Cardinality(Edit \ {e})
  BY <1>2, <1>3, FS_Subset
<1>5. Cardinality(S) \in Nat /\ Cardinality(Edit) \in Nat
  BY <1>1, <1>4, FS_CardinalityType
<1>6. NextNumber = 2 + Cardinality(S)
  BY DEF NextNumber
<1> HIDE DEF S
<1> QED
  BY <1>3, <1>4, <1>5, <1>6 DEF Number

LEMMA ZeroIsANumber == 0 \in Number
<1>1. Cardinality(Edit) \in Nat
  BY KeyAssumption, FS_CardinalityType
<1> QED
  BY <1>1 DEF Number

(* A hit leaves even the time of the entry alone.                          *)
LEMMA HitChangesNothing ==
  ASSUME KeyTypes, NEW l \in Lookup, NEW k \in Key \cup TempKey, LookupHit(l, k)
  PROVE  UNCHANGED keyVars
<1>1. cache[k] \in Entry
  BY EntryIsAnEntry DEF LookupHit, Hit, Valid
<1>2. [cache[k] EXCEPT !.at = cache[k].at] = cache[k]
  BY <1>1 DEF Entry
<1>3. cache' = [cache EXCEPT ![k] = [cache[k] EXCEPT !.at = cache[k].at]]
  BY DEF LookupHit, Hit
<1>4. cache' = cache
  BY <1>2, <1>3 DEF KeyTypes
<1> QED
  BY <1>4 DEF LookupHit, Hit, keyVars

LEMMA NothingChanges == KeyInv /\ UNCHANGED keyVars => KeyInv'
BY DEF keyVars, KeyInv, KeyTypes, Numbers, Young, OneOwner, Follows, Settled, HoldsOld, Unborn,
       Cached, Exists

LEMMA RowStep ==
  ASSUME KeyInv, NEW l \in Lookup, NEW k \in Key, LookupRow(l, k)
  PROVE  KeyInv'
<1> USE DEF KeyInv
<1> DEFINE read == [pc |-> "ips", key |-> k, row |-> table[k].row, begun |-> keyTime]
<1>1. /\ lookup' = [lookup EXCEPT ![l] = read] /\ Exists(k)
      /\ UNCHANGED <<table, cache, edit, temp, owning, keyTime, raced>>
  BY DEF LookupRow
<1>2. read \in HasRow /\ read.pc = "ips" /\ read.begun = keyTime /\ read.key = k
      /\ read.row = table[k].row /\ read # Idle
  BY DEF KeyTypes, HasRow, Numbers, Idle
<1> HIDE DEF read
<1>3. \A m \in Lookup : lookup'[m] = IF m = l THEN read ELSE lookup[m]
  BY <1>1 DEF KeyTypes
<1>4. KeyTypes'
  BY <1>1, <1>2 DEF KeyTypes
<1>5. Young'
  BY <1>1, <1>2, <1>3 DEF Young, KeyTypes, Cached
<1>6. OneOwner'
  BY <1>1 DEF OneOwner, Cached
<1>7. Follows'
  BY <1>1, <1>2, <1>3 DEF Follows, Settled, HoldsOld, Cached
<1>8. Unborn'
  BY <1>1, <1>2, <1>3 DEF Unborn, Cached, Exists
<1> QED
  BY <1>4, <1>5, <1>6, <1>7, <1>8

LEMMA IpsStep ==
  ASSUME KeyInv, NEW l \in Lookup, LookupIps(l)
  PROVE  KeyInv'
<1> USE DEF KeyInv
<1> DEFINE old == lookup[l]
           read == [pc |-> "store", key |-> old.key, row |-> old.row, begun |-> old.begun,
                    ips |-> table[old.key].ips]
<1>1. /\ lookup' = [lookup EXCEPT ![l] = read] /\ old \in HasRow /\ old # Idle
      /\ UNCHANGED <<table, cache, edit, temp, owning, keyTime, raced>>
  BY LookupStates DEF LookupIps, Idle
<1>2. read \in HasBoth /\ read.pc = "store" /\ read.begun = old.begun /\ read.key = old.key
      /\ read.row = old.row /\ read.ips = table[old.key].ips /\ read # Idle
  BY <1>1 DEF KeyTypes, HasRow, HasBoth, Numbers, Idle
<1> HIDE DEF read
<1>3. \A m \in Lookup : lookup'[m] = IF m = l THEN read ELSE lookup[m]
  BY <1>1 DEF KeyTypes
<1>4. KeyTypes'
  BY <1>1, <1>2 DEF KeyTypes
<1>5. Young'
  BY <1>1, <1>2, <1>3 DEF Young, Cached
<1>6. OneOwner'
  BY <1>1 DEF OneOwner, Cached
<1>7. Follows'
  BY <1>1, <1>2, <1>3 DEF Follows, Settled, HoldsOld, Cached, LookupIps
<1>8. Unborn'
  BY <1>1, <1>2, <1>3 DEF Unborn, Cached, Exists
<1> QED
  BY <1>4, <1>5, <1>6, <1>7, <1>8

LEMMA StoreStep ==
  ASSUME KeyInv, NEW l \in Lookup, LookupStore(l)
  PROVE  KeyInv'
<1> USE DEF KeyInv
<1> DEFINE old == lookup[l]
           entry == [at |-> keyTime, row |-> old.row, ips |-> old.ips, begun |-> old.begun]
<1>1. /\ lookup' = [lookup EXCEPT ![l] = Idle] /\ old \in HasBoth /\ old # Idle
      /\ UNCHANGED <<table, edit, temp, owning, keyTime, raced>>
  BY LookupStates DEF LookupStore, Store, Idle
<1>2. entry \in Entry /\ entry.at = keyTime /\ entry.begun = old.begun
      /\ entry.row = old.row /\ entry.ips = old.ips
  BY <1>1 DEF KeyTypes, HasBoth, Entry
<1>3. PICK purged \in {{}, {k \in Key \cup TempKey : Old(k)}} :
        cache' = [k \in Key \cup TempKey |->
                     IF k = old.key THEN entry
                     ELSE IF k \in purged THEN NoEntry ELSE cache[k]]
  BY DEF LookupStore, Store
<1>4. old.key \in Key /\ old.pc = "store"
  BY <1>1 DEF HasBoth
<1> HIDE DEF entry
<1>5. \A m \in Lookup : lookup'[m] = IF m = l THEN Idle ELSE lookup[m]
  BY <1>1 DEF KeyTypes
<1>6. \A k \in Key \cup TempKey : cache'[k] = cache[k] \/ cache'[k] = NoEntry \/
                                  (k = old.key /\ cache'[k] = entry)
  BY <1>3
<1>7. KeyTypes'
  BY <1>1, <1>2, <1>3 DEF KeyTypes
<1>8. Young'
  BY <1>1, <1>2, <1>5, <1>6 DEF Young, Cached, KeyTypes, Entry, HasBoth
<1>9. OneOwner'
  BY <1>1, <1>4, <1>6, KeyAssumption DEF OneOwner, Cached
<1>10. Follows'
  <2> SUFFICES ASSUME NEW k \in Key, Settled(k)
               PROVE  /\ Cached(k)' => cache'[k].row = table[k].row /\ cache'[k].ips = table[k].ips
                      /\ \A m \in Lookup : ~HoldsOld(m, k)'
    BY <1>1 DEF Follows, Settled
  <2>1. ~HoldsOld(l, k)
    BY DEF Follows
  <2>2. k = old.key => old.row = table[k].row /\ old.ips = table[k].ips
    BY <1>4, <2>1 DEF HoldsOld
  <2>3. Cached(k)' => cache'[k].row = table[k].row /\ cache'[k].ips = table[k].ips
    BY <1>2, <1>6, <2>2 DEF Follows, Cached
  <2>4. \A m \in Lookup : ~HoldsOld(m, k)'
    BY <1>1, <1>5 DEF Follows, HoldsOld, Idle
  <2> QED
    BY <2>3, <2>4
<1>11. Unborn'
  BY <1>1, <1>4, <1>5, <1>6 DEF Unborn, Cached, Exists
<1> QED
  BY <1>7, <1>8, <1>9, <1>10, <1>11

-----------------------------------------------------------------------------
LEMMA CreateStep ==
  ASSUME KeyInv, NEW e \in Edit, NEW k \in Key, EditCreate(e, k)
  PROVE  KeyInv'
<1> USE DEF KeyInv
<1> DEFINE new == [row |-> NextNumber, ips |-> NextNumber]
<1>1. /\ table' = [table EXCEPT ![k] = new]
      /\ ~Exists(k) /\ \A o \in Edit : edit[o] = Idle
      /\ UNCHANGED <<cache, lookup, temp, owning, keyTime, raced>>
  BY DEF EditCreate
<1>2. edit' = [edit EXCEPT ![e] = Done]
  <2>1. edit[e] = [pc |-> "idle"]
    BY <1>1 DEF Idle
  <2>2. [edit[e] EXCEPT !.pc = "done"] = Done
    BY <2>1 DEF Done
  <2> QED
    BY <2>2 DEF EditCreate
<1>3. new \in Numbers
  BY <1>1, NextNumberType DEF Idle, Numbers
<1> HIDE DEF new
<1>4. \A o \in Edit : edit'[o] = IF o = e THEN Done ELSE edit[o]
  BY <1>2 DEF KeyTypes
<1>5. \A h \in Key : table'[h] = IF h = k THEN new ELSE table[h]
  BY <1>1 DEF KeyTypes
<1>6. KeyTypes'
  BY <1>1, <1>2, <1>3 DEF KeyTypes
<1>7. Young' /\ OneOwner'
  BY <1>1 DEF Young, OneOwner, Cached
<1>8. Follows'
  <2>1. ~Cached(k) /\ \A l \in Lookup : lookup[l] # Idle => lookup[l].key # k
    BY <1>1 DEF Unborn
  <2>2. \A l \in Lookup : lookup[l].pc \in {"ips", "store"} => lookup[l] # Idle
    BY DEF Idle
  <2> QED
    BY <1>1, <1>5, <2>1, <2>2 DEF Follows, Settled, HoldsOld, Cached, Idle
<1>9. Unborn'
  BY <1>4 DEF Unborn, Done, Idle
<1> QED
  BY <1>6, <1>7, <1>8, <1>9

LEMMA ReadStep ==
  ASSUME KeyInv, NEW e \in Edit, NEW k \in Key, NEW op \in {"update", "delete"},
         EditRead(e, k, op)
  PROVE  KeyInv'
<1> USE DEF KeyInv
<1> DEFINE read == [pc |-> "commit", key |-> k, op |-> op]
<1>1. /\ edit' = [edit EXCEPT ![e] = read]
      /\ UNCHANGED <<table, cache, lookup, temp, owning, keyTime, raced>>
  BY DEF EditRead
<1>2. read \in MayCommit /\ read.pc = "commit" /\ read # Idle
  BY DEF MayCommit, Idle
<1>3. edit[e].pc = "idle"
  BY DEF EditRead
<1> HIDE DEF read
<1>4. \A o \in Edit : edit'[o] = IF o = e THEN read ELSE edit[o]
  BY <1>1 DEF KeyTypes
<1>5. KeyTypes'
  BY <1>1, <1>2 DEF KeyTypes
<1>6. Young' /\ OneOwner'
  BY <1>1 DEF Young, OneOwner, Cached
<1>7. Follows'
  BY <1>1, <1>2, <1>3, <1>4 DEF Follows, Settled, HoldsOld, Cached
<1>8. Unborn'
  BY <1>2, <1>4 DEF Unborn
<1> QED
  BY <1>5, <1>6, <1>7, <1>8

(* From its commit to its invalidation, the key is not settled.            *)
LEMMA CommitKeepsKeys ==
  ASSUME KeyInv, NEW e \in Edit, EditCommit(e)
  PROVE  KeyInv'
<1> USE DEF KeyInv
<1> DEFINE k == edit[e].key
           new == IF edit[e].op = "delete" \/ ~Exists(k) THEN [row |-> 0, ips |-> 0]
                  ELSE [row |-> NextNumber, ips |-> NextNumber]
           next == [pc |-> "invalidate", key |-> k]
<1>1. /\ table' = [table EXCEPT ![k] = new]
      /\ edit' = [edit EXCEPT ![e] = next]
      /\ UNCHANGED <<cache, lookup, temp, owning, keyTime, raced>>
  BY DEF EditCommit
<1>2. edit[e].pc = "commit" /\ k \in Key
  BY EditStates DEF EditCommit, MayCommit
<1>3. new \in Numbers
  BY <1>2, NextNumberType, ZeroIsANumber DEF Numbers
<1>4. next \in MayInvalidate /\ next.pc = "invalidate" /\ next.key = k /\ next # Idle
  BY <1>2 DEF MayInvalidate, Idle
<1> HIDE DEF new, next
<1>5. \A o \in Edit : edit'[o] = IF o = e THEN next ELSE edit[o]
  BY <1>1 DEF KeyTypes
<1>6. \A h \in Key \ {k} : table'[h] = table[h]
  BY <1>1 DEF KeyTypes
<1>7. KeyTypes'
  BY <1>1, <1>2, <1>3, <1>4 DEF KeyTypes
<1>8. Young' /\ OneOwner'
  BY <1>1 DEF Young, OneOwner, Cached
<1>9. Follows'
  <2> SUFFICES ASSUME NEW h \in Key, Settled(h)'
               PROVE  /\ Cached(h)' => cache'[h].row = table'[h].row /\ cache'[h].ips = table'[h].ips
                      /\ \A l \in Lookup : ~HoldsOld(l, h)'
    BY DEF Follows
  <2>1. h # k /\ Settled(h)
    BY <1>1, <1>2, <1>4, <1>5 DEF Settled
  <2> QED
    BY <1>1, <1>6, <2>1 DEF Follows, HoldsOld, Cached
<1>10. Unborn'
  BY <1>4, <1>5 DEF Unborn
<1> QED
  BY <1>7, <1>8, <1>9, <1>10

LEMMA FailStep ==
  ASSUME KeyInv, NEW e \in Edit, EditFail(e)
  PROVE  KeyInv'
<1> USE DEF KeyInv
<1>1. /\ edit' = [edit EXCEPT ![e] = Done] /\ edit[e].pc = "commit"
      /\ UNCHANGED <<table, cache, lookup, temp, owning, keyTime, raced>>
  BY DEF EditFail, Done
<1>2. \A o \in Edit : edit'[o] = IF o = e THEN Done ELSE edit[o]
  BY <1>1 DEF KeyTypes
<1>3. KeyTypes'
  BY <1>1 DEF KeyTypes
<1>4. Young' /\ OneOwner'
  BY <1>1 DEF Young, OneOwner, Cached
<1>5. Follows'
  BY <1>1, <1>2 DEF Follows, Settled, HoldsOld, Cached, Done
<1>6. Unborn'
  BY <1>2 DEF Unborn, Done, Idle
<1> QED
  BY <1>3, <1>4, <1>5, <1>6

(* The invalidation settles the key, unless a lookup holds an old answer.  *)
LEMMA InvalidateStep ==
  ASSUME KeyInv, NEW e \in Edit, EditInvalidate(e)
  PROVE  KeyInv'
<1> USE DEF KeyInv
<1> DEFINE k == edit[e].key
<1>1. /\ edit' = [edit EXCEPT ![e] = Done] /\ edit[e].pc = "invalidate"
      /\ cache' = [cache EXCEPT ![k] = NoEntry]
      /\ raced' = IF \E l \in Lookup : HoldsOld(l, k) THEN raced \cup {k} ELSE raced \ {k}
      /\ UNCHANGED <<table, lookup, temp, owning, keyTime>>
  BY DEF EditInvalidate, Invalidate, Done
<1>2. k \in Key
  BY <1>1, EditStates DEF MayInvalidate
<1> HIDE DEF k
<1>3. \A o \in Edit : edit'[o] = IF o = e THEN Done ELSE edit[o]
  BY <1>1 DEF KeyTypes
<1>4. \A h \in Key \cup TempKey : cache'[h] = IF h = k THEN NoEntry ELSE cache[h]
  BY <1>1 DEF KeyTypes
<1>5. KeyTypes'
  BY <1>1, <1>2 DEF KeyTypes
<1>6. Young'
  BY <1>1, <1>4 DEF Young, Cached
<1>7. OneOwner'
  BY <1>1, <1>2, <1>4, KeyAssumption DEF OneOwner, Cached
<1>8. Follows'
  <2> SUFFICES ASSUME NEW h \in Key, Settled(h)'
               PROVE  /\ Cached(h)' => cache'[h].row = table[h].row /\ cache'[h].ips = table[h].ips
                      /\ \A l \in Lookup : ~HoldsOld(l, h)
    BY <1>1 DEF Follows, HoldsOld
  <2>1. CASE h = k
    BY <1>1, <1>2, <1>4, <2>1 DEF Settled, Cached
  <2>2. CASE h # k
    <3>1. Settled(h)
      <4>1. edit[e].key # h
        BY <2>2 DEF k
      <4> QED
        BY <1>1, <1>3, <2>2, <4>1 DEF Settled
    <3> QED
      BY <1>4, <2>2, <3>1 DEF Follows, Cached
  <2> QED
    BY <2>1, <2>2
<1>9. Unborn'
  BY <1>3 DEF Unborn, Done, Idle
<1> QED
  BY <1>5, <1>6, <1>7, <1>8, <1>9

-----------------------------------------------------------------------------
LEMMA BeginStep ==
  ASSUME KeyInv, NEW k \in TempKey, OwnersBegin(k)
  PROVE  KeyInv'
<1> USE DEF KeyInv
<1> DEFINE entry == [at |-> keyTime, row |-> 0, ips |-> 0, begun |-> keyTime]
<1>1. /\ owning = {} /\ owning' = {k}
      /\ temp' = [temp EXCEPT ![k] = keyTime + Lifetime]
      /\ cache' = [cache EXCEPT ![k] = entry]
      /\ UNCHANGED <<table, lookup, edit, keyTime, raced>>
  BY DEF OwnersBegin
<1>2. entry \in Entry /\ entry.at = keyTime /\ entry.begun = keyTime
  BY ZeroIsANumber DEF Entry, KeyTypes
<1>3. k \notin Key
  BY KeyAssumption
<1> HIDE DEF entry
<1>4. \A h \in Key \cup TempKey : cache'[h] = IF h = k THEN entry ELSE cache[h]
  BY <1>1 DEF KeyTypes
<1>5. keyTime + Lifetime \in 0 .. Never
  BY KeyAssumption DEF KeyTypes, Never
<1>6. KeyTypes'
  <2>1. temp' \in [TempKey -> 0 .. Never]
    BY <1>1, <1>5 DEF KeyTypes
  <2>2. cache' \in [Key \cup TempKey -> {NoEntry} \cup Entry]
    BY <1>1, <1>2 DEF KeyTypes
  <2> QED
    BY <1>1, <2>1, <2>2 DEF KeyTypes
<1>7. Young'
  BY <1>1, <1>2, <1>4 DEF Young, Cached, KeyTypes
<1>8. OneOwner'
  BY <1>1, <1>4 DEF OneOwner, Cached, KeyTypes
<1>9. Follows'
  BY <1>1, <1>3, <1>4 DEF Follows, Settled, HoldsOld, Cached
<1>10. Unborn'
  BY <1>1, <1>3, <1>4 DEF Unborn, Cached, Exists
<1> QED
  BY <1>6, <1>7, <1>8, <1>9, <1>10

(* However the run ends, its key has ended with it.                        *)
LEMMA EndStep ==
  ASSUME KeyInv, OwnersEnd
  PROVE  KeyInv'
<1> USE DEF KeyInv
<1>1. /\ temp' = [k \in TempKey |-> IF k \in owning THEN Past ELSE temp[k]]
      /\ owning' = {}
      /\ UNCHANGED <<table, cache, lookup, edit, keyTime, raced>>
  BY DEF OwnersEnd, Owned
<1>2. KeyTypes'
  <2>1. Past \in 0 .. Never
    BY KeyAssumption DEF Past, Never
  <2> QED
    BY <1>1, <2>1 DEF KeyTypes
<1>3. Young' /\ Follows' /\ Unborn'
  BY <1>1 DEF Young, Follows, Settled, HoldsOld, Unborn, Cached, Exists
<1>4. OneOwner'
  BY <1>1 DEF OneOwner, Cached
<1> QED
  BY <1>2, <1>3, <1>4

LEMMA KeyTickStep ==
  ASSUME KeyInv, KeyTick
  PROVE  KeyInv'
<1> USE DEF KeyInv
<1>1. /\ keyTime < MaxTime /\ keyTime' = keyTime + 1
      /\ \A l \in Lookup : lookup[l].pc # "idle" => lookup[l].begun = keyTime
      /\ UNCHANGED <<table, cache, lookup, edit, temp, owning, raced>>
  BY DEF KeyTick
<1>2. keyTime \in Nat /\ MaxTime \in Nat /\ keyTime' \in 0 .. MaxTime
  BY <1>1, KeyAssumption DEF KeyTypes
<1>3. KeyTypes'
  BY <1>1, <1>2 DEF KeyTypes
<1>4. Young'
  <2>1. \A l \in Lookup : lookup[l] # Idle => lookup[l].begun = keyTime
    BY <1>1, LookupStates
  <2>2. \A k \in Key \cup TempKey : Cached(k) => cache[k].at \in Nat
    BY <1>2, EntryIsAnEntry DEF Entry
  <2> QED
    BY <1>1, <1>2, <2>1, <2>2 DEF Young, Cached
<1>5. OneOwner' /\ Follows' /\ Unborn'
  BY <1>1 DEF OneOwner, Follows, Settled, HoldsOld, Unborn, Cached, Exists
<1> QED
  BY <1>3, <1>4, <1>5

LEMMA KeyStep == KeyInv /\ [KeyNext]_keyVars => KeyInv'
<1> SUFFICES ASSUME KeyInv, [KeyNext]_keyVars PROVE KeyInv'
  OBVIOUS
<1>1. ASSUME NEW l \in Lookup, NEW k \in Key \cup TempKey, LookupHit(l, k) \/ LookupRow(l, k)
      PROVE  KeyInv'
  <2>1. CASE LookupHit(l, k)
    BY <2>1, HitChangesNothing, NothingChanges DEF KeyInv
  <2>2. CASE LookupRow(l, k)
    BY <2>2, RowStep DEF LookupRow
  <2> QED
    BY <1>1, <2>1, <2>2
<1> QED
  BY <1>1, IpsStep, StoreStep, CreateStep, ReadStep, CommitKeepsKeys, FailStep, InvalidateStep,
     BeginStep, EndStep, KeyTickStep, NothingChanges DEF KeyNext

LEMMA KeyInvariant == KeySpec => []KeyInv
BY KeyStart, KeyStep, PTL DEF KeySpec

-----------------------------------------------------------------------------
(* Keys, entries, lookups and edits stay what they are                     *)
(* (GetAccessProfileForAPIkey, api_keys.go).                               *)
THEOREM KeysAreTyped == KeySpec => []TypeOK
<1>1. KeyInv => TypeOK
  <2> SUFFICES ASSUME KeyInv PROVE TypeOK
    OBVIOUS
  <2>1. /\ table \in [Key -> [row : Number, ips : Number]]
        /\ temp \in [TempKey -> 0 .. Never] /\ owning \subseteq TempKey
        /\ keyTime \in 0 .. MaxTime /\ raced \subseteq Key
    BY DEF KeyInv, KeyTypes, Numbers
  <2>2. ASSUME NEW k \in Key \cup TempKey, cache[k] # NoEntry
        PROVE  cache[k] \in [at : 0 .. keyTime, row : Number, ips : Number, begun : 0 .. keyTime]
    <3>1. cache[k] \in Entry
      BY <2>2, EntryIsAnEntry DEF KeyInv, Cached
    <3>2. cache[k].begun <= cache[k].at /\ cache[k].at <= keyTime
      BY <2>2 DEF KeyInv, Young, Cached
    <3> QED
      BY <2>1, <3>1, <3>2, KeyAssumption DEF Entry
  <2>3. ASSUME NEW l \in Lookup, lookup[l] # Idle
        PROVE  \/ lookup[l] \in [pc : {"ips"}, key : Key, row : Number, begun : 0 .. keyTime]
               \/ lookup[l] \in [pc : {"store"}, key : Key, row : Number, ips : Number,
                                 begun : 0 .. keyTime]
    <3>1. lookup[l] \in HasRow \cup HasBoth /\ lookup[l].begun <= keyTime
      BY <2>3 DEF KeyInv, KeyTypes, Young
    <3> QED
      BY <2>1, <3>1, KeyAssumption DEF HasRow, HasBoth
  <2>4. ASSUME NEW e \in Edit
        PROVE  \/ edit[e].pc \in {"idle", "done"}
               \/ edit[e].pc \in {"commit", "invalidate"} /\ edit[e].key \in Key
    BY EditStates DEF KeyInv, MayCommit, MayInvalidate
  <2> QED
    BY <2>1, <2>2, <2>3, <2>4 DEF TypeOK
<1> QED
  BY <1>1, KeyInvariant, PTL

(* What the cache serves was read less than the lifetime of an entry and   *)
(* the time of a lookup ago, for any number of requests and any lifetime   *)
(* (GetAccessProfileForAPIkey).                                            *)
THEOREM CacheIsYoung == KeySpec => []StalenessBounded
<1>1. KeyInv => StalenessBounded
  <2> SUFFICES ASSUME KeyInv, NEW k \in Key, Valid(k)
               PROVE  keyTime - cache[k].begun <= Lifetime
    BY DEF StalenessBounded
  <2>1. cache[k] \in Entry /\ cache[k].at <= cache[k].begun + 1
    BY EntryIsAnEntry DEF KeyInv, Young, Valid
  <2>2. keyTime - cache[k].at < Lifetime
    BY DEF Valid
  <2> QED
    BY <2>1, <2>2, KeyAssumption DEF Entry, KeyInv, KeyTypes
<1> QED
  BY <1>1, KeyInvariant, PTL

(* The cache serves what the table says, unless an edit has committed and  *)
(* not invalidated yet or a lookup overtook its invalidation, for any      *)
(* number of lookups and edits (invalidateCacheForKey).                    *)
THEOREM CacheAgreesWithTable == KeySpec => []CacheFollowsEdits
<1>1. KeyInv => CacheFollowsEdits
  BY DEF KeyInv, Follows, Settled, CacheFollowsEdits, Valid
<1> QED
  BY <1>1, KeyInvariant, PTL

(* A temporary key is good for the run of the job that made it and no      *)
(* longer, for any lifetime of the cache (determineHostOwnershipJob.Run).  *)
THEOREM TempKeyEnds == KeySpec => []TempKeyDiesWithJob
<1>1. KeyInv => TempKeyDiesWithJob
  <2> SUFFICES ASSUME KeyInv, NEW k \in TempKey, TempAccepted(k)
               PROVE  owning = {k}
    BY DEF TempKeyDiesWithJob
  <2>1. Cached(k) /\ keyTime < temp[k] /\ keyTime >= 0
    BY KeyAssumption DEF TempAccepted, Valid, KeyInv, KeyTypes
  <2>2. k \in owning
    BY <2>1 DEF KeyInv, KeyTypes, OneOwner, Past
  <2> QED
    BY <2>2 DEF KeyInv, OneOwner
<1> QED
  BY <1>1, KeyInvariant, PTL

-----------------------------------------------------------------------------
(***************************************************************************)
(* Custom fields, for any file names, expressions, goroutines and bounds:  *)
(* a stored value never outlives the definition it was found with, and     *)
(* never goes over to a new definition under the same name; when nothing   *)
(* is left to parse it is what the present definition finds.  The          *)
(* strengthening: otherwise a parse or a mark is due.                      *)
(***************************************************************************)

Version == [file : File, hits : SUBSET Regexp, current : BOOLEAN, parsed : BOOLEAN]
Definition == [id : Nat \ {0}, files : SUBSET File, regexp : Regexp]
Value == [id : Nat \ {0}, row : Nat, regexp : Regexp]

FieldTypes ==
  /\ rows \in Seq(Version)
  /\ field \in {NoField} \cup Definition
  /\ value \in {NoValue} \cup Value
  /\ ids \in Nat
  /\ todo \subseteq DOMAIN rows
  /\ worker \in [Worker -> [pc : {"idle", "picked", "read"}, row : Nat,
                            def : {NoField} \cup Definition]]
  /\ \A w \in Worker : worker[w].pc # "idle" => worker[w].row \in DOMAIN rows

FieldInv == FieldTypes /\ NoOrphan

-----------------------------------------------------------------------------
LEMMA FieldStart == FieldInit => FieldInv
BY DEF FieldInit, FieldInv, FieldTypes, NoOrphan, NoField, NoValue, IdleWorker

(* Versions may be added and marked, nothing else.                         *)
LEMMA RowsGrow ==
  ASSUME FieldInv, rows' \in Seq(Version), DOMAIN rows \subseteq DOMAIN rows',
         UNCHANGED <<field, value, ids, todo, worker>>
  PROVE  FieldInv'
BY DEF FieldInv, FieldTypes, NoOrphan

LEMMA UploadStep ==
  ASSUME FieldInv, NEW f \in File, NEW hits \in SUBSET Regexp, Upload(f, hits)
  PROVE  FieldInv'
<1> DEFINE old == [r \in DOMAIN rows |-> [rows[r] EXCEPT !.current = @ /\ rows[r].file # f]]
           new == [file |-> f, hits |-> hits, current |-> TRUE, parsed |-> FALSE]
<1>1. rows \in Seq(Version) /\ DOMAIN rows = 1 .. Len(rows) /\ Len(rows) \in Nat
  BY DEF FieldInv, FieldTypes
<1>2. \A r \in DOMAIN rows : rows[r] \in Version
  BY <1>1
<1>3. \A r \in DOMAIN rows : [rows[r] EXCEPT !.current = @ /\ rows[r].file # f] \in Version
  BY <1>2 DEF Version
<1>4. old \in Seq(Version) /\ Len(old) = Len(rows)
  BY <1>1, <1>3
<1>5. new \in Version
  BY DEF Version
<1>6. rows' = Append(old, new)
  BY DEF Upload
<1> HIDE DEF old, new
<1>7. rows' \in Seq(Version) /\ DOMAIN rows \subseteq DOMAIN rows'
  BY <1>1, <1>4, <1>5, <1>6
<1> QED
  BY <1>7, RowsGrow DEF Upload

LEMMA MarkStep ==
  ASSUME FieldInv, NEW p \in Pattern, Mark(p)
  PROVE  FieldInv'
<1> DEFINE mark(r) == [rows[r] EXCEPT !.parsed = @ /\ ~(rows[r].current /\ rows[r].file \in p)]
<1>1. rows \in Seq(Version) /\ DOMAIN rows = 1 .. Len(rows) /\ Len(rows) \in Nat
  BY DEF FieldInv, FieldTypes
<1>4. \A r \in DOMAIN rows : rows[r] \in Version
  BY <1>1
<1>2. \A r \in DOMAIN rows : mark(r) \in Version
  BY <1>4 DEF Version
<1>3. rows' = [r \in DOMAIN rows |-> mark(r)]
  BY DEF Mark
<1> HIDE DEF mark
<1>5. rows' \in Seq(Version) /\ DOMAIN rows' = DOMAIN rows
  BY <1>1, <1>2, <1>3
<1> QED
  BY <1>5, RowsGrow DEF Mark

LEMMA RequestStep ==
  ASSUME FieldInv, NEW p \in Pattern, NEW re \in Regexp, Create(p, re) \/ Put(p, re)
  PROVE  FieldInv'
<1>1. /\ field' \in {NoField} \cup Definition /\ ids' \in Nat
      /\ value' = NoValue \/ (value' = value /\ (value = NoValue \/ field'.id = field.id))
  <2>1. p \in SUBSET File
    BY PatternAssumption
  <2>2. CASE Create(p, re)
    <3>1. [id |-> ids + 1, files |-> p, regexp |-> re] \in Definition
      BY <2>1 DEF FieldInv, FieldTypes, Definition
    <3>2. value = NoValue
      BY <2>2 DEF Create, FieldInv, FieldTypes, NoOrphan, NoField, Value
    <3> QED
      BY <2>2, <3>1, <3>2 DEF Create, Change, FieldInv, FieldTypes
  <2>3. CASE Put(p, re)
    <3>1. field.id \in Nat \ {0}
      BY <2>3 DEF Put, FieldInv, FieldTypes, Definition
    <3>2. [id |-> field.id, files |-> p, regexp |-> re] \in Definition
      BY <2>1, <3>1 DEF Definition
    <3> QED
      BY <2>3, <3>2 DEF Put, Change, FieldInv, FieldTypes
  <2> QED
    BY <2>2, <2>3
<1>2. UNCHANGED <<rows, todo, worker>>
  BY DEF Create, Put, Change
<1> QED
  BY <1>1, <1>2 DEF FieldInv, FieldTypes, NoOrphan

(* The foreign key makes the transaction fail when the definition is gone, *)
(* so that what it writes is found with the definition that is there.      *)
LEMMA CommitStep ==
  ASSUME FieldInv, NEW w \in Worker, Commit(w)
  PROVE  FieldInv'
<1> DEFINE def == worker[w].def  r == worker[w].row
<1>1. /\ rows \in Seq(Version) /\ r \in DOMAIN rows /\ r \in Nat
      /\ def \in {NoField} \cup Definition /\ ~KeyFails(def, r)
      /\ value' = Written(def, r) /\ rows' = [rows EXCEPT ![r].parsed = TRUE]
      /\ UNCHANGED <<field, todo, ids>>
  BY DEF Commit, FieldInv, FieldTypes
<1>2. /\ value' \in {NoValue} \cup Value
      /\ value' # NoValue => \/ value' = value
                             \/ value'.id = field.id /\ value'.row = r
  <2>1. CASE value' = value
    BY <2>1 DEF FieldInv, FieldTypes
  <2>2. CASE value' = NoValue
    BY <2>2
  <2>3. CASE value' # value /\ value' # NoValue
    <3>1. /\ def # NoField /\ Found(def, r) /\ field.id = def.id
          /\ value' = [id |-> def.id, row |-> r, regexp |-> def.regexp]
      BY <1>1, <2>3 DEF Written, ValueOf, KeyFails
    <3> QED
      BY <1>1, <3>1 DEF Definition, Value
  <2> QED
    BY <2>1, <2>2, <2>3
<1>3. rows' \in Seq(Version) /\ DOMAIN rows' = DOMAIN rows
  <2>2. rows[r] \in Version
    BY <1>1
  <2>1. [rows[r] EXCEPT !.parsed = TRUE] \in Version
    BY <2>2 DEF Version
  <2> QED
    BY <1>1, <2>1
<1>4. \A v \in Worker : worker'[v] = IF v = w THEN IdleWorker ELSE worker[v]
  BY DEF Commit, Free, FieldInv, FieldTypes
<1>5. worker' \in [Worker -> [pc : {"idle", "picked", "read"}, row : Nat,
                              def : {NoField} \cup Definition]]
  BY DEF Commit, Free, FieldInv, FieldTypes, IdleWorker
<1> QED
  BY <1>1, <1>2, <1>3, <1>4, <1>5 DEF FieldInv, FieldTypes, NoOrphan, IdleWorker

(* The steps of the job that write nothing                                 *)
LEMMA JobStep ==
  ASSUME FieldInv, \/ RunBegins
                   \/ \E w \in Worker : Pick(w) \/ Read(w) \/ Rollback(w)
  PROVE  FieldInv'
<1>1. CASE RunBegins
  BY <1>1 DEF RunBegins, FieldInv, FieldTypes, NoOrphan
<1>2. ASSUME NEW w \in Worker, Pick(w) PROVE FieldInv'
  <2>1. PICK r \in todo : /\ todo' = todo \ {r}
                          /\ worker' = [worker EXCEPT ![w] = [pc |-> "picked", row |-> r, def |-> NoField]]
    BY <1>2 DEF Pick
  <2>2. r \in DOMAIN rows /\ r \in Nat
    BY <2>1 DEF FieldInv, FieldTypes
  <2> QED
    BY <1>2, <2>1, <2>2 DEF Pick, FieldInv, FieldTypes, NoOrphan
<1>3. ASSUME NEW w \in Worker, Read(w) PROVE FieldInv'
  <2>1. PICK d \in {NoField} \cup Definition :
          worker' = [worker EXCEPT ![w] = [worker[w] EXCEPT !.pc = "read", !.def = d]]
    BY <1>3 DEF Read, FieldInv, FieldTypes
  <2>2. worker[w].pc = "picked" /\ UNCHANGED <<field, rows, value, todo, ids>>
    BY <1>3 DEF Read
  <2> QED
    BY <2>1, <2>2 DEF FieldInv, FieldTypes, NoOrphan
<1>4. ASSUME NEW w \in Worker, Rollback(w) PROVE FieldInv'
  BY <1>4 DEF Rollback, Free, IdleWorker, FieldInv, FieldTypes, NoOrphan
<1> QED
  BY <1>1, <1>2, <1>3, <1>4

LEMMA FieldStep == FieldInv /\ [FieldNext]_fieldVars => FieldInv'
<1> SUFFICES ASSUME FieldInv, [FieldNext]_fieldVars
             PROVE  FieldInv'
  OBVIOUS
<1>1. ASSUME NEW f \in File, NEW hits \in Contents, Upload(f, hits) PROVE FieldInv'
  BY <1>1, PatternAssumption, UploadStep
<1>2. ASSUME NEW p \in Pattern, MarkFails(p) PROVE FieldInv'
  BY <1>2 DEF MarkFails, FieldInv, FieldTypes, NoOrphan
<1>3. CASE Delete
  BY <1>3 DEF Delete, Change, FieldInv, FieldTypes, NoOrphan
<1>4. CASE UNCHANGED fieldVars
  BY <1>4 DEF fieldVars, FieldInv, FieldTypes, NoOrphan
<1> QED
  BY <1>1, <1>2, <1>3, <1>4, MarkStep, RequestStep, CommitStep, JobStep DEF FieldNext

(* A value belongs to a definition that exists, under its id, and to a     *)
(* version that was uploaded, whatever requests, uploads and parses come   *)
(* in between (parseCustomFields against DELETE and POST).                 *)
THEOREM ValuesHaveAField == FieldSpec => []NoOrphan
<1>1. FieldInv => NoOrphan
  BY DEF FieldInv
<1> QED
  BY <1>1, FieldStart, FieldStep, PTL DEF FieldSpec


-----------------------------------------------------------------------------
(* What has been read is a definition for the file of the version.         *)
ReadForFile ==
  \A w \in Worker :
    worker[w].pc = "read" /\ worker[w].def # NoField => Matches(worker[w].def, worker[w].row)

(* The value is that of the present definition, or a parse is still due.   *)
Due(r) == ~rows[r].parsed \/ MarkPending

Applied ==
  field # NoField /\ ~overtaken =>
    \A r \in DOMAIN rows : CurrentRows(field) = {r} => Due(r) \/ value = ValueOf(field, r)

FollowInv == FieldInv /\ marking \in [Pattern -> Nat] /\ ReadForFile /\ Applied

(* The versions of the present definition and what it finds in them depend *)
(* on the files, their contents and which of them are current.             *)
LEMMA SameFiles ==
  ASSUME FieldInv, DOMAIN rows' = DOMAIN rows,
         \A q \in DOMAIN rows : /\ rows'[q].file = rows[q].file /\ rows'[q].hits = rows[q].hits
                               /\ rows'[q].current = rows[q].current
  PROVE  /\ UNCHANGED field => CurrentRows(field)' = CurrentRows(field)
         /\ \A q \in DOMAIN rows : UNCHANGED field => ValueOf(field, q)' = ValueOf(field, q)
         /\ UNCHANGED worker => (ReadForFile => ReadForFile')
<1>1. UNCHANGED field => CurrentRows(field)' = CurrentRows(field)
  BY DEF CurrentRows, Matches
<1>2. \A q \in DOMAIN rows : UNCHANGED field => ValueOf(field, q)' = ValueOf(field, q)
  BY DEF ValueOf, Found
<1>3. UNCHANGED worker => (ReadForFile => ReadForFile')
  BY DEF ReadForFile, Matches, FieldInv, FieldTypes
<1> QED
  BY <1>1, <1>2, <1>3

LEMMA FollowStart == FieldInit => FollowInv
BY FieldStart DEF FieldInit, FollowInv, ReadForFile, Applied, IdleWorker

(* A new version takes the place of the one that was current, and is not   *)
(* parsed yet.                                                             *)
LEMMA UploadFollows ==
  ASSUME FollowInv, NEW f \in File, NEW hits \in SUBSET Regexp, Upload(f, hits)
  PROVE  FollowInv'
<1> DEFINE n == Len(rows) + 1
           old == [r \in DOMAIN rows |-> [rows[r] EXCEPT !.current = @ /\ rows[r].file # f]]
           new == [file |-> f, hits |-> hits, current |-> TRUE, parsed |-> FALSE]
<1>1. /\ rows \in Seq(Version) /\ DOMAIN rows = 1 .. Len(rows) /\ Len(rows) \in Nat
      /\ \A r \in DOMAIN rows : rows[r] \in Version
  BY DEF FollowInv, FieldInv, FieldTypes
<1>2. \A r \in DOMAIN rows : /\ old[r].file = rows[r].file /\ old[r].hits = rows[r].hits
                            /\ old[r].parsed = rows[r].parsed
                            /\ old[r].current = (rows[r].current /\ rows[r].file # f)
  BY <1>1 DEF Version
<1>3. old \in Seq(Version) /\ Len(old) = Len(rows) /\ DOMAIN old = DOMAIN rows
  <2>1. \A r \in DOMAIN rows : [rows[r] EXCEPT !.current = @ /\ rows[r].file # f] \in Version
    BY <1>1 DEF Version
  <2> QED
    BY <1>1, <2>1
<1>4. new \in Version /\ new.file = f /\ new.current /\ ~new.parsed
  BY DEF Version
<1>5. rows' = Append(old, new)
  BY DEF Upload
<1> HIDE DEF old, new
<1>6. /\ DOMAIN rows' = 1 .. n /\ rows'[n] = new
      /\ \A r \in DOMAIN rows : rows'[r] = old[r]
  BY <1>1, <1>3, <1>4, <1>5
<1>7. UNCHANGED <<field, value, worker, marking, overtaken>>
  BY DEF Upload
<1>8. FieldInv'
  BY UploadStep DEF FollowInv
<1>9. ReadForFile'
  BY <1>1, <1>2, <1>6, <1>7 DEF ReadForFile, Matches, FollowInv, FieldInv, FieldTypes
<1>10. ASSUME field # NoField, ~overtaken, NEW r \in DOMAIN rows', CurrentRows(field)' = {r}
       PROVE  Due(r)' \/ (value = ValueOf(field, r))'
  <2>1. CASE f \in field.files
    <3>1. n \in CurrentRows(field)'
      BY <1>1, <1>4, <1>6, <1>7, <2>1 DEF CurrentRows, Matches
    <3> QED
      BY <1>4, <1>6, <1>10, <3>1 DEF Due
  <2>2. CASE f \notin field.files
    <3>1. n \notin CurrentRows(field)'
      BY <1>4, <1>6, <1>7, <2>2 DEF CurrentRows, Matches
    <3>2. CurrentRows(field)' = CurrentRows(field)
      <4>1. \A q \in DOMAIN rows : q \in CurrentRows(field)' <=> q \in CurrentRows(field)
        <5> TAKE q \in DOMAIN rows
        <5>1. q \in CurrentRows(field) <=> rows[q].current /\ rows[q].file \in field.files
          BY DEF CurrentRows, Matches
        <5>2. q \in CurrentRows(field)' <=> rows'[q].current /\ rows'[q].file \in field.files
          BY <1>1, <1>6, <1>7 DEF CurrentRows, Matches
        <5>3. rows'[q].file = rows[q].file /\ rows'[q].current = (rows[q].current /\ rows[q].file # f)
          BY <1>2, <1>6
        <5>4. CASE rows[q].file = f
          BY <2>2, <5>1, <5>2, <5>3, <5>4
        <5>5. CASE rows[q].file # f
          <6>1. rows[q].current \in BOOLEAN
            BY <1>1 DEF Version
          <6>2. rows'[q].current = rows[q].current
            BY <5>3, <5>5, <6>1
          <6> QED
            BY <5>1, <5>2, <5>3, <6>2
        <5> QED
          BY <5>4, <5>5
      <4>2. CurrentRows(field) \subseteq DOMAIN rows
        BY DEF CurrentRows
      <4>3. CurrentRows(field)' \subseteq DOMAIN rows
        BY <1>1, <1>6, <3>1 DEF CurrentRows
      <4> QED
        BY <4>1, <4>2, <4>3
    <3>3. r \in DOMAIN rows
      BY <1>10, <3>2 DEF CurrentRows
    <3>4. Due(r) \/ value = ValueOf(field, r)
      BY <1>10, <3>2, <3>3 DEF FollowInv, Applied
    <3> QED
      BY <1>2, <1>6, <1>7, <3>3, <3>4 DEF Due, MarkPending, ValueOf, Found
  <2> QED
    BY <2>1, <2>2
<1>11. Applied'
  BY <1>7, <1>10 DEF Applied
<1> QED
  BY <1>7, <1>8, <1>9, <1>11 DEF FollowInv

(* A request announces the mark of the files of its definition.            *)
LEMMA RequestFollows ==
  ASSUME FollowInv, NEW p \in Pattern, NEW re \in Regexp, Create(p, re) \/ Put(p, re)
  PROVE  FollowInv'
<1>1. /\ field'.files = p /\ marking' = [marking EXCEPT ![p] = @ + 1]
      /\ UNCHANGED <<rows, worker>>
  <2>1. CASE Create(p, re)
    BY <2>1 DEF Create, Change, ThenMark
  <2>2. CASE Put(p, re)
    BY <2>2 DEF Put, Change, ThenMark
  <2> QED
    BY <2>1, <2>2
<1>2. marking' \in [Pattern -> Nat] /\ marking'[p] > 0
  BY <1>1 DEF FollowInv
<1>3. MarkPending'
  BY <1>1, <1>2 DEF MarkPending
<1>4. ReadForFile'
  BY <1>1 DEF FollowInv, ReadForFile, Matches
<1> QED
  BY <1>2, <1>3, <1>4, RequestStep DEF FollowInv, Applied, Due

(* The mark sends the files of its pattern to the parser, so that a        *)
(* definition whose mark it was is applied again.                          *)
LEMMA MarkFollows ==
  ASSUME FollowInv, NEW p \in Pattern, Mark(p)
  PROVE  FollowInv'
<1> DEFINE mark(r) == [rows[r] EXCEPT !.parsed = @ /\ ~(rows[r].current /\ rows[r].file \in p)]
<1>1. /\ rows' = [r \in DOMAIN rows |-> mark(r)]
      /\ marking[p] > 0 /\ marking' = [marking EXCEPT ![p] = @ - 1]
      /\ UNCHANGED <<field, value, worker, overtaken>>
  BY DEF Mark
<1>2. \A r \in DOMAIN rows : rows[r] \in Version
  BY DEF FollowInv, FieldInv, FieldTypes
<1>3. \A r \in DOMAIN rows :
        /\ mark(r).file = rows[r].file /\ mark(r).hits = rows[r].hits
        /\ mark(r).current = rows[r].current
        /\ mark(r).parsed = (rows[r].parsed /\ ~(rows[r].current /\ rows[r].file \in p))
  BY <1>2 DEF Version
<1> HIDE DEF mark
<1>4. /\ DOMAIN rows' = DOMAIN rows
      /\ \A r \in DOMAIN rows :
           /\ rows'[r].file = rows[r].file /\ rows'[r].hits = rows[r].hits
           /\ rows'[r].current = rows[r].current
           /\ rows'[r].parsed = (rows[r].parsed /\ ~(rows[r].current /\ rows[r].file \in p))
  BY <1>1, <1>3
<1>5. FieldInv'
  BY MarkStep DEF FollowInv
<1>6. marking' \in [Pattern -> Nat] /\ \A o \in Pattern \ {p} : marking'[o] = marking[o]
  BY <1>1 DEF FollowInv
<1>7. /\ CurrentRows(field)' = CurrentRows(field) /\ ReadForFile'
      /\ \A r \in DOMAIN rows : ValueOf(field, r)' = ValueOf(field, r)
  BY <1>1, <1>4, SameFiles DEF FollowInv
<1>8. ASSUME field # NoField, ~overtaken, NEW r \in DOMAIN rows, CurrentRows(field) = {r}
      PROVE  Due(r)' \/ value = ValueOf(field, r)
  <2>1. CASE field.files \subseteq p
    <3>1. r \in CurrentRows(field)
      BY <1>8
    <3>2. rows[r].current /\ rows[r].file \in p
      BY <2>1, <3>1 DEF CurrentRows, Matches
    <3> QED
      BY <1>4, <3>2 DEF Due
  <2>2. CASE ~(field.files \subseteq p)
    <3>1. MarkPending => MarkPending'
      BY <1>1, <1>6, <2>2 DEF MarkPending
    <3>2. Due(r) => Due(r)'
      BY <1>4, <3>1 DEF Due
    <3> QED
      BY <1>8, <3>2 DEF FollowInv, Applied
  <2> QED
    BY <2>1, <2>2
<1>9. Applied'
  BY <1>1, <1>4, <1>7, <1>8 DEF Applied
<1> QED
  BY <1>5, <1>6, <1>7, <1>9 DEF FollowInv

(* A transaction that is not outdated writes what the present definition   *)
(* finds, or has nothing to do with it.                                    *)
LEMMA CommitFollows ==
  ASSUME FollowInv, NEW w \in Worker, Commit(w)
  PROVE  FollowInv'
<1> DEFINE def == worker[w].def  q == worker[w].row
<1>1. /\ value' = Written(def, q) /\ rows' = [rows EXCEPT ![q].parsed = TRUE]
      /\ overtaken' = (Outdated(def, q) \/ (overtaken /\ (def = NoField \/ def # field)))
      /\ worker' = [worker EXCEPT ![w] = IdleWorker]
      /\ UNCHANGED <<field, marking>>
  BY DEF Commit, Free
<1>2. /\ worker[w].pc = "read" /\ q \in DOMAIN rows
      /\ \A r \in DOMAIN rows : rows[r] \in Version
      /\ DOMAIN rows' = DOMAIN rows
  BY <1>1 DEF Commit, FollowInv, FieldInv, FieldTypes
<1>3. def # NoField => Matches(def, q)
  BY <1>2 DEF FollowInv, ReadForFile
<1> HIDE DEF def, q
<1>4. /\ \A r \in DOMAIN rows :
           /\ rows'[r].file = rows[r].file /\ rows'[r].hits = rows[r].hits
           /\ rows'[r].current = rows[r].current
           /\ r # q => rows'[r].parsed = rows[r].parsed
  BY <1>1, <1>2 DEF Version
<1>5. FieldInv'
  BY CommitStep DEF FollowInv
<1>6. \A v \in Worker : worker'[v] = IF v = w THEN IdleWorker ELSE worker[v]
  BY <1>1 DEF FollowInv, FieldInv, FieldTypes
<1>7. ReadForFile'
  BY <1>4, <1>6 DEF ReadForFile, Matches, IdleWorker, FollowInv, FieldInv, FieldTypes
<1>8. /\ CurrentRows(field)' = CurrentRows(field)
      /\ \A r \in DOMAIN rows : ValueOf(field, r)' = ValueOf(field, r)
  BY <1>1, <1>2, <1>4, SameFiles DEF FollowInv
<1>9. MarkPending' = MarkPending
  BY <1>1 DEF MarkPending
<1>10. ASSUME field # NoField, ~overtaken', NEW r \in DOMAIN rows, CurrentRows(field) = {r}
       PROVE  Due(r)' \/ value' = ValueOf(field, r)
  <2>1. ~Outdated(def, q)
    BY <1>1, <1>10
  <2>2. CASE def = field
    <3>1. q \in CurrentRows(field)
      BY <1>2, <1>3, <1>10, <2>1, <2>2 DEF Outdated, CurrentRows
    <3>2. q = r
      BY <1>10, <3>1
    <3> QED
      BY <1>1, <1>10, <2>2, <3>2 DEF Written
  <2>3. CASE MarkPending
    BY <1>9, <2>3 DEF Due
  <2>4. CASE def # field /\ ~MarkPending
    <3>1. def = Applies(q)
      BY <2>1, <2>4 DEF Outdated
    <3>2. ~Matches(field, q) /\ def = NoField
      BY <2>4, <3>1 DEF Applies
    <3>3. q # r
      BY <1>10, <3>2 DEF CurrentRows
    <3>4. ~overtaken /\ value' = value
      BY <1>1, <1>10, <3>2 DEF Written
    <3>5. Due(r) \/ value = ValueOf(field, r)
      BY <1>10, <3>4 DEF FollowInv, Applied
    <3> QED
      BY <1>4, <1>9, <3>3, <3>4, <3>5 DEF Due
  <2> QED
    BY <2>2, <2>3, <2>4
<1>11. Applied'
  BY <1>1, <1>2, <1>8, <1>10 DEF Applied
<1> QED
  BY <1>1, <1>5, <1>7, <1>11 DEF FollowInv

(* The other steps touch neither what is due nor the value.                *)
LEMMA OthersFollow ==
  ASSUME FollowInv, FieldInv',
         \/ Delete \/ UNCHANGED fieldVars \/ RunBegins
         \/ \E p \in Pattern : MarkFails(p)
         \/ \E w \in Worker : Pick(w) \/ Read(w) \/ Rollback(w)
  PROVE  FollowInv'
<1>1. CASE Delete
  BY <1>1 DEF Delete, Change, FollowInv, ReadForFile, Matches, Applied
<1>2. CASE UNCHANGED fieldVars \/ RunBegins
  BY <1>2 DEF fieldVars, RunBegins, FollowInv, ReadForFile, Matches, Applied, Due, MarkPending,
              CurrentRows, ValueOf, Found
<1>3. ASSUME NEW p \in Pattern, MarkFails(p) PROVE FollowInv'
  <2>1. marking' = [marking EXCEPT ![p] = @ - 1] /\ marking[p] > 0 /\ overtaken'
        /\ UNCHANGED <<rows, worker>>
    BY <1>3 DEF MarkFails
  <2>2. marking' \in [Pattern -> Nat]
    BY <2>1 DEF FollowInv
  <2> QED
    BY <2>1, <2>2 DEF FollowInv, ReadForFile, Matches, Applied
<1>4. ASSUME NEW w \in Worker, Pick(w) \/ Read(w) \/ Rollback(w) PROVE FollowInv'
  <2>1. UNCHANGED <<field, rows, value, marking, overtaken>>
    BY <1>4 DEF Pick, Read, Rollback
  <2>2. Applied'
    BY <2>1 DEF FollowInv, Applied, Due, MarkPending, CurrentRows, Matches, ValueOf, Found
  <2>3. PICK state : /\ worker' = [worker EXCEPT ![w] = state]
                     /\ \/ state.pc # "read"
                        \/ /\ state.row = worker[w].row /\ state.def \in {NoField, field}
                           /\ state.def # NoField => Matches(field, state.row)
    <3>1. CASE Pick(w)
      BY <3>1 DEF Pick
    <3>2. CASE Read(w)
      <4> DEFINE read == [worker[w] EXCEPT !.pc = "read",
                            !.def = IF Matches(field, worker[w].row) THEN field ELSE NoField]
      <4>1. worker' = [worker EXCEPT ![w] = read]
        BY <3>2 DEF Read
      <4>2. worker[w] \in [pc : {"idle", "picked", "read"}, row : Nat,
                           def : {NoField} \cup Definition]
        BY DEF FollowInv, FieldInv, FieldTypes
      <4>3. /\ read.row = worker[w].row
            /\ read.def = IF Matches(field, worker[w].row) THEN field ELSE NoField
        BY <4>2
      <4> HIDE DEF read
      <4> QED
        BY <4>1, <4>3
    <3>3. CASE Rollback(w)
      <4>1. worker' = [worker EXCEPT ![w] = IdleWorker]
        BY <3>3 DEF Rollback, Free
      <4>2. IdleWorker.pc # "read"
        BY DEF IdleWorker
      <4> QED
        BY <4>1, <4>2
    <3> QED
      BY <1>4, <3>1, <3>2, <3>3
  <2>4. \A v \in Worker : worker'[v] = IF v = w THEN state ELSE worker[v]
    BY <2>3 DEF FollowInv, FieldInv, FieldTypes
  <2>5. ReadForFile'
    BY <2>1, <2>3, <2>4 DEF FollowInv, ReadForFile, Matches
  <2> QED
    BY <2>1, <2>2, <2>5 DEF FollowInv
<1> QED
  BY <1>1, <1>2, <1>3, <1>4

(* When nothing is due, the value is what the present definition finds in  *)
(* the current version of its file, for any number of requests, uploads    *)
(* and goroutines and any patterns, unless the last transaction was        *)
(* outdated or a mark failed (parseFile, ServeHTTP).                       *)
THEOREM ValuesFollow == FieldSpec => []ValueFollows
<1>1. FollowInv /\ [FieldNext]_fieldVars => FollowInv'
  <2> SUFFICES ASSUME FollowInv, [FieldNext]_fieldVars
               PROVE  FollowInv'
    OBVIOUS
  <2>1. FieldInv'
    BY FieldStep DEF FollowInv
  <2>2. ASSUME NEW f \in File, NEW hits \in Contents, Upload(f, hits) PROVE FollowInv'
    BY <2>2, PatternAssumption, UploadFollows
  <2> QED
    BY <2>1, <2>2, RequestFollows, MarkFollows, CommitFollows, OthersFollow DEF FieldNext
<1>2. FollowInv => ValueFollows
  <2> SUFFICES ASSUME FollowInv, Quiet, field # NoField, ~overtaken, NEW r \in DOMAIN rows,
                      CurrentRows(field) = {r}
               PROVE  value = ValueOf(field, r)
    BY DEF ValueFollows
  <2>1. ~Due(r)
    BY DEF Due, Quiet, MarkPending
  <2> QED
    BY <2>1 DEF FollowInv, Applied
<1> QED
  BY <1>1, <1>2, FollowStart, PTL DEF FieldSpec

-----------------------------------------------------------------------------
(***************************************************************************)
(* No address lies in two ip ranges, for any blocks of CIDR notation and   *)
(* any number of requests, but in two rows that have raced.  The           *)
(* strengthening: what a request has verified is still so when it writes,  *)
(* except for the rows that others have written since.                     *)
(***************************************************************************)

Ids == 1..lastId

(* Ids come from the serial, and what is stored or verified is a block.    *)
RangeTypes ==
  /\ lastId \in Nat
  /\ DOMAIN ranges \subseteq Ids
  /\ ranges \in [DOMAIN ranges -> Block]
  /\ request \in [Request -> [pc : {"idle", "verified"}, range : Block \cup {{}},
                              id : Nat, missed : SUBSET Ids]]
  /\ \A q \in Request : request[q].pc = "verified" => request[q].range \in Block

(* The answer of verifyIpRangeParameter holds until the request writes,    *)
(* for every row that nobody has written since.                            *)
StillVerified ==
  \A q \in Request : request[q].pc = "verified" =>
    \A other \in DOMAIN ranges \ ({request[q].id} \cup request[q].missed) :
      /\ ~(request[q].range \subseteq ranges[other])
      /\ ~Encloses(request[q].range, ranges[other])

RangeInv == RangeTypes /\ StillVerified /\ OneRangePerAddress

-----------------------------------------------------------------------------
(* Two blocks that verifyIpRangeParameter lets exist side by side share no *)
(* address, since CIDR blocks are disjoint or nested.                      *)
LEMMA NoConflictDisjoint ==
  ASSUME NEW a \in Block, NEW b \in Block,
         ~(a \subseteq b), ~Encloses(a, b)
  PROVE  a \cap b = {}
BY BlockAssumption DEF Encloses

(* A write, whichever id it goes to, lets the ranges overlap only where    *)
(* the request has missed a row, and those are the pairs it adds.          *)
LEMMA WriteKeeps ==
  ASSUME RangeInv, NEW q \in Request, request[q].pc = "verified",
         NEW id \in Nat \ {0}, Write(q, id), lastId' \in Nat,
         id \in 1..lastId', lastId <= lastId',
         DOMAIN ranges \ {request[q].id} = DOMAIN ranges \ {id}
  PROVE  RangeInv'
<1> DEFINE new == request[q].range
<1>1. /\ new \in Block /\ lastId \in Nat
      /\ \A p \in Request : request[p].missed \subseteq 1..lastId
      /\ 1..lastId \subseteq 1..lastId'
  BY DEF RangeInv, RangeTypes, Ids
<1>2. /\ DOMAIN ranges' = DOMAIN ranges \cup {id}
      /\ ranges'[id] = new
      /\ \A i \in DOMAIN ranges \ {id} : ranges'[i] = ranges[i]
      /\ request'[q] = IdleRequest
      /\ \A p \in Request \ {q} : request[p].pc = "idle" => request'[p] = request[p]
      /\ \A p \in Request \ {q} : request[p].pc # "idle" =>
           request'[p] = [request[p] EXCEPT !.missed = @ \cup {id}]
  BY DEF Write
<1>3. /\ \A pair \in unseen : id \notin pair => pair \in unseen'
      /\ \A o \in DOMAIN ranges \ {id} : o \in request[q].missed => {id, o} \in unseen'
  BY DEF Write, PairsWithout
<1>4. \A p \in Request \ {q} : request[p].pc # "idle" =>
        /\ request'[p] \in [pc : {"idle", "verified"}, range : Block \cup {{}},
                            id : Nat, missed : SUBSET (1..lastId')]
        /\ request'[p].pc = request[p].pc /\ request'[p].range = request[p].range
        /\ request'[p].id = request[p].id
        /\ request'[p].missed = request[p].missed \cup {id}
  <2> TAKE p \in Request \ {q}
  <2> HAVE request[p].pc # "idle"
  <2>1. request'[p] = [request[p] EXCEPT !.missed = @ \cup {id}]
    BY <1>2
  <2>2. request[p] \in [pc : {"idle", "verified"}, range : Block \cup {{}},
                        id : Nat, missed : SUBSET (1..lastId)]
    BY DEF RangeInv, RangeTypes, Ids
  <2> QED
    BY <1>1, <2>1, <2>2
<1>5. RangeTypes'
  <2>1. DOMAIN ranges' \subseteq 1..lastId'
    BY <1>1, <1>2 DEF RangeInv, RangeTypes, Ids
  <2>2. \A i \in DOMAIN ranges' : ranges'[i] \in Block
    BY <1>1, <1>2 DEF RangeInv, RangeTypes
  <2>3. ranges' \in [DOMAIN ranges' -> Block]
    BY <2>2 DEF Write
  <2>4. \A p \in Request :
          request'[p] \in [pc : {"idle", "verified"}, range : Block \cup {{}},
                           id : Nat, missed : SUBSET (1..lastId')]
    <3>1. request'[q] \in [pc : {"idle", "verified"}, range : Block \cup {{}},
                           id : Nat, missed : SUBSET (1..lastId')]
      BY <1>2 DEF IdleRequest, NoId
    <3>2. \A p \in Request :
            request[p] \in [pc : {"idle", "verified"}, range : Block \cup {{}},
                            id : Nat, missed : SUBSET (1..lastId')]
      BY <1>1 DEF RangeInv, RangeTypes, Ids
    <3> QED
      BY <1>2, <1>4, <3>1, <3>2
  <2>5. request' \in [Request -> [pc : {"idle", "verified"}, range : Block \cup {{}},
                                  id : Nat, missed : SUBSET (1..lastId')]]
    BY <2>4 DEF Write
  <2>6. \A p \in Request : request'[p].pc = "verified" => request'[p].range \in Block
    BY <1>2, <1>4 DEF RangeInv, RangeTypes, IdleRequest
  <2> QED
    BY <2>1, <2>3, <2>5, <2>6 DEF RangeTypes, Ids
<1>6. StillVerified'
  \* the row that is written is one the others have missed from now on
  <2> SUFFICES ASSUME NEW p \in Request, request'[p].pc = "verified",
                      NEW o \in DOMAIN ranges' \ ({request'[p].id} \cup request'[p].missed)
               PROVE  /\ ~(request'[p].range \subseteq ranges'[o])
                      /\ ~Encloses(request'[p].range, ranges'[o])
    BY DEF StillVerified, Encloses
  <2>1. p # q /\ request[p].pc # "idle"
    BY <1>2 DEF IdleRequest
  <2>2. /\ request[p].pc = "verified" /\ request'[p].range = request[p].range
        /\ request'[p].id = request[p].id
        /\ request'[p].missed = request[p].missed \cup {id}
    BY <1>4, <2>1
  <2>3. /\ o \in DOMAIN ranges \ ({request[p].id} \cup request[p].missed)
        /\ ranges'[o] = ranges[o]
    BY <1>2, <2>2
  <2> QED
    BY <2>2, <2>3 DEF RangeInv, StillVerified
<1>7. OneRangePerAddress'
  <2>1. \A o \in DOMAIN ranges \ {id} : ranges[o] \cap new # {} => {id, o} \in unseen'
    <3> TAKE o \in DOMAIN ranges \ {id}
    <3>1. CASE o \in request[q].missed
      BY <1>3, <3>1
    <3>2. CASE o \notin request[q].missed
      <4>1. o \in DOMAIN ranges \ ({request[q].id} \cup request[q].missed)
        BY <3>2
      <4>2. ~(new \subseteq ranges[o]) /\ ~Encloses(new, ranges[o])
        BY <4>1 DEF RangeInv, StillVerified
      <4>3. ranges[o] \in Block
        BY DEF RangeInv, RangeTypes
      <4> QED
        BY <1>1, <4>2, <4>3, NoConflictDisjoint
    <3> QED
      BY <3>1, <3>2
  <2> SUFFICES ASSUME NEW i \in DOMAIN ranges', NEW j \in DOMAIN ranges', i # j,
                      ranges'[i] \cap ranges'[j] # {}
               PROVE  {i, j} \in unseen'
    BY DEF OneRangePerAddress
  <2>2. CASE i = id
    BY <1>2, <2>1, <2>2
  <2>3. CASE j = id
    <3>1. i \in DOMAIN ranges \ {id} /\ ranges[i] \cap new # {}
      BY <1>2, <2>3
    <3>2. {id, i} \in unseen' /\ {id, i} = {i, j}
      BY <2>1, <2>3, <3>1
    <3> QED
      BY <3>2
  <2>4. CASE i # id /\ j # id
    <3>1. {i, j} \in unseen
      BY <1>2, <2>4 DEF RangeInv, OneRangePerAddress
    <3> QED
      BY <1>3, <2>4, <3>1
  <2> QED
    BY <2>2, <2>3, <2>4
<1> QED
  BY <1>5, <1>6, <1>7 DEF RangeInv

(* The invariant is inductive: a check that succeeds adds what it has      *)
(* verified, the two writes follow from WriteKeeps, and a deletion can     *)
(* only remove conflicts.                                                  *)
LEMMA RangeStep ==
  ASSUME RangeInv, [RangeNext]_rangeVars
  PROVE  RangeInv'
<1> USE DEF RangeInv
<1>1. ASSUME NEW q \in Request, NEW range \in Block, NEW id \in NoId..MaxRanges,
             verifyIpRangeParameter(q, range, id)
      PROVE  RangeInv'
  <2>1. RangeTypes'
    BY <1>1 DEF verifyIpRangeParameter, RangeTypes, Ids, NoId
  <2>2. StillVerified'
    BY <1>1 DEF verifyIpRangeParameter, StillVerified, RangeTypes, Conflicts
  <2>3. OneRangePerAddress'
    BY <1>1 DEF verifyIpRangeParameter, OneRangePerAddress
  <2> QED
    BY <2>1, <2>2, <2>3
<1>2. ASSUME NEW q \in Request, Insert(q)
      PROVE  RangeInv'
  <2>1. /\ request[q].pc = "verified" /\ request[q].id = NoId
        /\ lastId' = lastId + 1 /\ Write(q, lastId + 1)
    BY <1>2 DEF Insert
  <2>2. DOMAIN ranges \ {request[q].id} = DOMAIN ranges \ {lastId + 1}
    BY <2>1 DEF RangeTypes, Ids, NoId
  <2>3. lastId \in Nat
    BY DEF RangeTypes
  <2> QED
    BY <2>1, <2>2, <2>3, WriteKeeps
<1>3. ASSUME NEW q \in Request, Update(q)
      PROVE  RangeInv'
  <2>1. /\ request[q].pc = "verified" /\ request[q].id \in DOMAIN ranges
        /\ lastId' = lastId /\ Write(q, request[q].id)
    BY <1>3 DEF Update, IsRow
  <2>2. lastId \in Nat /\ request[q].id \in 1..lastId
    BY <2>1 DEF RangeTypes, Ids
  <2> QED
    BY <2>1, <2>2, WriteKeeps
<1>4. ASSUME NEW q \in Request, WritesNothing(q)
      PROVE  RangeInv'
  <2>1. RangeTypes'
    BY <1>4 DEF WritesNothing, RangeTypes, Ids, IdleRequest, NoId
  <2>2. StillVerified'
    BY <1>4 DEF WritesNothing, StillVerified, RangeTypes, IdleRequest
  <2>3. OneRangePerAddress'
    BY <1>4 DEF WritesNothing, OneRangePerAddress
  <2> QED
    BY <2>1, <2>2, <2>3
<1>5. ASSUME NEW id \in 1..MaxRanges, DeleteRange(id)
      PROVE  RangeInv'
  <2>1. /\ DOMAIN ranges' = DOMAIN ranges \ {id}
        /\ \A i \in DOMAIN ranges' : ranges'[i] = ranges[i]
        /\ \A pair \in unseen : id \notin pair => pair \in unseen'
        /\ UNCHANGED <<lastId, request>>
    BY <1>5 DEF DeleteRange, PairsWithout
  <2>2. RangeTypes'
    <3>1. ranges' \in [DOMAIN ranges' -> Block]
      BY <1>5, <2>1 DEF DeleteRange, RangeTypes
    <3> QED
      BY <2>1, <3>1 DEF RangeTypes, Ids
  <2>3. StillVerified'
    BY <2>1 DEF StillVerified
  <2>4. OneRangePerAddress'
    <3> SUFFICES ASSUME NEW i \in DOMAIN ranges', NEW j \in DOMAIN ranges', i # j,
                        ranges'[i] \cap ranges'[j] # {}
                 PROVE  {i, j} \in unseen'
      BY DEF OneRangePerAddress
    <3>1. {i, j} \in unseen /\ id \notin {i, j}
      BY <2>1 DEF OneRangePerAddress
    <3> QED
      BY <2>1, <3>1
  <2> QED
    BY <2>2, <2>3, <2>4
<1>6. ASSUME UNCHANGED rangeVars
      PROVE  RangeInv'
  BY <1>6 DEF rangeVars, RangeTypes, Ids, StillVerified, OneRangePerAddress
<1> QED
  BY <1>1, <1>2, <1>3, <1>4, <1>5, <1>6 DEF RangeNext

LEMMA RangeStart == RangeInit => RangeInv
BY DEF RangeInit, RangeInv, RangeTypes, Ids, StillVerified, OneRangePerAddress,
       IdleRequest, NoId

(* No address lies in two ranges, but in two rows of which one was written *)
(* between the check and the write of the other, for any CIDR blocks and   *)
(* any number of requests (verifyIpRangeParameter).                        *)
THEOREM RangesAreDisjoint == RangeSpec => []OneRangePerAddress
<1>1. RangeInv /\ [RangeNext]_rangeVars => RangeInv'
  BY RangeStep
<1>2. RangeInv => OneRangePerAddress
  BY DEF RangeInv
<1> QED
  BY RangeStart, <1>1, <1>2, PTL DEF RangeSpec

-----------------------------------------------------------------------------
(***************************************************************************)
(* The pruning of versions, for any table of ages and any uploads.         *)
(* Versions are deleted when they come into a slot that is not empty, so   *)
(* those that a run keeps are as far from each other as their slot is      *)
(* wide, and do not meet again in slots of the same width; only the first  *)
(* slot of a wider kind takes what a deletion has left behind.  The newest *)
(* version is the exception: it is kept wherever it is.                    *)
(***************************************************************************)
Slot(s) == generateTimeTable(s)
Width(s) == Slot(s) - Slot(s - 1)

(* The time of the last run, and the slot of a version at that time.       *)
Seen == IF ran THEN now ELSE now - 1
At(u, s) == Slot(s - 1) < Seen - u /\ Seen - u <= Slot(s)

(* No older version is as near as the slot is wide, so that u never shares *)
(* a slot of that width with one.                                          *)
Far(u, s) == \A o \in versions : o < u => u - o >= Width(s)

(* The runs have not panicked.                                             *)
Healthy == \A v \in versions : \E s \in Slots : Seen - v <= Slot(s)

(* A version that was not the newest any more when it came into its slot   *)
(* is far from the older ones, or it would have been deleted.              *)
Apart ==
  Healthy => \A u, z \in versions, s \in Slots \ {1} :
    At(u, s) /\ u < z /\ z - u <= Slot(s - 1) => Far(u, s)

(* The version that a deletion leaves behind, as it was seen last.         *)
LeftBehind(u, w) ==
  /\ u < w /\ Seen - u > Day
  /\ \A s \in Slots : Seen - u <= Slot(s) => w - u <= Reach(s)
  /\ Healthy => \A s \in Slots : At(u, s) => Far(u, s)

PruneTypes ==
  /\ now \in Nat /\ ran \in BOOLEAN
  /\ versions \subseteq 0 .. now
  /\ lost \subseteq Nat

PruneInv ==
  /\ PruneTypes
  /\ Apart
  /\ \A w \in lost : /\ \E u \in versions : LeftBehind(u, w)
                     /\ \E v \in versions : w < v

-----------------------------------------------------------------------------
(* The smallest and the largest of a set of natural numbers                *)
LEMMA MinExists ==
  ASSUME NEW S, S \subseteq Nat, S # {}
  PROVE  Min(S) \in S /\ \A y \in S : Min(S) <= y
<1> DEFINE less == {ss \in Nat \X Nat : ss[1] < ss[2]}
<1>0. IsWellFoundedOn(less, Nat)
  BY NatLessThanWellFounded DEF OpToRel
<1> HIDE DEF less
<1>1. PICK z \in S : \A y \in S : ~(<<y, z>> \in less)
  BY <1>0, WFMin
<1>2. \A y \in S : z <= y
  <2> SUFFICES ASSUME NEW y \in S, ~(z <= y) PROVE FALSE
    OBVIOUS
  <2>1. z \in Nat /\ y \in Nat /\ y < z
    OBVIOUS
  <2>2. <<y, z>> \in less
    BY <2>1 DEF less
  <2> QED
    BY <1>1, <2>2
<1> QED
  BY <1>2 DEF Min

LEMMA MaxExists ==
  ASSUME NEW b \in Nat, NEW S, S \subseteq 0 .. b, S # {}
  PROVE  Max(S) \in S /\ \A y \in S : Max(S) >= y
<1> DEFINE T == {b - z : z \in S}
<1>1. T \subseteq Nat /\ T # {}
  <2>1. \A z \in S : b - z \in Nat
    OBVIOUS
  <2> QED
    BY <2>1
<1>2. PICK t \in T : \A y \in T : t <= y
  BY <1>1, MinExists
<1>3. PICK z \in S : \A y \in S : b - z <= b - y
  BY <1>2
<1>4. \A y \in S : z >= y
  BY <1>3
<1> QED
  BY <1>4 DEF Max

(* The table of ages, written without the minimum                          *)
LEMMA TableOfAges ==
  ASSUME NEW s \in Nat
  PROVE  Slot(s) = Day * (IF s <= Days THEN s
                          ELSE IF s <= Days + Weeks THEN Days + (s - Days) * DaysPerWeek
                          ELSE Days + Weeks * DaysPerWeek + (s - Days - Weeks) * DaysPerMonth)
<1>1. \A a, b \in Int : a <= b => Min({a, b}) = a
  BY DEF Min
<1>2. \A a, b \in Int : b < a => Min({a, b}) = b
  BY DEF Min
<1>3. Days \in Nat /\ Weeks \in Nat /\ Day \in Nat /\ DaysPerWeek \in Nat /\ DaysPerMonth \in Nat
  BY PruningAssumption
<1>4. CASE s <= Days
  BY <1>1, <1>3, <1>4 DEF Slot, generateTimeTable
<1>5. CASE s > Days /\ s <= Days + Weeks
  <2>1. Min({s, Days}) = Days /\ Min({s - Days, Weeks}) = s - Days
    BY <1>1, <1>2, <1>3, <1>5
  <2> QED
    BY <1>3, <1>5, <2>1 DEF Slot, generateTimeTable
<1>6. CASE s > Days + Weeks
  <2>1. Min({s, Days}) = Days /\ Min({s - Days, Weeks}) = Weeks
    BY <1>1, <1>2, <1>3, <1>6
  <2> QED
    BY <1>3, <1>6, <2>1 DEF Slot, generateTimeTable
<1> QED
  BY <1>3, <1>4, <1>5, <1>6

(* The table grows: a slot is as wide as its kind says, no wider than what *)
(* comes before it, and no wider than its reach.                           *)
LEMMA Products ==
  ASSUME NEW a \in Nat, NEW b \in Nat, NEW c \in Nat
  PROVE  /\ a * b \in Nat /\ a * (b + c) = a * b + a * c
         /\ b <= c => a * b <= a * c
         /\ a > 0 /\ b < c => a * b < a * c
<1>1. a * b \in Nat /\ a * (b + c) = a * b + a * c
  OBVIOUS
<1>2. b <= c => a * b <= a * c
  <2> SUFFICES ASSUME b <= c PROVE a * b <= a * c
    OBVIOUS
  <2>1. PICK d \in Nat : c = b + d
    <3>1. c - b \in Nat /\ c = b + (c - b)
      OBVIOUS
    <3> QED
      BY <3>1
  <2>2. a * c = a * b + a * d /\ a * d >= 0
    BY <2>1
  <2> QED
    BY <2>2
<1>3. a > 0 /\ b < c => a * b < a * c
  <2> SUFFICES ASSUME a > 0, b < c PROVE a * b < a * c
    OBVIOUS
  <2>1. PICK d \in Nat : c = b + d /\ d > 0
    <3>1. c - b \in Nat /\ c = b + (c - b) /\ c - b > 0
      OBVIOUS
    <3> QED
      BY <3>1
  <2>2. a * c = a * b + a * d /\ a * d > 0
    BY <2>1
  <2> QED
    BY <2>2
<1> QED
  BY <1>1, <1>2, <1>3

Kind(s) == IF s <= Days THEN 1 ELSE IF s <= Days + Weeks THEN DaysPerWeek ELSE DaysPerMonth

LEMMA Widths ==
  ASSUME NEW s \in Nat \ {0}
  PROVE  /\ Slot(s) \in Nat /\ Slot(s - 1) \in Nat
         /\ Width(s) = Day * Kind(s) /\ Width(s) > 0
<1> DEFINE days(n) == IF n <= Days THEN n
                      ELSE IF n <= Days + Weeks THEN Days + (n - Days) * DaysPerWeek
                      ELSE Days + Weeks * DaysPerWeek + (n - Days - Weeks) * DaysPerMonth
<1>1. s - 1 \in Nat
  OBVIOUS
<1>2. Slot(s) = Day * days(s) /\ Slot(s - 1) = Day * days(s - 1)
  BY <1>1, TableOfAges
<1>3. days(s) = days(s - 1) + Kind(s) /\ days(s) \in Nat /\ days(s - 1) \in Nat
      /\ Kind(s) \in Nat \ {0}
  <2> USE PruningAssumption DEF Kind
  <2>1. CASE s <= Days
    BY <2>1
  <2>2. CASE s > Days /\ s - 1 <= Days /\ s <= Days + Weeks
    BY <2>2
  <2>3. CASE s > Days /\ s - 1 <= Days /\ s > Days + Weeks
    <3>1. Weeks = 0 /\ s = Days + 1
      BY <2>3
    <3> QED
      BY <2>3, <3>1
  <2>4. CASE s - 1 > Days /\ s <= Days + Weeks
    BY <2>4
  <2>5. CASE s - 1 > Days /\ s - 1 <= Days + Weeks /\ s > Days + Weeks
    BY <2>5
  <2>6. CASE s - 1 > Days + Weeks
    BY <2>6
  <2> QED
    BY <2>1, <2>2, <2>3, <2>4, <2>5, <2>6
<1> HIDE DEF days
<1>4. Day \in Nat \ {0}
  BY PruningAssumption
<1>5. /\ Day * (days(s - 1) + Kind(s)) = Day * days(s - 1) + Day * Kind(s)
      /\ Day * days(s - 1) \in Nat /\ Day * days(s) \in Nat /\ Day * Kind(s) \in Nat
      /\ Day * Kind(s) > 0
  BY <1>3, <1>4
<1> QED
  BY <1>2, <1>3, <1>5 DEF Width

LEMMA SlotOne == Slot(0) = 0 /\ Slot(1) = Day /\ Day \in Nat \ {0}
<1>1. Days \in Nat /\ Days >= 1 /\ Day \in Nat \ {0}
  BY PruningAssumption
<1>2. Slot(0) = Day * 0 /\ Slot(1) = Day * 1
  BY <1>1, TableOfAges
<1> QED
  BY <1>1, <1>2

LEMMA SlotsGrow ==
  ASSUME NEW s \in Nat, NEW t \in Nat, s <= t
  PROVE  Slot(s) <= Slot(t)
<1> DEFINE days(n) == IF n <= Days THEN n
                      ELSE IF n <= Days + Weeks THEN Days + (n - Days) * DaysPerWeek
                      ELSE Days + Weeks * DaysPerWeek + (n - Days - Weeks) * DaysPerMonth
<1>1. Slot(s) = Day * days(s) /\ Slot(t) = Day * days(t)
  BY TableOfAges
<1>2. days(s) <= days(t) /\ days(s) \in Nat /\ days(t) \in Nat
  <2>1. /\ Days \in Nat /\ Weeks \in Nat /\ DaysPerWeek \in Nat /\ DaysPerMonth \in Nat
        /\ Weeks * DaysPerWeek \in Nat
    BY PruningAssumption
  <2>2. \A a, b, c \in Nat : b <= c => b * a \in Nat /\ c * a \in Nat /\ b * a <= c * a
    <3> TAKE a \in Nat, b \in Nat, c \in Nat
    <3>1. a * b \in Nat /\ a * c \in Nat /\ (b <= c => a * b <= a * c)
      BY Products
    <3> QED
      BY <3>1
  <2>3. CASE t <= Days
    BY <2>1, <2>3
  <2>4. CASE t > Days /\ t <= Days + Weeks
    <3>1. t - Days \in Nat /\ (t - Days) * DaysPerWeek \in Nat
      BY <2>1, <2>2, <2>4
    <3>2. CASE s <= Days
      BY <2>1, <2>4, <3>1, <3>2
    <3>3. CASE s > Days
      <4>1. s - Days \in Nat /\ s - Days <= t - Days
        BY <2>1, <3>3
      <4>2. (s - Days) * DaysPerWeek \in Nat /\ (s - Days) * DaysPerWeek <= (t - Days) * DaysPerWeek
        BY <2>1, <2>2, <3>1, <4>1
      <4> QED
        BY <2>1, <2>4, <3>1, <3>3, <4>2
    <3> QED
      BY <2>1, <3>2, <3>3
  <2>5. CASE t > Days + Weeks
    <3>1. t - Days - Weeks \in Nat /\ (t - Days - Weeks) * DaysPerMonth \in Nat
      BY <2>1, <2>2, <2>5
    <3>2. CASE s <= Days
      BY <2>1, <2>5, <3>1, <3>2
    <3>3. CASE s > Days /\ s <= Days + Weeks
      <4>1. s - Days \in Nat /\ s - Days <= Weeks
        BY <2>1, <3>3
      <4>2. (s - Days) * DaysPerWeek \in Nat /\ (s - Days) * DaysPerWeek <= Weeks * DaysPerWeek
        BY <2>1, <2>2, <4>1
      <4> QED
        BY <2>1, <2>5, <3>1, <3>3, <4>2
    <3>4. CASE s > Days + Weeks
      <4>1. s - Days - Weeks \in Nat /\ s - Days - Weeks <= t - Days - Weeks
        BY <2>1, <3>4
      <4>2. /\ (s - Days - Weeks) * DaysPerMonth \in Nat
            /\ (s - Days - Weeks) * DaysPerMonth <= (t - Days - Weeks) * DaysPerMonth
        BY <2>1, <2>2, <3>1, <4>1
      <4> QED
        BY <2>1, <2>5, <3>1, <3>4, <4>2
    <3> QED
      BY <2>1, <3>2, <3>3, <3>4
  <2> QED
    BY <2>1, <2>3, <2>4, <2>5
<1> HIDE DEF days
<1> QED
  BY <1>1, <1>2, Products, PruningAssumption

LEMMA Reaches ==
  ASSUME NEW s \in Nat \ {0}
  PROVE  /\ Reach(s) \in Nat /\ Width(s) <= Reach(s)
         /\ \A t \in Nat : s <= t => Reach(t) \in Nat /\ Reach(s) <= Reach(t)
         /\ s > 1 => /\ Width(s) <= Slot(s - 1)
                     /\ Width(s) = Width(s - 1) \/ Reach(s) >= Reach(s - 1) + Width(s)
<1> DEFINE reach(n) == 1 + (IF n > Days THEN DaysPerWeek ELSE 0)
                         + (IF n > Days + Weeks THEN DaysPerMonth ELSE 0)
<1> USE PruningAssumption
<1>1. \A n \in Nat : reach(n) \in Nat /\ Reach(n) = Day * reach(n)
  BY DEF Reach
<1>2. \A n \in Nat \ {0} : Kind(n) \in Nat /\ Width(n) = Day * Kind(n)
  BY Widths DEF Kind
<1>3. Kind(s) <= reach(s)
  BY DEF Kind
<1>4. \A t \in Nat : s <= t => reach(s) <= reach(t)
  OBVIOUS
<1>5. s > 1 => Kind(s) = Kind(s - 1) \/ reach(s) >= reach(s - 1) + Kind(s)
  BY DEF Kind
<1> HIDE DEF reach
<1>6. Reach(s) \in Nat /\ Width(s) <= Reach(s)
  BY <1>1, <1>2, <1>3, Products
<1>7. \A t \in Nat : s <= t => Reach(t) \in Nat /\ Reach(s) <= Reach(t)
  BY <1>1, <1>4, Products
<1>8. ASSUME s > 1
      PROVE  Width(s) = Width(s - 1) \/ Reach(s) >= Reach(s - 1) + Width(s)
  <2>1. s - 1 \in Nat \ {0} /\ Reach(s - 1) = Day * reach(s - 1) /\ reach(s - 1) \in Nat
        /\ Width(s - 1) = Day * Kind(s - 1)
    BY <1>1, <1>2, <1>8
  <2>2. CASE Kind(s) = Kind(s - 1)
    BY <1>2, <2>1, <2>2
  <2>3. CASE reach(s) >= reach(s - 1) + Kind(s)
    <3>1. Day * (reach(s - 1) + Kind(s)) <= Day * reach(s)
      <4>1. reach(s - 1) + Kind(s) \in Nat
        BY <1>2, <2>1
      <4> QED
        BY <1>1, <2>3, <4>1, Products
    <3>2. Day * (reach(s - 1) + Kind(s)) = Day * reach(s - 1) + Day * Kind(s)
      BY <1>2, <2>1, Products
    <3> QED
      BY <1>1, <1>2, <2>1, <3>1, <3>2
  <2> QED
    BY <1>5, <1>8, <2>2, <2>3
<1>9. ASSUME s > 1
      PROVE  Width(s) <= Slot(s - 1)
  <2> DEFINE n == s - 1
  <2>1. n \in Nat /\ n >= 1
    BY <1>9
  <2>2. CASE s <= Days
    <3>1. Width(s) = Day * 1
      BY <1>2, <2>2 DEF Kind
    <3> QED
      BY <2>1, <3>1, SlotOne, SlotsGrow
  <2>3. CASE s > Days /\ s <= Days + Weeks
    <3>1. Slot(Days) = Day * Days /\ Width(s) = Day * DaysPerWeek
      BY <1>2, <2>3, TableOfAges DEF Kind
    <3>2. Slot(Days) <= Slot(n)
      BY <2>1, <2>3, SlotsGrow
    <3>3. Day * DaysPerWeek <= Day * Days /\ Day * DaysPerWeek \in Nat /\ Day * Days \in Nat
      BY Products
    <3>4. Slot(n) \in Nat
      BY Widths DEF n
    <3> QED
      BY <3>1, <3>2, <3>3, <3>4
  <2>4. CASE s > Days + Weeks
    <3> DEFINE m == Days + Weeks  full == Days + Weeks * DaysPerWeek
    <3>0. full \in Nat
      OBVIOUS
    <3>1. m \in Nat /\ m <= n
      BY <2>1, <2>4
    <3>2. Slot(m) = Day * full
      <4>1. CASE Weeks = 0
        <5>1. full = Days /\ m = Days
          BY <4>1
        <5> QED
          BY <3>1, <5>1, TableOfAges
      <4>2. CASE Weeks > 0
        <5>1. ~(m <= Days) /\ m <= Days + Weeks /\ m - Days = Weeks
          BY <4>2
        <5> HIDE DEF m
        <5>2. Slot(m) = Day * (Days + (m - Days) * DaysPerWeek)
          BY <3>1, <5>1, TableOfAges
        <5> QED
          BY <5>1, <5>2
      <4> QED
        BY <4>1, <4>2
    <3>3. Width(s) = Day * DaysPerMonth
      BY <1>2, <2>4 DEF Kind
    <3>4. Day * DaysPerMonth <= Day * full /\ Day * DaysPerMonth \in Nat /\ Day * full \in Nat
      BY <3>0, Products
    <3>5. Slot(m) <= Slot(n) /\ Slot(n) \in Nat
      BY <2>1, <3>1, SlotsGrow, Widths DEF n
    <3> HIDE DEF m, full, n
    <3> QED
      BY <3>2, <3>3, <3>4, <3>5 DEF n
  <2> QED
    BY <2>2, <2>3, <2>4
<1> QED
  BY <1>6, <1>7, <1>8, <1>9

-----------------------------------------------------------------------------
(* A version at the time of a run: its slot is the one its age lies in.    *)
Now(u, s) == Slot(s - 1) < Age(u) /\ Age(u) <= Slot(s)

LEMMA SlotsAreNumbers ==
  ASSUME NEW s \in Slots
  PROVE  s \in Nat \ {0} /\ Slot(s) \in Nat /\ Slot(s - 1) \in Nat /\ Width(s) = Slot(s) - Slot(s - 1)
<1>1. s \in Nat \ {0}
  BY PruningAssumption DEF Slots
<1> QED
  BY <1>1, Widths DEF Width

LEMMA VersionsAreTimes ==
  ASSUME PruneTypes
  PROVE  /\ now \in Nat /\ versions \subseteq Nat
         /\ \A v \in versions : v \in Nat /\ v <= now /\ Age(v) \in Nat
BY DEF PruneTypes, Age

LEMMA SlotOfAge ==
  ASSUME PruneTypes, NEW u \in versions, Fits(u) # {}
  PROVE  /\ Age(u) \in Nat /\ SlotOf(u) \in Slots /\ Age(u) <= Slot(SlotOf(u))
         /\ SlotOf(u) # 1 => Slot(SlotOf(u) - 1) < Age(u)
         /\ \A s \in Slots : Age(u) <= Slot(s) => SlotOf(u) <= s
<1>1. Age(u) \in Nat /\ Slots \subseteq Nat
  BY PruningAssumption DEF PruneTypes, Age, Slots
<1>2. SlotOf(u) \in Fits(u) /\ \A s \in Fits(u) : SlotOf(u) <= s
  BY <1>1, MinExists DEF SlotOf, Fits
<1>3. SlotOf(u) \in Slots /\ Age(u) <= Slot(SlotOf(u))
  BY <1>2 DEF Fits, Slot
<1>4. \A s \in Slots : Age(u) <= Slot(s) => SlotOf(u) <= s
  BY <1>2 DEF Fits, Slot
<1>5. ASSUME SlotOf(u) # 1
      PROVE  Slot(SlotOf(u) - 1) < Age(u)
  <2> DEFINE s == SlotOf(u)
  <2>1. s - 1 \in Slots /\ s \in Nat /\ ~(s <= s - 1)
    BY <1>3, <1>5, PruningAssumption DEF Slots
  <2>2. ~(Age(u) <= Slot(s - 1))
    BY <1>4, <2>1
  <2>3. Slot(s - 1) \in Nat
    BY <1>3, SlotsAreNumbers
  <2> HIDE DEF s
  <2> QED
    BY <1>1, <2>2, <2>3 DEF s
<1> QED
  BY <1>1, <1>3, <1>4, <1>5

LEMMA OneSlot ==
  ASSUME PruneTypes, NEW u \in versions, NEW s \in Slots, Now(u, s)
  PROVE  Fits(u) # {} /\ SlotOf(u) = s
<1>1. s \in Fits(u)
  BY DEF Now, Fits, Slot
<1>2. SlotOf(u) \in Slots /\ Age(u) <= Slot(SlotOf(u)) /\ SlotOf(u) <= s /\ Age(u) \in Nat
  BY <1>1, SlotOfAge DEF Now
<1>3. s \in Nat \ {0} /\ SlotOf(u) \in Nat
  BY <1>2, SlotsAreNumbers
<1>4. ASSUME SlotOf(u) < s PROVE FALSE
  <2>1. SlotOf(u) <= s - 1 /\ s - 1 \in Nat
    BY <1>3, <1>4
  <2>2. Slot(SlotOf(u)) <= Slot(s - 1)
    BY <1>3, <2>1, SlotsGrow
  <2>3. Slot(s - 1) \in Nat /\ Slot(SlotOf(u)) \in Nat
    BY <1>2, SlotsAreNumbers
  <2> QED
    BY <1>2, <2>2, <2>3 DEF Now
<1> QED
  BY <1>1, <1>2, <1>3, <1>4

(* A version in another slot than the first was seen there before, or has  *)
(* come in since the last run, whose age was the upper end of the slot     *)
(* before.                                                                 *)
LEMMA SeenBefore ==
  ASSUME PruneTypes, NEW u \in versions, NEW s \in Slots, Now(u, s)
  PROVE  At(u, s) \/ (Seen = now - 1 /\ Age(u) = Slot(s - 1) + 1)
<1>1. Slot(s) \in Nat /\ Slot(s - 1) \in Nat
  BY SlotsAreNumbers
<1>2. u \in Nat /\ now \in Nat
  BY DEF PruneTypes
<1>3. CASE ran
  BY <1>1, <1>2, <1>3 DEF At, Seen, Now, Age
<1>4. CASE ~ran
  BY <1>1, <1>2, <1>4 DEF At, Seen, Now, Age
<1> QED
  BY <1>3, <1>4

(* Of the versions of a slot the oldest is kept, and the newest of all.    *)
LEMMA OccupantKept ==
  ASSUME PruneTypes, NEW u \in versions, Fits(u) # {}
  PROVE  LET o == Occupant(SlotOf(u)) IN
         /\ o \in Keep /\ o \in versions /\ o <= u /\ SlotOf(o) = SlotOf(u)
         /\ \A v \in versions : SlotOf(v) = SlotOf(u) => o <= v
<1> DEFINE s == SlotOf(u)
<1>1. InSlot(s) \subseteq Nat /\ u \in InSlot(s)
  BY VersionsAreTimes DEF InSlot
<1>2. Occupant(s) \in InSlot(s) /\ \A v \in InSlot(s) : Occupant(s) <= v
  BY <1>1, MinExists DEF Occupant
<1>3. Occupant(s) \in Keep
  BY DEF Keep
<1> QED
  BY <1>1, <1>2, <1>3 DEF InSlot

LEMMA KeepIsSome ==
  ASSUME PruneTypes, \A v \in versions : Fits(v) # {}
  PROVE  /\ Keep \subseteq versions
         /\ \A w \in versions : \E v \in Keep : w <= v
<1>1. Keep \subseteq versions
  <2> SUFFICES ASSUME NEW v \in Keep PROVE v \in versions
    OBVIOUS
  <2>1. CASE \E u \in versions : v = Occupant(SlotOf(u))
    BY <2>1, OccupantKept
  <2> QED
    BY <2>1 DEF Keep
<1>2. ASSUME NEW w \in versions
      PROVE  \E v \in Keep : w <= v
  <2>1. Max(versions) \in versions /\ Max(versions) >= w
    BY MaxExists DEF PruneTypes
  <2>2. Max(versions) \in Keep
    BY <2>1 DEF Keep
  <2>3. w \in Nat /\ Max(versions) \in Nat
    BY <2>1, VersionsAreTimes
  <2> QED
    BY <2>1, <2>2, <2>3
<1> QED
  BY <1>1, <1>2

(* A version that comes into a slot, is not the newest and is kept is far  *)
(* from the older ones: the slot was empty.                                *)
LEMMA EnteredIsFar ==
  ASSUME PruneTypes, \A v \in versions : Fits(v) # {},
         NEW u \in Keep, NEW z \in versions, u < z,
         NEW s \in Slots \ {1}, Age(u) = Slot(s - 1) + 1
  PROVE  Far(u, s)
<1> SUFFICES ASSUME NEW o \in versions, o < u
             PROVE  u - o >= Width(s)
  BY DEF Far
<1>1. u \in versions
  BY KeepIsSome
<1>2. /\ s \in Nat \ {0} /\ Slot(s) \in Nat /\ Slot(s - 1) \in Nat
      /\ Width(s) = Slot(s) - Slot(s - 1) /\ Width(s) > 0
  BY SlotsAreNumbers, Widths
<1>3. u \in Nat /\ o \in Nat /\ z \in Nat /\ now \in Nat /\ u <= now /\ o <= now
  BY <1>1 DEF PruneTypes
<1>4. Now(u, s)
  BY <1>2 DEF Now
<1>5. Age(u) >= Day
  <2>1. s - 1 \in Nat /\ 1 <= s - 1
    BY <1>2
  <2>2. Slot(1) <= Slot(s - 1)
    BY <2>1, SlotsGrow
  <2> QED
    BY <1>2, <2>2, SlotOne
<1>6. u # Min(versions) /\ u # Max(versions)
  <2>1. Min(versions) <= o
    BY VersionsAreTimes, MinExists
  <2>2. Max(versions) >= z
    BY MaxExists DEF PruneTypes
  <2> QED
    BY <1>3, <2>1, <2>2
<1>7. PICK v \in versions : u = Occupant(SlotOf(v))
  BY <1>3, <1>5, <1>6, SlotOne DEF Keep, Age
<1>8. SlotOf(u) = SlotOf(v) /\ \A y \in versions : SlotOf(y) = SlotOf(v) => u <= y
  BY <1>7, OccupantKept
<1>9. SlotOf(u) = s
  BY <1>1, <1>4, OneSlot
<1>10. ~Now(o, s)
  BY <1>3, <1>8, <1>9, OneSlot
<1>11. Age(o) > Slot(s)
  BY <1>2, <1>3, <1>10 DEF Now, Age
<1> QED
  BY <1>2, <1>3, <1>11 DEF Age

(* So every version that a run keeps is far from the older ones, if it was *)
(* not the newest when it came into its slot.                              *)
LEMMA KeptIsFar ==
  ASSUME PruneInv, Healthy, \A v \in versions : Fits(v) # {},
         NEW u \in Keep, NEW z \in versions, u < z,
         NEW s \in Slots \ {1}, Now(u, s), z - u <= Slot(s - 1)
  PROVE  Far(u, s)
<1>1. u \in versions /\ PruneTypes
  BY KeepIsSome DEF PruneInv
<1>2. CASE At(u, s)
  BY <1>1, <1>2 DEF PruneInv, Apart
<1>3. CASE Age(u) = Slot(s - 1) + 1
  BY <1>1, <1>3, EnteredIsFar
<1> QED
  BY <1>1, <1>2, <1>3, SeenBefore

-----------------------------------------------------------------------------
(* What a run makes of the invariant                                       *)
LEMMA AfterRun ==
  ASSUME PruneInv, Prune
  PROVE  /\ PruneTypes /\ Healthy /\ \A v \in versions : Fits(v) # {}
         /\ versions' = Keep /\ Keep \subseteq versions /\ now' = now /\ Seen' = now
         /\ lost' \subseteq lost \cup (versions \ Keep)
         /\ \A u, s : At(u, s)' <=> Now(u, s)
         /\ \A u, s : Far(u, s) => Far(u, s)'
<1>1. /\ PruneTypes /\ versions' = Keep /\ now' = now /\ ran' = TRUE
      /\ \A v \in versions : Fits(v) # {}
      /\ lost' \subseteq lost \cup (versions \ Keep)
  BY DEF PruneInv, Prune, YoungestBetween
<1>2. Seen' = now
  BY <1>1 DEF Seen
<1>3. Healthy
  <2> SUFFICES ASSUME NEW v \in versions PROVE \E s \in Slots : Seen - v <= Slot(s)
    BY DEF Healthy
  <2>1. PICK s \in Slots : Age(v) <= Slot(s)
    BY <1>1 DEF Fits, Slot
  <2>2. v \in Nat /\ now \in Nat /\ Slot(s) \in Nat
    BY <1>1, SlotsAreNumbers DEF PruneTypes
  <2>3. Seen \in {now, now - 1}
    BY DEF Seen
  <2>4. Seen - v <= Slot(s)
    BY <2>1, <2>2, <2>3 DEF Age
  <2> QED
    BY <2>4
<1>4. Keep \subseteq versions
  BY <1>1, KeepIsSome
<1>5. \A u, s : At(u, s)' <=> Now(u, s)
  BY <1>2 DEF At, Now, Age, Slot, generateTimeTable
<1>6. \A u, s : Far(u, s) => Far(u, s)'
  BY <1>1, <1>4 DEF Far, Width, Slot, generateTimeTable
<1> QED
  BY <1>1, <1>2, <1>3, <1>4, <1>5, <1>6

(* A version that is deleted leaves the oldest of its slot behind.         *)
LEMMA DeletedNow ==
  ASSUME PruneInv, Prune, NEW w \in versions \ Keep
  PROVE  \E u \in Keep : LeftBehind(u, w)'
<1>1. /\ PruneTypes /\ Healthy /\ \A v \in versions : Fits(v) # {}
      /\ versions' = Keep /\ Keep \subseteq versions /\ now' = now /\ Seen' = now
      /\ \A u, t : At(u, t)' <=> Now(u, t)
      /\ \A u, t : Far(u, t) => Far(u, t)'
  BY AfterRun
<1>2. PICK o \in Keep : o \in versions /\ o <= w /\ SlotOf(o) = SlotOf(w)
  BY <1>1, OccupantKept
<1>3. /\ w \in Nat /\ o \in Nat /\ now \in Nat /\ w <= now /\ o < w
  BY <1>1, <1>2, VersionsAreTimes
<1>4. PICK s \in Slots :
      /\ SlotOf(w) = s /\ Age(w) <= Slot(s) /\ Age(o) <= Slot(s)
      /\ s # 1 => Slot(s - 1) < Age(w) /\ Slot(s - 1) < Age(o)
      /\ \A t \in Slots : Age(o) <= Slot(t) => s <= t
  BY <1>1, <1>2, SlotOfAge
<1>5. Age(w) >= Day
  BY <1>3, SlotOne DEF Keep, Age
<1>6. /\ s \in Nat \ {0} /\ Slot(s) \in Nat /\ Slot(s - 1) \in Nat
      /\ Width(s) = Slot(s) - Slot(s - 1) /\ Reach(s) \in Nat /\ Width(s) <= Reach(s)
      /\ \A t \in Nat : s <= t => Reach(t) \in Nat /\ Reach(s) <= Reach(t)
  BY <1>4, SlotsAreNumbers, Reaches
<1>7. s # 1
  BY <1>3, <1>4, <1>5, SlotOne DEF Age
<1>8. Now(o, s) /\ w - o < Width(s)
  BY <1>3, <1>4, <1>6, <1>7 DEF Now, Age
<1>9. Width(s) <= Slot(s - 1)
  BY <1>6, <1>7, Reaches
<1>10. Seen' - o > Day
  <2>1. Age(o) > Age(w) /\ Age(o) = now - o
    BY <1>3 DEF Age
  <2> QED
    BY <1>1, <1>3, <1>5, <2>1, SlotOne DEF Age
<1>11. ASSUME NEW t \in Slots, Seen' - o <= Slot(t)
       PROVE  w - o <= Reach(t)
  <2>1. s <= t /\ t \in Nat
    BY <1>1, <1>4, <1>11, SlotsAreNumbers DEF Age
  <2> QED
    BY <1>3, <1>6, <1>8, <2>1
<1>12. ASSUME NEW t \in Slots, At(o, t)'
       PROVE  Far(o, t)'
  <2>1. t = s
    BY <1>1, <1>2, <1>8, <1>12, OneSlot
  <2>2. Far(o, s)
    BY <1>1, <1>2, <1>3, <1>4, <1>6, <1>7, <1>8, <1>9, KeptIsFar
  <2> QED
    BY <1>1, <2>1, <2>2
<1>13. LeftBehind(o, w)'
  BY <1>3, <1>10, <1>11, <1>12 DEF LeftBehind, Slot, generateTimeTable, Reach
<1> QED
  BY <1>2, <1>13

(* What an earlier deletion left behind is kept, or deleted in its turn    *)
(* when it comes into the first slot of a wider kind.                      *)
LEMMA DeletedBefore ==
  ASSUME PruneInv, Prune, NEW w \in lost
  PROVE  \E u \in Keep : LeftBehind(u, w)'
<1>1. /\ PruneTypes /\ Healthy /\ \A v \in versions : Fits(v) # {}
      /\ versions' = Keep /\ Keep \subseteq versions /\ now' = now /\ Seen' = now
      /\ \A u, t : At(u, t)' <=> Now(u, t)
      /\ \A u, t : Far(u, t) => Far(u, t)'
  BY AfterRun
<1>2. PICK u \in versions : LeftBehind(u, w)
  BY DEF PruneInv
<1>3. PICK v \in versions : w < v
  BY DEF PruneInv
<1>4. /\ u \in Nat /\ v \in Nat /\ w \in Nat /\ now \in Nat /\ u <= now
      /\ u < w /\ u < v /\ Seen \in {now, now - 1}
  BY <1>1, <1>2, <1>3, VersionsAreTimes DEF LeftBehind, Seen, PruneTypes
<1>5. /\ Seen - u > Day /\ Day \in Nat
      /\ \A t \in Slots : Seen - u <= Slot(t) => w - u <= Reach(t)
      /\ \A t \in Slots : At(u, t) => Far(u, t)
  BY <1>1, <1>2, SlotOne DEF LeftBehind
<1>6. Age(u) = now - u /\ Age(u) > Day /\ Seen - u <= Age(u)
  BY <1>4, <1>5 DEF Age
<1>7. CASE u \in Keep
  <2>1. ASSUME NEW t \in Slots, Seen' - u <= Slot(t)
        PROVE  w - u <= Reach(t)
    BY <1>1, <1>4, <1>5, <2>1, SlotsAreNumbers
  <2>2. ASSUME NEW t \in Slots, At(u, t)'
        PROVE  Far(u, t)'
    <3>1. Now(u, t) /\ Slot(t) \in Nat
      BY <1>1, <2>2, SlotsAreNumbers
    <3>2. t # 1
      BY <1>4, <1>5, <1>6, <3>1, SlotOne DEF Now
    <3>3. CASE At(u, t)
      BY <1>1, <1>5, <3>3
    <3>4. CASE Age(u) = Slot(t - 1) + 1
      BY <1>1, <1>4, <1>7, <3>2, <3>4, EnteredIsFar
    <3> QED
      BY <1>1, <3>1, <3>3, <3>4, SeenBefore
  <2>3. Seen' - u > Day
    BY <1>1, <1>6
  <2>4. LeftBehind(u, w)'
    BY <1>4, <2>1, <2>2, <2>3 DEF LeftBehind, Slot, generateTimeTable, Reach
  <2> QED
    BY <1>7, <2>4
<1>8. CASE u \notin Keep
  <2>1. PICK o \in Keep : o \in versions /\ o <= u /\ SlotOf(o) = SlotOf(u)
    BY <1>1, OccupantKept
  <2>2. o \in Nat /\ o <= now /\ o < u /\ Age(o) = now - o
    BY <1>1, <1>4, <1>8, <2>1, VersionsAreTimes DEF Age
  <2>3. PICK s \in Slots :
        /\ SlotOf(u) = s /\ Age(u) <= Slot(s) /\ Age(o) <= Slot(s)
        /\ s # 1 => Slot(s - 1) < Age(u) /\ Slot(s - 1) < Age(o)
        /\ \A t \in Slots : Age(o) <= Slot(t) => s <= t
    BY <1>1, <2>1, SlotOfAge
  <2>4. /\ s \in Nat \ {0} /\ Slot(s) \in Nat /\ Slot(s - 1) \in Nat
        /\ Width(s) = Slot(s) - Slot(s - 1) /\ Reach(s) \in Nat
        /\ \A t \in Nat : s <= t => Reach(t) \in Nat /\ Reach(s) <= Reach(t)
    BY <2>3, SlotsAreNumbers, Reaches
  <2>5. s # 1
    BY <1>4, <1>5, <1>6, <2>3, SlotOne
  <2>6. Now(o, s) /\ Now(u, s) /\ u - o < Width(s)
    BY <1>4, <1>6, <2>2, <2>3, <2>4, <2>5 DEF Now
  <2>7. /\ Width(s) <= Slot(s - 1)
        /\ Width(s) = Width(s - 1) \/ Reach(s) >= Reach(s - 1) + Width(s)
    BY <2>4, <2>5, Reaches
  <2>8. ~At(u, s)
    <3>1. ~Far(u, s)
      BY <1>4, <2>1, <2>2, <2>4, <2>6 DEF Far
    <3> QED
      BY <1>5, <2>3, <3>1
  <2>9. Seen = now - 1 /\ Age(u) = Slot(s - 1) + 1
    BY <1>1, <2>3, <2>6, <2>8, SeenBefore
  <2>10. Seen - u = Slot(s - 1)
    BY <1>4, <1>6, <2>4, <2>9
  <2>11. s - 1 \in Slots
    BY <2>3, <2>4, <2>5, PruningAssumption DEF Slots
  <2>12. At(u, s - 1)
    <3>1. Slot(s - 1) - Slot(s - 1 - 1) > 0 /\ Slot(s - 1 - 1) \in Nat
      BY <2>11, SlotsAreNumbers, Widths
    <3> QED
      BY <2>4, <2>10, <3>1 DEF At
  <2>13. u - o >= Width(s - 1) /\ w - u <= Reach(s - 1)
    <3>1. Slot(s - 1) <= Slot(s - 1)
      BY <2>4
    <3> QED
      BY <1>5, <2>1, <2>2, <2>10, <2>11, <2>12, <3>1 DEF Far
  <2>14. w - o <= Reach(s)
    <3>1. Width(s) # Width(s - 1)
      BY <1>4, <2>2, <2>4, <2>6, <2>13
    <3>2. Reach(s - 1) \in Nat
      BY <2>11, SlotsAreNumbers, Reaches
    <3> QED
      BY <1>4, <2>2, <2>4, <2>6, <2>7, <2>13, <3>1, <3>2
  <2>15. ASSUME NEW t \in Slots, Seen' - o <= Slot(t)
         PROVE  w - o <= Reach(t)
    <3>1. s <= t /\ t \in Nat
      BY <1>1, <2>2, <2>3, <2>15, SlotsAreNumbers
    <3> QED
      BY <1>4, <2>2, <2>4, <2>14, <3>1
  <2>16. ASSUME NEW t \in Slots, At(o, t)'
         PROVE  Far(o, t)'
    <3>1. t = s
      BY <1>1, <2>1, <2>3, <2>6, <2>16, OneSlot
    <3>2. u - o <= Slot(s - 1)
      BY <1>4, <2>2, <2>4, <2>6, <2>7
    <3>3. Far(o, s)
      BY <1>1, <2>1, <2>2, <2>3, <2>5, <2>6, <3>2, KeptIsFar
    <3> QED
      BY <1>1, <3>1, <3>3
  <2>17. Seen' - o > Day
    BY <1>1, <1>4, <1>5, <1>6, <2>2
  <2>18. LeftBehind(o, w)'
    <3>1. o < w
      BY <1>4, <2>2
    <3> QED
      BY <2>15, <2>16, <2>17, <3>1 DEF LeftBehind, Slot, generateTimeTable, Reach
  <2> QED
    BY <2>1, <2>18
<1> QED
  BY <1>7, <1>8

LEMMA PruneKeeps ==
  ASSUME PruneInv, Prune
  PROVE  PruneInv'
<1>1. /\ PruneTypes /\ Healthy /\ \A v \in versions : Fits(v) # {}
      /\ versions' = Keep /\ Keep \subseteq versions /\ now' = now /\ Seen' = now
      /\ lost' \subseteq lost \cup (versions \ Keep)
      /\ \A u, t : At(u, t)' <=> Now(u, t)
      /\ \A u, t : Far(u, t) => Far(u, t)'
  BY AfterRun
<1>2. PruneTypes'
  <2>1. ran' = TRUE
    BY DEF Prune
  <2>2. versions \subseteq 0 .. now /\ lost \subseteq Nat /\ now \in Nat /\ versions \subseteq Nat
    BY <1>1, VersionsAreTimes DEF PruneTypes
  <2>3. versions' \subseteq 0 .. now' /\ lost' \subseteq Nat
    BY <1>1, <2>2
  <2> QED
    BY <1>1, <2>1, <2>2, <2>3 DEF PruneTypes
<1>3. ASSUME NEW u \in Keep, NEW z \in Keep, NEW s \in Slots \ {1}, At(u, s)', u < z,
             z - u <= Slot(s - 1)
      PROVE  Far(u, s)'
  BY <1>1, <1>3, KeptIsFar
<1>4. Apart'
  BY <1>1, <1>3 DEF Apart, Slot, generateTimeTable
<1>5. ASSUME NEW w \in lost'
      PROVE  (\E u \in Keep : LeftBehind(u, w)') /\ (\E v \in Keep : w < v)
  <2>1. PICK z \in versions : w < z \/ (w = z /\ w \notin Keep)
    BY <1>1, <1>5 DEF PruneInv
  <2>2. PICK v \in Keep : z <= v
    BY <1>1, KeepIsSome
  <2>3. w \in Nat /\ z \in Nat /\ v \in Nat
    BY <1>1, <1>2, <1>5, VersionsAreTimes DEF PruneTypes
  <2>4. w < v
    BY <2>1, <2>2, <2>3
  <2> QED
    BY <1>1, <1>5, <2>4, DeletedNow, DeletedBefore
<1> QED
  BY <1>1, <1>2, <1>4, <1>5 DEF PruneInv

(* A new version is younger than all, and in no slot when seen last.       *)
LEMMA NewVersionKeeps ==
  ASSUME PruneInv, UploadVersion
  PROVE  PruneInv'
<1>1. /\ versions' = versions \cup {now} /\ UNCHANGED <<now, lost, ran>> /\ PruneTypes
      /\ Seen' = Seen
  BY DEF UploadVersion, PruneInv, Seen
<1>2. now \in Nat /\ Seen \in {now, now - 1} /\ \A u \in versions : u \in Nat /\ u <= now
  BY <1>1, VersionsAreTimes DEF Seen
<1>3. PruneTypes'
  BY <1>1, <1>2 DEF PruneTypes
<1>4. /\ Healthy' => Healthy
      /\ \A u, s : At(u, s)' <=> At(u, s)
      /\ \A u \in versions, s \in Slots : Far(u, s) => Far(u, s)'
  <2>1. \A u, s : At(u, s)' <=> At(u, s)
    BY <1>1 DEF At, Slot, generateTimeTable
  <2>2. Healthy' => Healthy
    BY <1>1 DEF Healthy, Slot, generateTimeTable
  <2>3. ASSUME NEW u \in versions, NEW s \in Slots, Far(u, s), NEW o \in versions', o < u
        PROVE  u - o >= Width(s)
    <3>1. o \in versions
      BY <1>1, <1>2, <2>3
    <3> QED
      BY <2>3, <3>1 DEF Far
  <2>4. \A u \in versions, s \in Slots : Far(u, s) => Far(u, s)'
    BY <2>3 DEF Far, Width, Slot, generateTimeTable
  <2> QED
    BY <2>1, <2>2, <2>4
<1>5. Apart'
  <2> SUFFICES ASSUME Healthy', NEW u \in versions', NEW z \in versions', NEW s \in Slots \ {1},
                      At(u, s), u < z, z - u <= Slot(s - 1)
               PROVE  Far(u, s)'
    BY <1>4 DEF Apart, Slot, generateTimeTable
  <2>1. Slot(s - 1) \in Nat
    BY SlotsAreNumbers
  <2>2. u # now /\ z # now
    BY <1>1, <1>2, <2>1 DEF At
  <2>3. u \in versions /\ z \in versions
    BY <1>1, <2>2
  <2> QED
    BY <1>4, <2>3 DEF PruneInv, Apart
<1>6. \A u \in versions, w \in lost : LeftBehind(u, w) => LeftBehind(u, w)'
  BY <1>1, <1>4 DEF LeftBehind, Slot, generateTimeTable, Reach
<1> QED
  BY <1>1, <1>3, <1>5, <1>6 DEF PruneInv

LEMMA PanicKeeps ==
  ASSUME PruneInv, PrunePanics
  PROVE  PruneInv'
<1>1. /\ UNCHANGED <<now, lost, versions>> /\ PruneTypes /\ ran' = TRUE /\ Seen' = now
  BY DEF PrunePanics, PruneInv, Seen
<1>2. ~Healthy'
  BY <1>1 DEF PrunePanics, Healthy, Fits, Age, Slot, generateTimeTable, Slots
<1>3. ASSUME NEW u \in versions, NEW w \in lost, LeftBehind(u, w)
      PROVE  LeftBehind(u, w)'
  <2>1. now \in Nat /\ u \in Nat /\ Seen <= Seen' /\ Seen \in Int
    BY <1>1, VersionsAreTimes DEF Seen
  <2>2. \A s \in Slots : Seen' - u <= Slot(s) => Seen - u <= Slot(s)
    BY <1>1, <2>1, SlotsAreNumbers
  <2>3. Seen - u > Day /\ \A s \in Slots : Seen - u <= Slot(s) => w - u <= Reach(s)
    BY <1>3 DEF LeftBehind
  <2>4. Seen' - u > Day
    BY <1>1, <2>1, <2>3, SlotOne
  <2> QED
    BY <1>2, <1>3, <2>2, <2>3, <2>4 DEF LeftBehind, Slot, generateTimeTable, Reach
<1> QED
  BY <1>1, <1>2, <1>3 DEF PruneInv, PruneTypes, Apart

LEMMA TickKeeps ==
  ASSUME PruneInv, Tick \/ UNCHANGED pruneVars
  PROVE  PruneInv'
<1>1. /\ UNCHANGED <<lost, versions>> /\ PruneTypes
      /\ now' \in {now, now + 1} /\ ran' \in BOOLEAN
  BY DEF Tick, PruneInv, pruneVars, PruneTypes
<1>2. Seen' = Seen
  BY VersionsAreTimes, <1>1 DEF Tick, Seen, pruneVars
<1>3. PruneTypes'
  BY <1>1 DEF PruneTypes
<1>4. /\ Healthy' <=> Healthy
      /\ \A u, s : At(u, s)' <=> At(u, s)
      /\ \A u, s : Far(u, s)' <=> Far(u, s)
  BY <1>1, <1>2 DEF Healthy, At, Far, Width, Slot, generateTimeTable
<1>5. Apart'
  BY <1>1, <1>4 DEF PruneInv, Apart, Slot, generateTimeTable
<1>6. \A u, w : LeftBehind(u, w) => LeftBehind(u, w)'
  BY <1>2, <1>4 DEF LeftBehind, Slot, generateTimeTable, Reach
<1> QED
  BY <1>1, <1>3, <1>5, <1>6 DEF PruneInv

LEMMA PruneStart == PruneInit => PruneInv
<1> SUFFICES ASSUME PruneInit PROVE PruneInv
  OBVIOUS
<1>1. PruneTypes /\ versions = {} /\ lost = {}
  BY DEF PruneInit, PruneTypes
<1> QED
  BY <1>1 DEF PruneInv, Apart

(* Of every version that was deleted an older one is left, within the      *)
(* reach of its slot, for any table of ages whose days make up a week and  *)
(* whose weeks make up a month, and any times of upload (whatToDelete).    *)
THEOREM HistoryIsThinned == PruneSpec => []ThinnedNotTorn
<1>1. PruneInv /\ [PruneNext]_pruneVars => PruneInv'
  BY PruneKeeps, NewVersionKeeps, PanicKeeps, TickKeeps DEF PruneNext
<1>2. PruneInv => ThinnedNotTorn
  <2> SUFFICES ASSUME PruneInv, NEW w \in lost
               PROVE  \E u \in versions : u < w /\ (Fits(u) # {} => w - u <= Reach(SlotOf(u)))
    BY DEF ThinnedNotTorn
  <2>1. PICK u \in versions : LeftBehind(u, w)
    BY DEF PruneInv
  <2>2. ASSUME Fits(u) # {} PROVE w - u <= Reach(SlotOf(u))
    <3>1. SlotOf(u) \in Slots /\ now - u <= Slot(SlotOf(u)) /\ u \in Nat /\ now \in Nat
      BY <2>2, SlotOfAge, VersionsAreTimes DEF PruneInv, Age
    <3>2. Seen - u <= Slot(SlotOf(u))
      BY <3>1, SlotsAreNumbers DEF Seen
    <3> QED
      BY <2>1, <3>1, <3>2 DEF LeftBehind
  <2> QED
    BY <2>1, <2>2 DEF LeftBehind
<1> QED
  BY <1>1, <1>2, PruneStart, PTL DEF PruneSpec

-----------------------------------------------------------------------------
(***************************************************************************)
(* The interval buffer, for any interval: from every time on that is in    *)
(* the interval there are as many elements as values were added.           *)
(***************************************************************************)
(* The elements, and the values that were added, from a time on            *)
Elements(t) == {i \in DOMAIN buffer : t <= buffer[i]}
Values(t) == {a \in added : t <= a[1]}

BufferTypes ==
  /\ time \in Nat
  /\ buffer \in Seq(Nat)
  /\ position \in 1 .. Len(buffer) + 1
  /\ IsFiniteSet(added) /\ added \subseteq Nat \X Nat

(* As many elements as values, not only from the beginning of the interval *)
(* but from every time in it, which is what it begins with later.          *)
AllThere ==
  \A t \in Int : time - Interval <= t => Cardinality(Elements(t)) = Cardinality(Values(t))

BufferInv == BufferTypes /\ AllThere

-----------------------------------------------------------------------------
LEMMA BufferStart == BufferInit => BufferInv
<1> SUFFICES ASSUME BufferInit PROVE BufferInv
  OBVIOUS
<1>1. BufferTypes
  BY FS_EmptySet DEF BufferInit, BufferTypes
<1>2. \A t : Elements(t) = {} /\ Values(t) = {}
  BY DEF BufferInit, Elements, Values
<1> QED
  BY <1>1, <1>2 DEF BufferInv, AllThere

LEMMA FiniteParts ==
  ASSUME BufferTypes, NEW t \in Int
  PROVE  IsFiniteSet(Elements(t)) /\ IsFiniteSet(Values(t))
<1>1. Values(t) \subseteq added /\ IsFiniteSet(added)
  BY DEF BufferTypes, Values
<1>2. Elements(t) \subseteq 1 .. Len(buffer) /\ IsFiniteSet(1 .. Len(buffer))
  <2>1. DOMAIN buffer = 1 .. Len(buffer) /\ Len(buffer) \in Int
    BY DEF BufferTypes
  <2>2. IsFiniteSet(1 .. Len(buffer))
    BY <2>1, FS_Interval
  <2> QED
    BY <2>1, <2>2 DEF Elements
<1> QED
  BY <1>1, <1>2, FS_Subset

(* Where AddT writes: the element at the position is too old to count, or  *)
(* the buffer grows.                                                       *)
LEMMA WhereAddWrites ==
  ASSUME BufferTypes, NEW when \in Nat, Add(when)
  PROVE  \E p \in Nat \ {0} :
           /\ p \in DOMAIN buffer => time - buffer[p] > Interval
           /\ DOMAIN buffer' = DOMAIN buffer \cup {p} /\ buffer' \in Seq(Nat)
           /\ buffer'[p] = when /\ \A i \in DOMAIN buffer \ {p} : buffer'[i] = buffer[i]
           /\ position' \in 1 .. Len(buffer') + 1
<1>1. /\ buffer \in Seq(Nat) /\ Len(buffer) \in Nat /\ DOMAIN buffer = 1 .. Len(buffer)
      /\ position \in 1 .. Len(buffer) + 1
  BY DEF BufferTypes
<1>2. CASE buffer = <<>>
  <2>1. buffer' = <<when>> /\ position' = position
    BY <1>2 DEF Add
  <2>2. Len(buffer) = 0 /\ DOMAIN buffer = {} /\ position = 1
    BY <1>1, <1>2
  <2>3. Len(buffer') = 1 /\ DOMAIN buffer' = {1} /\ buffer'[1] = when /\ buffer' \in Seq(Nat)
    BY <2>1
  <2>4. 1 \in Nat \ {0} /\ position' \in 1 .. Len(buffer') + 1 /\ DOMAIN buffer' = DOMAIN buffer \cup {1}
    BY <2>1, <2>2, <2>3
  <2> QED
    BY <2>2, <2>3, <2>4
<1>3. ASSUME buffer # <<>>
      PROVE  Position \in DOMAIN buffer /\ Position \in Nat \ {0}
  BY <1>1, <1>3 DEF Position
<1>4. CASE buffer # <<>> /\ Reusable(Position)
  <2>1. buffer' = [buffer EXCEPT ![Position] = when] /\ position' = Position + 1
    BY <1>4 DEF Add
  <2>2. buffer' \in Seq(Nat) /\ Len(buffer') = Len(buffer) /\ DOMAIN buffer' = DOMAIN buffer
        /\ buffer'[Position] = when /\ \A i \in DOMAIN buffer \ {Position} : buffer'[i] = buffer[i]
    BY <1>1, <1>3, <1>4, <2>1
  <2>3. position' \in 1 .. Len(buffer') + 1
    BY <1>1, <1>3, <1>4, <2>1, <2>2
  <2> QED
    BY <1>3, <1>4, <2>2, <2>3 DEF Reusable
<1>5. CASE buffer # <<>> /\ ~Reusable(Position)
  <2> DEFINE p == Len(buffer) + 1
  <2>1. buffer' = Append(buffer, when) /\ position' = Position
    BY <1>5 DEF Add
  <2>2. buffer' \in Seq(Nat) /\ Len(buffer') = p /\ DOMAIN buffer' = DOMAIN buffer \cup {p}
        /\ buffer'[p] = when /\ (\A i \in DOMAIN buffer \ {p} : buffer'[i] = buffer[i])
        /\ p \notin DOMAIN buffer /\ p \in Nat \ {0}
    BY <1>1, <2>1
  <2>3. position' \in 1 .. Len(buffer') + 1
    BY <1>1, <1>3, <1>5, <2>1, <2>2
  <2> QED
    BY <2>2, <2>3
<1> QED
  BY <1>2, <1>4, <1>5

LEMMA AddKeeps ==
  ASSUME BufferInv, NEW when \in 0 .. time, Add(when)
  PROVE  BufferInv'
<1>1. BufferTypes /\ time \in Nat /\ time' = time /\ when \in Nat
  BY DEF BufferInv, BufferTypes, Add
<1>2. PICK p \in Nat \ {0} :
           /\ p \in DOMAIN buffer => time - buffer[p] > Interval
           /\ DOMAIN buffer' = DOMAIN buffer \cup {p} /\ buffer' \in Seq(Nat)
           /\ buffer'[p] = when /\ \A i \in DOMAIN buffer \ {p} : buffer'[i] = buffer[i]
           /\ position' \in 1 .. Len(buffer') + 1
  BY <1>1, WhereAddWrites
<1>3. PICK n \in Nat : <<when, n>> \notin added /\ added' = added \cup {<<when, n>>}
  BY DEF Add
<1>4. BufferTypes'
  <2>1. IsFiniteSet(added') /\ added' \subseteq Nat \X Nat
    <3>1. IsFiniteSet(added) /\ added \subseteq Nat \X Nat /\ <<when, n>> \in Nat \X Nat
      BY <1>1 DEF BufferTypes
    <3>2. IsFiniteSet(added \cup {<<when, n>>})
      BY <3>1, FS_AddElement
    <3> QED
      BY <1>3, <3>1, <3>2
  <2> QED
    BY <1>1, <1>2, <2>1 DEF BufferTypes
<1>5. ASSUME NEW t \in Int, time - Interval <= t
      PROVE  Cardinality(Elements(t)') = Cardinality(Values(t)')
  <2>1. /\ IsFiniteSet(Elements(t)) /\ IsFiniteSet(Values(t))
        /\ Cardinality(Elements(t)) = Cardinality(Values(t))
    BY <1>1, <1>5, FiniteParts DEF BufferInv, AllThere
  <2>2. p \notin Elements(t)
    <3>1. p \in DOMAIN buffer => buffer[p] \in Nat
      BY <1>1 DEF BufferTypes
    <3> QED
      BY <1>1, <1>2, <1>5, <3>1, BufferAssumption DEF Elements
  <2>3. <<when, n>> \notin Values(t)
    BY <1>3 DEF Values
  <2>4. CASE t <= when
    <3>1. Elements(t)' = Elements(t) \cup {p}
      BY <1>2, <2>2, <2>4 DEF Elements
    <3>2. Values(t)' = Values(t) \cup {<<when, n>>}
      BY <1>3, <2>4 DEF Values
    <3> QED
      BY <2>1, <2>2, <2>3, <3>1, <3>2, FS_AddElement
  <2>5. CASE ~(t <= when)
    <3>1. Elements(t)' = Elements(t)
      BY <1>2, <2>2, <2>5 DEF Elements
    <3>2. Values(t)' = Values(t)
      BY <1>3, <2>5 DEF Values
    <3> QED
      BY <2>1, <3>1, <3>2
  <2> QED
    BY <2>4, <2>5
<1> QED
  BY <1>1, <1>4, <1>5 DEF BufferInv, AllThere

LEMMA TimeKeeps ==
  ASSUME BufferInv, TimePasses \/ UNCHANGED bufferVars
  PROVE  BufferInv'
<1>1. time \in Nat /\ time' \in {time, time + 1} /\ UNCHANGED <<buffer, position, added>>
  BY DEF BufferInv, BufferTypes, TimePasses, bufferVars
<1>2. BufferTypes'
  BY <1>1 DEF BufferInv, BufferTypes
<1>3. \A t \in Int : time' - Interval <= t => time - Interval <= t
  <2>1. Interval \in Nat
    BY BufferAssumption
  <2>2. CASE time' = time
    BY <2>2
  <2>3. CASE time' = time + 1
    BY <1>1, <2>1, <2>3
  <2> QED
    BY <1>1, <2>2, <2>3
<1>4. AllThere'
  BY <1>1, <1>3 DEF BufferInv, AllThere, Elements, Values
<1> QED
  BY <1>2, <1>4 DEF BufferInv

(* The sum counts every value of the last interval, for any interval and   *)
(* any order of additions and ticks: an element that is reused does not    *)
(* count any more (AddT, Sum).                                             *)
THEOREM SumForgetsNothing == BufferSpec => []NothingForgotten
<1>1. BufferInv /\ [BufferNext]_bufferVars => BufferInv'
  BY AddKeeps, TimeKeeps DEF BufferNext
<1>2. BufferInv => NothingForgotten
  <2> SUFFICES ASSUME BufferInv PROVE NothingForgotten
    OBVIOUS
  <2> DEFINE t == time - Interval
  <2>1. t \in Int /\ time \in Nat /\ Interval \in Nat /\ buffer \in Seq(Nat) /\ added \subseteq Nat \X Nat
    BY BufferAssumption DEF BufferInv, BufferTypes
  <2>2. {i \in DOMAIN buffer : time - buffer[i] <= Interval} = Elements(t)
    BY <2>1 DEF Elements
  <2>3. {a \in added : time - a[1] <= Interval} = Values(t)
    BY <2>1 DEF Values
  <2>4. Cardinality(Elements(t)) = Cardinality(Values(t))
    BY <2>1 DEF BufferInv, AllThere
  <2> QED
    BY <2>2, <2>3, <2>4 DEF NothingForgotten, Sum, Counts
<1> QED
  BY <1>1, <1>2, BufferStart, PTL DEF BufferSpec
-----------------------------------------------------------------------------
(***************************************************************************)
(* The distance of strings, for any letters and lengths: the loop computes *)
(* what the recursive definition says.  First, the definition has a value  *)
(* for all strings, by their length; then the column of these values is    *)
(* the one that satisfies the equations of the inner loop.                 *)
(***************************************************************************)
LEMMA StringsAreSequences ==
  Strings = {s \in Seq(Letter) : Len(s) <= MaxLength}
<1>1. ASSUME NEW s \in Strings PROVE s \in Seq(Letter) /\ Len(s) <= MaxLength
  <2>1. PICK n \in 0 .. MaxLength : s \in [1 .. n -> Letter]
    BY DEF Strings
  <2>2. n \in Nat /\ n <= MaxLength
    BY <2>1, LengthAssumption
  <2>3. s \in Seq(Letter)
    BY <2>1, <2>2, SeqDef
  <2>4. Len(s) \in Nat /\ DOMAIN s = 1 .. Len(s) /\ DOMAIN s = 1 .. n
    BY <2>1, <2>3, LenProperties
  <2>5. PICK l \in Nat : l = Len(s) /\ 1 .. l = 1 .. n
    BY <2>4
  <2>6. l \in 1 .. l <=> l \in 1 .. n
    BY <2>5
  <2>7. n \in 1 .. l <=> n \in 1 .. n
    BY <2>5
  <2>8. l = n
    BY <2>2, <2>6, <2>7
  <2> QED
    BY <2>2, <2>3, <2>5, <2>8
<1>2. ASSUME NEW s \in Seq(Letter), Len(s) <= MaxLength PROVE s \in Strings
  <2>1. Len(s) \in 0 .. MaxLength /\ s \in [1 .. Len(s) -> Letter]
    BY <1>2, LenProperties, LengthAssumption
  <2> QED
    BY <2>1 DEF Strings
<1> QED
  BY <1>1, <1>2

(* A beginning of a string is a string, and what is before its last letter *)
(* is a shorter beginning.                                                 *)
LEMMA BeginningOfString ==
  ASSUME NEW s \in Strings, NEW n \in 0 .. Len(s)
  PROVE  /\ SubSeq(s, 1, n) \in Strings
         /\ Len(SubSeq(s, 1, n)) = n
         /\ SubSeq(s, 1, n) = <<>> <=> n = 0
         /\ n > 0 => /\ SubSeq(s, 1, n)[n] = s[n]
                     /\ front(SubSeq(s, 1, n)) = SubSeq(s, 1, n - 1)
<1>1. s \in Seq(Letter) /\ Len(s) \in Nat /\ Len(s) <= MaxLength /\ MaxLength \in Nat
  BY StringsAreSequences, LenProperties, LengthAssumption
<1>2. n \in Nat /\ n <= Len(s)
  BY <1>1
<1>3. \A i \in 1 .. n : s[i] \in Letter
  BY <1>1, <1>2, ElementOfSeq
<1>4. /\ SubSeq(s, 1, n) \in Seq(Letter)
      /\ Len(SubSeq(s, 1, n)) = IF 1 <= n THEN n - 1 + 1 ELSE 0
      /\ \A i \in 1 .. n - 1 + 1 : SubSeq(s, 1, n)[i] = s[1 + i - 1]
  <2>1. 1 \in Int /\ n \in Int
    BY <1>2
  <2> QED
    BY <1>3, <2>1, SubSeqProperties
<1>5. Len(SubSeq(s, 1, n)) = n
  BY <1>2, <1>4
<1>6. SubSeq(s, 1, n) = <<>> <=> n = 0
  <2>1. Len(<<>>) = 0
    OBVIOUS
  <2> QED
    BY <1>2, <1>4, <1>5, <2>1, EmptySeq
<1>7. SubSeq(s, 1, n) \in Strings
  BY <1>1, <1>2, <1>4, <1>5, StringsAreSequences
<1>8. ASSUME n > 0
      PROVE  SubSeq(s, 1, n)[n] = s[n] /\ front(SubSeq(s, 1, n)) = SubSeq(s, 1, n - 1)
  <2>1. SubSeq(s, 1, n)[n] = s[1 + n - 1] /\ 1 + n - 1 = n
    BY <1>2, <1>4, <1>8
  <2>2. front(SubSeq(s, 1, n)) = SubSeq(SubSeq(s, 1, n), 1, n - 1)
    BY <1>5 DEF front
  <2>3. ASSUME n = 1 PROVE front(SubSeq(s, 1, n)) = SubSeq(s, 1, n - 1)
    <3>1. n - 1 < 1 /\ 1 \in Int /\ n - 1 \in Int
      BY <1>2, <2>3
    <3>2. SubSeq(s, 1, n - 1) = <<>> /\ SubSeq(SubSeq(s, 1, n), 1, n - 1) = <<>>
      BY <3>1, SubSeqEmpty
    <3> QED
      BY <2>2, <3>2
  <2>4. ASSUME n > 1 PROVE front(SubSeq(s, 1, n)) = SubSeq(s, 1, n - 1)
    <3>1. 1 \in 1 .. Len(s) /\ n \in 1 .. Len(s)
      BY <1>1, <1>2, <2>4
    <3>2. 1 \in 1 .. n - 1 + 1 /\ n - 1 \in 1 .. n - 1 + 1
      BY <1>2, <2>4
    <3>3. SubSeq(SubSeq(s, 1, n), 1, n - 1) = SubSeq(s, 1 + 1 - 1, 1 + (n - 1) - 1)
      BY <1>1, <3>1, <3>2, SubSeqOfSubSeq
    <3>4. 1 + 1 - 1 = 1 /\ 1 + (n - 1) - 1 = n - 1
      BY <1>2
    <3> QED
      BY <2>2, <3>3, <3>4
  <2> QED
    BY <1>2, <1>8, <2>1, <2>3, <2>4
<1> QED
  BY <1>5, <1>6, <1>7, <1>8

LEMMA FrontOfString ==
  ASSUME NEW s \in Strings, s # <<>>
  PROVE  front(s) \in Strings /\ Len(s) \in Nat \ {0} /\ Len(front(s)) = Len(s) - 1
<1>1. s \in Seq(Letter) /\ Len(s) \in Nat \ {0}
  BY StringsAreSequences, EmptySeq
<1>2. Len(s) - 1 \in 0 .. Len(s)
  BY <1>1
<1> QED
  BY <1>1, <1>2, BeginningOfString DEF front

(* d satisfies the definition of Distance on the pairs of strings in W.    *)
Length(w) == Len(w[1]) + Len(w[2])
Shorter(n) == {w \in Strings \X Strings : Length(w) < n}
Solves(d, W) == d = [w \in W |-> FewestEdits(d, w[1], w[2])]

LEMMA LengthType ==
  ASSUME NEW w \in Strings \X Strings
  PROVE  /\ Length(w) \in Nat /\ Length(w) < 2 * MaxLength + 1
         /\ Len(w[1]) \in Nat /\ Len(w[2]) \in Nat
<1>1. w[1] \in Strings /\ w[2] \in Strings
  OBVIOUS
<1>2. Len(w[1]) \in Nat /\ Len(w[2]) \in Nat /\ Len(w[1]) <= MaxLength /\ Len(w[2]) <= MaxLength
  BY <1>1, StringsAreSequences, LenProperties
<1> QED
  BY <1>2, LengthAssumption DEF Length

(* FewestEdits looks only at distances of shorter strings,                 *)
LEMMA LooksAtShorter ==
  ASSUME NEW w \in Strings \X Strings, w[1] # <<>>, w[2] # <<>>
  PROVE  \A v \in {<<front(w[1]), w[2]>>, <<w[1], front(w[2])>>, <<front(w[1]), front(w[2])>>} :
           v \in Strings \X Strings /\ Length(v) < Length(w)
<1>1. w[1] \in Strings /\ w[2] \in Strings
  OBVIOUS
<1>2. /\ front(w[1]) \in Strings /\ Len(w[1]) \in Nat \ {0} /\ Len(front(w[1])) = Len(w[1]) - 1
      /\ front(w[2]) \in Strings /\ Len(w[2]) \in Nat \ {0} /\ Len(front(w[2])) = Len(w[2]) - 1
  BY <1>1, FrontOfString
<1>3. /\ Length(<<front(w[1]), w[2]>>) = Len(w[1]) - 1 + Len(w[2])
      /\ Length(<<w[1], front(w[2])>>) = Len(w[1]) + (Len(w[2]) - 1)
      /\ Length(<<front(w[1]), front(w[2])>>) = Len(w[1]) - 1 + (Len(w[2]) - 1)
      /\ Length(w) = Len(w[1]) + Len(w[2])
  BY <1>2 DEF Length
<1>4. /\ Length(<<front(w[1]), w[2]>>) < Length(w)
      /\ Length(<<w[1], front(w[2])>>) < Length(w)
      /\ Length(<<front(w[1]), front(w[2])>>) < Length(w)
  BY <1>2, <1>3
<1> QED
  BY <1>1, <1>2, <1>4

(* and so distances that agree on these have the same next value.          *)
LEMMA SameEdits ==
  ASSUME NEW d, NEW e, NEW w \in Strings \X Strings,
         \A v \in Strings \X Strings : Length(v) < Length(w) => d[v] = e[v]
  PROVE  FewestEdits(d, w[1], w[2]) = FewestEdits(e, w[1], w[2])
<1>1. CASE w[1] = <<>> \/ w[2] = <<>>
  BY <1>1 DEF FewestEdits
<1>2. CASE w[1] # <<>> /\ w[2] # <<>>
  <2>1. /\ d[<<front(w[1]), w[2]>>] = e[<<front(w[1]), w[2]>>]
        /\ d[<<w[1], front(w[2])>>] = e[<<w[1], front(w[2])>>]
        /\ d[<<front(w[1]), front(w[2])>>] = e[<<front(w[1]), front(w[2])>>]
    BY <1>2, LooksAtShorter
  <2> QED
    BY <1>2, <2>1 DEF FewestEdits
<1> QED
  BY <1>1, <1>2

(* Distances of all strings up to a length give those of the next length,  *)
LEMMA SolvableStep ==
  ASSUME NEW n \in Nat, NEW d, Solves(d, Shorter(n))
  PROVE  \E e : Solves(e, Shorter(n + 1))
<1> DEFINE e == [w \in Shorter(n + 1) |-> FewestEdits(d, w[1], w[2])]
<1>1. \A v \in Shorter(n) : v \in Shorter(n + 1)
  <2> SUFFICES ASSUME NEW v \in Shorter(n) PROVE v \in Shorter(n + 1)
    OBVIOUS
  <2>1. v \in Strings \X Strings /\ Length(v) < n
    BY DEF Shorter
  <2>2. Length(v) \in Nat
    BY <2>1, LengthType
  <2> QED
    BY <2>1, <2>2 DEF Shorter
<1>2. \A v \in Shorter(n) : d[v] = FewestEdits(d, v[1], v[2])
  BY DEF Solves
<1>3. \A v \in Shorter(n) : e[v] = d[v]
  BY <1>1, <1>2
<1>4. ASSUME NEW w \in Shorter(n + 1)
      PROVE  FewestEdits(d, w[1], w[2]) = FewestEdits(e, w[1], w[2])
  <2>1. w \in Strings \X Strings /\ Length(w) < n + 1
    BY DEF Shorter
  <2>2. Length(w) \in Nat
    BY <2>1, LengthType
  <2>3. ASSUME NEW v \in Strings \X Strings, Length(v) < Length(w)
        PROVE  d[v] = e[v]
    <3>1. Length(v) \in Nat
      BY LengthType
    <3>2. v \in Shorter(n)
      BY <2>1, <2>2, <2>3, <3>1 DEF Shorter
    <3> QED
      BY <1>3, <3>2
  <2> HIDE DEF e
  <2> QED
    BY <2>1, <2>3, SameEdits
<1>5. e = [w \in Shorter(n + 1) |-> FewestEdits(e, w[1], w[2])]
  <2> DEFINE g == [w \in Shorter(n + 1) |-> FewestEdits(e, w[1], w[2])]
  <2>1. e = g
    BY <1>4
  <2> QED
    BY <2>1
<1> QED
  BY <1>5 DEF Solves

(* so there are distances of all lengths: no length is the least one       *)
(* without.                                                                *)
LEMMA Solvable ==
  ASSUME NEW n \in Nat
  PROVE  \E d : Solves(d, Shorter(n))
<1> DEFINE Bad == {m \in Nat : ~\E d : Solves(d, Shorter(m))}
<1> SUFFICES ASSUME Bad # {} PROVE FALSE
  OBVIOUS
<1>1. Min(Bad) \in Bad /\ \A m \in Bad : Min(Bad) <= m
  <2>1. Bad \subseteq Nat
    OBVIOUS
  <2> HIDE DEF Bad
  <2> QED
    BY <2>1, MinExists
<1>2. PICK m \in Bad : \A k \in Bad : m <= k
  BY <1>1
<1>3. m # 0
  <2>1. Shorter(0) = {}
    BY LengthType DEF Shorter
  <2>2. [w \in {} |-> 0] = [w \in {} |-> FewestEdits([v \in {} |-> 0], w[1], w[2])]
    OBVIOUS
  <2>3. Solves([v \in {} |-> 0], Shorter(0))
    BY <2>1, <2>2 DEF Solves
  <2> QED
    BY <2>3
<1>4. m - 1 \in Nat /\ m - 1 \notin Bad /\ m - 1 + 1 = m
  BY <1>2, <1>3
<1>5. PICK d : Solves(d, Shorter(m - 1))
  BY <1>4
<1>6. \E e : Solves(e, Shorter(m))
  BY <1>4, <1>5, SolvableStep
<1> QED
  BY <1>2, <1>6

(* Distance is therefore what its definition says.                         *)
LEMMA DistanceEquation ==
  ASSUME NEW s \in Strings, NEW t \in Strings
  PROVE  Distance[<<s, t>>] = FewestEdits(Distance, s, t)
<1>1. 2 * MaxLength + 1 \in Nat
  BY LengthAssumption
<1>2. Shorter(2 * MaxLength + 1) = Strings \X Strings
  BY LengthType DEF Shorter
<1>3. PICK d : Solves(d, Strings \X Strings)
  BY <1>1, <1>2, Solvable
<1>4. Distance = [w \in Strings \X Strings |-> FewestEdits(Distance, w[1], w[2])]
  BY <1>3 DEF Solves, Distance
<1>5. <<s, t>> \in Strings \X Strings /\ <<s, t>>[1] = s /\ <<s, t>>[2] = t
  OBVIOUS
<1> HIDE DEF Distance
<1> QED
  BY <1>4, <1>5

LEMMA DistanceIsNat ==
  ASSUME NEW w \in Strings \X Strings
  PROVE  Distance[w] \in Nat
<1> DEFINE Bad == {v \in Strings \X Strings : Distance[v] \notin Nat}
           Lengths == {Length(v) : v \in Bad}
<1> SUFFICES ASSUME Bad # {} PROVE FALSE
  OBVIOUS
<1>1. Lengths \subseteq Nat /\ Lengths # {}
  BY LengthType
<1>2. PICK m \in Lengths : \A k \in Lengths : m <= k
  <2> HIDE DEF Lengths
  <2> QED
    BY <1>1, MinExists
<1>3. PICK v \in Bad : \A u \in Bad : Length(v) <= Length(u)
  BY <1>2
<1>4. v[1] \in Strings /\ v[2] \in Strings /\ v = <<v[1], v[2]>>
  OBVIOUS
<1>5. Distance[v] = FewestEdits(Distance, v[1], v[2])
  BY <1>4, DistanceEquation
<1>6. Len(v[1]) \in Nat /\ Len(v[2]) \in Nat
  BY LengthType
<1>7. v[1] # <<>> /\ v[2] # <<>>
  BY <1>5, <1>6 DEF FewestEdits
<1>8. /\ Distance[<<front(v[1]), v[2]>>] \in Nat
      /\ Distance[<<v[1], front(v[2])>>] \in Nat
      /\ Distance[<<front(v[1]), front(v[2])>>] \in Nat
  <2>1. ASSUME NEW u \in Strings \X Strings, Length(u) < Length(v) PROVE Distance[u] \in Nat
    <3>1. Length(u) \in Nat /\ Length(v) \in Nat
      BY LengthType
    <3> QED
      BY <1>3, <2>1, <3>1
  <2> QED
    BY <1>7, <2>1, LooksAtShorter
<1> DEFINE S == {Distance[<<front(v[1]), v[2]>>] + 1, Distance[<<v[1], front(v[2])>>] + 1,
                 Distance[<<front(v[1]), front(v[2])>>]
                   + IF v[1][Len(v[1])] = v[2][Len(v[2])] THEN 0 ELSE 1}
<1>9. S \subseteq Nat /\ S # {}
  BY <1>8
<1>10. Distance[v] = Min(S)
  BY <1>5, <1>7 DEF FewestEdits
<1>11. Min(S) \in S
  <2> HIDE DEF S
  <2> QED
    BY <1>9, MinExists
<1>12. Distance[v] \in Nat
  <2> HIDE DEF S
  <2> QED
    BY <1>9, <1>10, <1>11
<1> QED
  BY <1>12

(* The minimum of the code, which has no branch for a < b and c <= a.      *)
LEMMA MinimumOfThree ==
  ASSUME NEW a \in Nat, NEW b \in Nat, NEW c \in Nat
  PROVE  minimum(a, b, c) = Min({b, a, c})
<1>1. Min({b, a, c}) \in {b, a, c} /\ \A v \in {b, a, c} : Min({b, a, c}) <= v
  BY MinExists
<1> QED
  BY <1>1 DEF minimum

-----------------------------------------------------------------------------
(* The column has the distances of all beginnings, and the strings stay.   *)
DistanceInv ==
  /\ str1 \in Strings /\ str2 \in Strings
  /\ x \in 0 .. Len(str2)
  /\ column = [y \in 0 .. Len(str1) |-> Distance[<<SubSeq(str1, 1, y), SubSeq(str2, 1, x)>>]]

LEMMA DistanceStart == DistanceInit => DistanceInv
<1> SUFFICES ASSUME DistanceInit PROVE DistanceInv
  OBVIOUS
<1>1. str1 \in Strings /\ str2 \in Strings /\ x = 0 /\ column = [y \in 0 .. Len(str1) |-> y]
  BY DEF DistanceInit
<1>2. Len(str1) \in Nat /\ Len(str2) \in Nat
  BY <1>1, StringsAreSequences, LenProperties
<1>3. ASSUME NEW y \in 0 .. Len(str1)
      PROVE  Distance[<<SubSeq(str1, 1, y), SubSeq(str2, 1, x)>>] = y
  <2>1. SubSeq(str1, 1, y) \in Strings /\ Len(SubSeq(str1, 1, y)) = y
    BY <1>1, BeginningOfString
  <2>2. 0 \in 0 .. Len(str2)
    BY <1>2
  <2>3. SubSeq(str2, 1, 0) \in Strings /\ Len(SubSeq(str2, 1, 0)) = 0 /\ SubSeq(str2, 1, 0) = <<>>
    BY <1>1, <2>2, BeginningOfString
  <2>4. Distance[<<SubSeq(str1, 1, y), SubSeq(str2, 1, 0)>>] = y + 0
    BY <2>1, <2>3, DistanceEquation DEF FewestEdits
  <2> QED
    BY <1>1, <1>2, <2>4
<1>4. column = [y \in 0 .. Len(str1) |-> Distance[<<SubSeq(str1, 1, y), SubSeq(str2, 1, x)>>]]
  <2> HIDE DEF Distance
  <2> QED
    BY <1>1, <1>3
<1>5. x \in 0 .. Len(str2)
  BY <1>1, <1>2
<1> QED
  BY <1>1, <1>4, <1>5 DEF DistanceInv

(* The distances to one character more satisfy the equations of the loop.  *)
LEMMA LoopEquation ==
  ASSUME DistanceInv, x < Len(str2), NEW y \in 0 .. Len(str1)
  PROVE  LET d(i) == Distance[<<SubSeq(str1, 1, i), SubSeq(str2, 1, x + 1)>>]
         IN  d(y) = IF y = 0 THEN x + 1
                    ELSE minimum(column[y] + 1, d(y - 1) + 1, column[y - 1] + incr(y))
<1> DEFINE s == SubSeq(str1, 1, y)
           t == SubSeq(str2, 1, x + 1)
           d(i) == Distance[<<SubSeq(str1, 1, i), t>>]
<1>1. str1 \in Strings /\ str2 \in Strings /\ x \in 0 .. Len(str2)
  BY DEF DistanceInv
<1>2. Len(str1) \in Nat /\ Len(str2) \in Nat /\ x \in Nat /\ y \in Nat /\ x + 1 \in 0 .. Len(str2)
  <2>1. Len(str1) \in Nat /\ Len(str2) \in Nat
    BY <1>1, StringsAreSequences, LenProperties
  <2> QED
    BY <1>1, <2>1
<1>3. /\ s \in Strings /\ Len(s) = y /\ (s = <<>> <=> y = 0)
      /\ y > 0 => s[y] = str1[y] /\ front(s) = SubSeq(str1, 1, y - 1)
  BY <1>1, BeginningOfString
<1>4. /\ t \in Strings /\ Len(t) = x + 1 /\ t # <<>>
      /\ t[x + 1] = str2[x + 1] /\ front(t) = SubSeq(str2, 1, x)
  <2>1. x + 1 > 0 /\ x + 1 # 0 /\ x + 1 - 1 = x
    BY <1>2
  <2>2. PICK k \in 0 .. Len(str2) : k = x + 1
    BY <1>2
  <2>3. /\ SubSeq(str2, 1, k) \in Strings /\ Len(SubSeq(str2, 1, k)) = k
        /\ SubSeq(str2, 1, k) = <<>> <=> k = 0
        /\ k > 0 => /\ SubSeq(str2, 1, k)[k] = str2[k]
                    /\ front(SubSeq(str2, 1, k)) = SubSeq(str2, 1, k - 1)
    BY <1>1, BeginningOfString
  <2>4. t = SubSeq(str2, 1, k) /\ k - 1 = x /\ k > 0
    BY <1>2, <2>2
  <2> HIDE DEF t
  <2> QED
    BY <2>2, <2>3, <2>4
<1>5. d(y) = FewestEdits(Distance, s, t)
  BY <1>3, <1>4, DistanceEquation
<1> HIDE DEF s, t
<1>6. CASE y = 0
  <2>1. d(y) = 0 + (x + 1)
    BY <1>3, <1>4, <1>5, <1>6 DEF FewestEdits
  <2> QED
    BY <1>2, <1>6, <2>1 DEF t
<1>7. CASE y # 0
  <2>1. y - 1 \in 0 .. Len(str1) /\ y > 0
    BY <1>2, <1>7
  <2>2. /\ column[y] = Distance[<<s, front(t)>>]
        /\ column[y - 1] = Distance[<<front(s), front(t)>>]
    BY <1>3, <1>4, <2>1 DEF DistanceInv, s
  <2>3. d(y - 1) = Distance[<<front(s), t>>]
    BY <1>3, <2>1
  <2>4. (IF s[Len(s)] = t[Len(t)] THEN 0 ELSE 1) = incr(y)
    BY <1>3, <1>4, <2>1 DEF incr
  <2>5. s # <<>> /\ front(s) \in Strings /\ front(t) \in Strings
    BY <1>3, <1>4, <1>7, FrontOfString
  <2>6. d(y) = Min({d(y - 1) + 1, column[y] + 1, column[y - 1] + incr(y)})
    BY <1>4, <1>5, <2>2, <2>3, <2>4, <2>5 DEF FewestEdits
  <2>7. column[y] \in Nat /\ column[y - 1] \in Nat /\ d(y - 1) \in Nat
    BY <1>3, <1>4, <2>2, <2>3, <2>5, DistanceIsNat
  <2>8. column[y] + 1 \in Nat /\ d(y - 1) + 1 \in Nat /\ column[y - 1] + incr(y) \in Nat
    BY <2>7 DEF incr
  <2>9. minimum(column[y] + 1, d(y - 1) + 1, column[y - 1] + incr(y))
          = Min({d(y - 1) + 1, column[y] + 1, column[y - 1] + incr(y)})
    BY <2>8, MinimumOfThree
  <2> QED
    BY <1>7, <2>6, <2>9 DEF t
<1> QED
  BY <1>6, <1>7

(* Nothing else satisfies them: the first element that differed would be   *)
(* computed from elements that do not.                                     *)
LEMMA LoopComputes ==
  ASSUME DistanceInv, x < Len(str2), NEW y \in 0 .. Len(str1)
  PROVE  NextColumn[y] = Distance[<<SubSeq(str1, 1, y), SubSeq(str2, 1, x + 1)>>]
<1> DEFINE g == [i \in 0 .. Len(str1) |-> Distance[<<SubSeq(str1, 1, i), SubSeq(str2, 1, x + 1)>>]]
           Next(f, i) == IF i = 0 THEN x + 1
                         ELSE minimum(column[i] + 1, f[i - 1] + 1, column[i - 1] + incr(i))
<1>1. DOMAIN column = 0 .. Len(str1)
  BY DEF DistanceInv
<1>2. Len(str1) \in Nat
  BY StringsAreSequences, LenProperties DEF DistanceInv
<1>3. \A i \in 0 .. Len(str1) : i \in Nat /\ (i # 0 => i - 1 \in 0 .. Len(str1))
  BY <1>2
<1>4. ASSUME NEW i \in 0 .. Len(str1) PROVE g[i] = Next(g, i)
  <2>1. CASE i = 0
    BY <2>1, LoopEquation
  <2>2. CASE i # 0
    <3>1. i - 1 \in 0 .. Len(str1)
      BY <1>3, <2>2
    <3>2. g[i - 1] = Distance[<<SubSeq(str1, 1, i - 1), SubSeq(str2, 1, x + 1)>>]
      BY <3>1
    <3>3. g[i] = minimum(column[i] + 1, Distance[<<SubSeq(str1, 1, i - 1), SubSeq(str2, 1, x + 1)>>] + 1,
                         column[i - 1] + incr(i))
      BY <2>2, LoopEquation
    <3> QED
      BY <2>2, <3>2, <3>3
  <2> QED
    BY <2>1, <2>2
<1>5. g = [i \in DOMAIN column |-> Next(g, i)]
  <2> DEFINE h == [i \in DOMAIN column |-> Next(g, i)]
  <2> HIDE DEF Next
  <2>1. g = h
    BY <1>1, <1>4
  <2> QED
    BY <2>1
<1>6. NextColumn = [i \in DOMAIN column |-> Next(NextColumn, i)]
  <2> HIDE DEF g
  <2> QED
    BY <1>5 DEF NextColumn
<1>7. \A i \in 0 .. Len(str1) : NextColumn[i] = Next(NextColumn, i)
  <2> HIDE DEF NextColumn, Next
  <2> QED
    BY <1>1, <1>6
<1> DEFINE Bad == {i \in 0 .. Len(str1) : NextColumn[i] # g[i]}
<1> HIDE DEF g, NextColumn
<1>8. Bad = {}
  <2> SUFFICES ASSUME Bad # {} PROVE FALSE
    OBVIOUS
  <2>1. Bad \subseteq Nat
    BY <1>3
  <2>2. PICK i \in Bad : \A j \in Bad : i <= j
    <3> HIDE DEF Bad
    <3> QED
      BY <2>1, MinExists
  <2>3. i # 0
    BY <1>4, <1>7
  <2>4. i - 1 \in 0 .. Len(str1) /\ i - 1 \notin Bad
    BY <1>3, <2>2, <2>3
  <2>5. NextColumn[i - 1] = g[i - 1]
    BY <2>4
  <2> QED
    BY <1>4, <1>7, <2>3, <2>5
<1> QED
  BY <1>8 DEF g

LEMMA DistanceKept == DistanceInv /\ [DistanceStep]_distanceVars => DistanceInv'
<1> SUFFICES ASSUME DistanceInv, [DistanceStep]_distanceVars PROVE DistanceInv'
  OBVIOUS
<1>1. CASE DistanceStep
  <2>1. /\ x < Len(str2) /\ x' = x + 1 /\ str1' = str1 /\ str2' = str2
        /\ column' = [y \in DOMAIN column |-> NextColumn[y]]
    BY <1>1 DEF DistanceStep
  <2>2. /\ str1 \in Strings /\ str2 \in Strings /\ x \in 0 .. Len(str2)
        /\ DOMAIN column = 0 .. Len(str1)
    BY DEF DistanceInv
  <2>3. Len(str2) \in Nat
    BY <2>2, StringsAreSequences, LenProperties
  <2>4. x + 1 \in 0 .. Len(str2)
    BY <2>1, <2>2, <2>3
  <2>5. \A y \in 0 .. Len(str1) :
          NextColumn[y] = Distance[<<SubSeq(str1, 1, y), SubSeq(str2, 1, x + 1)>>]
    BY <2>1, LoopComputes
  <2>6. column' = [y \in 0 .. Len(str1) |-> Distance[<<SubSeq(str1, 1, y), SubSeq(str2, 1, x + 1)>>]]
    BY <2>1, <2>2, <2>5
  <2>7. Strings' = Strings /\ Distance' = Distance
    BY DEF Strings, Distance, FewestEdits, front
  <2> QED
    BY <2>1, <2>2, <2>4, <2>6, <2>7 DEF DistanceInv
<1>2. CASE UNCHANGED distanceVars
  BY <1>2 DEF distanceVars, DistanceInv
<1> QED
  BY <1>1, <1>2

(* The loop of LevenshteinDistance computes the distance of any two        *)
(* strings: after each turn, the column has the distances of all beginnings*)
(* of the first string to the part of the second that was read.            *)
THEOREM ColumnHasDistances == DistanceSpec => []ColumnIsDistance
<1>1. DistanceInv => ColumnIsDistance
  BY DEF DistanceInv, ColumnIsDistance
<1> QED
  BY <1>1, DistanceStart, DistanceKept, PTL DEF DistanceSpec

================================================================================
