------------------------------ MODULE Pruning ------------------------------
(***************************************************************************)
(* Which versions of a file pruneOldFilesJob leaves: whatToDelete gives    *)
(* every version the slot of its age in a table of ages, keeps the oldest  *)
(* version of each slot, the newest and the oldest of all and what is      *)
(* younger than a day (pruneOldFiles.go).  The job runs again and again    *)
(* while versions move from slot to slot, so what is left of the history   *)
(* is the outcome of many runs.                                            *)
(*                                                                         *)
(* One file.  A version is its time of modification, in ticks of a clock;  *)
(* versions differ in it.  What the deletion does to the tables and the    *)
(* search cache is PruneDelete of Inventory.                               *)
(***************************************************************************)
EXTENDS Naturals, FiniteSets, FiniteSetsExt

CONSTANTS Day,                          \* ticks of a day
          Days, Weeks, Months,          \* entries of the table (30, 52, 120)
          DaysPerWeek, DaysPerMonth,    \* 7 and 30 in the code
          LastTick                      \* bound: the clock stops

\* The table begins with enough days for a week, and enough weeks for a month.
ASSUME PruningAssumption ==
  /\ Day \in Nat \ {0} /\ Days \in Nat /\ Weeks \in Nat /\ Months \in Nat
  /\ DaysPerWeek \in Nat \ {0} /\ DaysPerWeek <= Days
  /\ DaysPerMonth \in Nat \ {0} /\ DaysPerMonth <= Days + Weeks * DaysPerWeek

VARIABLES now,          \* the clock
          versions,     \* the versions in the database
          lost,         \* history: of the versions that were deleted between
                        \* two that are left, the youngest
          ran,          \* the job has run since the clock moved
          panicked      \* the job has indexed past the table

pruneVars == <<now, versions, lost, ran, panicked>>

(* One slot per day, then per week, then per month.                        *)
generateTimeTable(s) ==
  Day * (Min({s, Days})
         + (IF s > Days THEN Min({s - Days, Weeks}) * DaysPerWeek ELSE 0)
         + (IF s > Days + Weeks THEN (s - Days - Weeks) * DaysPerMonth ELSE 0))

Slots == 1..(Days + Weeks + Months)
Age(v) == now - v

(* The first entry that is not below the age: there is none for a version  *)
(* that is older than the last entry.                                      *)
Fits(v) == {s \in Slots : Age(v) <= generateTimeTable(s)}
SlotOf(v) == Min(Fits(v))

InSlot(s) == {v \in versions : SlotOf(v) = s}

OccupantNewest(s) == Max(InSlot(s))     \* Slip: a slot keeps its newest
Occupant(s) == Min(InSlot(s))

Keep ==
  {Occupant(s) : s \in {SlotOf(v) : v \in versions}}
    \cup {v \in versions : v \in {Min(versions), Max(versions)} \/ Age(v) < Day}

PruneInit == now = 0 /\ versions = {} /\ lost = {} /\ ran = FALSE /\ panicked = FALSE

(* A changed file arrives; its time is that of its collection.             *)
UploadVersion ==
  /\ now \notin versions
  /\ versions' = versions \cup {now}
  /\ UNCHANGED <<now, lost, ran, panicked>>

YoungestBetween(gone, kept) ==
  {w \in gone : \A x \in gone : x > w => \E v \in kept : w < v /\ v < x}

Prune ==
  /\ \A v \in versions : Fits(v) # {}
  /\ versions' = Keep /\ ran' = TRUE
  /\ lost' = YoungestBetween(lost \cup (versions \ Keep), Keep)
  /\ UNCHANGED <<now, panicked>>

(* slots[slot] is out of range: the job panics before it deletes anything  *)
(* of this file, or of the files and machines that come after it.          *)
PrunePanics ==
  /\ \E v \in versions : Fits(v) = {}
  /\ panicked' = TRUE /\ ran' = TRUE
  /\ UNCHANGED <<now, versions, lost>>

(* The job runs at least once in each tick, before or after an upload.     *)
Tick ==
  /\ now < LastTick /\ ran
  /\ ran' = FALSE
  /\ now' = now + 1
  /\ UNCHANGED <<versions, lost, panicked>>

PruneNext == UploadVersion \/ Prune \/ PrunePanics \/ Tick
PruneSpec == PruneInit /\ [][PruneNext]_pruneVars

-----------------------------------------------------------------------------
(* A slot of the kind of s, and one of each finer kind.                    *)
Reach(s) ==
  Day * (1 + (IF s > Days THEN DaysPerWeek ELSE 0)
           + (IF s > Days + Weeks THEN DaysPerMonth ELSE 0))

(* The history is thinned, never torn: of every version that was deleted   *)
(* an older one is left, and it is not much older: a day while it is in a  *)
(* daily slot, a day and a week in a weekly one, and a month more in a     *)
(* monthly one, although the version that a deletion had left behind may   *)
(* be deleted itself in favour of an older one when it gets to the next    *)
(* slots (whatToDelete keeps the oldest of each slot).                     *)
ThinnedNotTorn ==
  \A w \in lost :
    \E u \in versions : u < w /\ (Fits(u) # {} => w - u <= Reach(SlotOf(u)))

=============================================================================
