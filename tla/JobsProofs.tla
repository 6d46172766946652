------------------------------- MODULE JobsProofs ------------------------------
(***************************************************************************)
(* The scheduler of main.go, for any jobs and any number of slots: a job   *)
(* never runs twice at once, the slots bound the goroutines, a shutdown    *)
(* that fills every slot has waited for all of them, and what the loop,    *)
(* the goroutines and the requests do is what PeriodicJobs allows.  The    *)
(* promises under fairness stay with the model checker.                    *)
(***************************************************************************)
EXTENDS Jobs, FiniteSetTheorems, TLAPS

(* The loop keeps its copy from CopyTimes to the end of the round.         *)
Loop == [pc : {"look", "drain", "stopped"}, todo : SUBSET Job, left : Int]
        \cup [pc : {"look", "flags", "slot", "start"}, todo : SUBSET Job, left : Int,
              job : Job, due : BOOLEAN]

JobTypes ==
    /\ elem \in [Job -> Element]
    /\ loop \in Loop
    /\ routine \in [Job -> [Stage -> Nat]]
    /\ quit \in BOOLEAN /\ asked \in [Job -> BOOLEAN]
    /\ hung \subseteq Job

(* running says whether a goroutine holds the right to run the job: from   *)
(* the start of the goroutine until ClearRunning there is exactly one.     *)
RunningIsActive == \A j \in Job : Active(j) = IF elem[j].running THEN 1 ELSE 0

(* While the loop waits for a slot with a job in its hand, nobody else     *)
(* starts that job.                                                        *)
ToBeStarted == loop.pc \in {"slot", "start"} => ~elem[loop.job].running

JobInv == JobTypes /\ RunningIsActive /\ ToBeStarted

-----------------------------------------------------------------------------
LEMMA JobStart == Init => JobInv
<1> SUFFICES ASSUME Init
             PROVE  JobInv
  OBVIOUS
<1>1. loop \in Loop
  BY SlotsAssumption DEF Init, Loop
<1>2. elem \in [Job -> Element] /\ routine \in [Job -> [Stage -> Nat]]
  BY DEF Init, Element
<1>3. RunningIsActive
  BY DEF Init, RunningIsActive, Active, Stage
<1> QED
  BY <1>1, <1>2, <1>3 DEF Init, JobInv, JobTypes, ToBeStarted

(* The steps of the loop that touch neither the jobs nor the goroutines    *)
LEMMA LoopStep ==
  ASSUME JobInv, UNCHANGED <<elem, routine, asked, hung>>, quit' \in BOOLEAN, loop' \in Loop,
         loop'.pc \in {"slot", "start"} => ~elem[loop'.job].running
  PROVE  JobInv'
BY DEF JobInv, JobTypes, RunningIsActive, ToBeStarted, Active

(* A goroutine of j moves and changes the element of j only, or nobody     *)
(* does: what counts is that running stays what Active says.               *)
LEMMA ElementStep ==
  ASSUME JobInv, NEW j \in Job, NEW e \in Element, NEW r \in [Stage -> Nat],
         elem' = [elem EXCEPT ![j] = e], routine' = [routine EXCEPT ![j] = r],
         r["begun"] + r["run"] + r["ending"] = (IF e.running THEN 1 ELSE 0),
         e.running => elem[j].running,
         loop' = loop, quit' = quit, asked' \in [Job -> BOOLEAN], hung' = hung
  PROVE  JobInv'
<1>1. JobTypes'
  BY DEF JobInv, JobTypes
<1>2. RunningIsActive'
  BY DEF JobInv, JobTypes, RunningIsActive, Active, Stage
<1>3. ToBeStarted'
  BY DEF JobInv, JobTypes, ToBeStarted, Loop
<1> QED
  BY <1>1, <1>2, <1>3 DEF JobInv

(* The two steps of the loop that decide: CopyFlags takes a job that is    *)
(* not running, Start makes it running with the first goroutine for it.    *)
LEMMA StartStep ==
  ASSUME JobInv, Start
  PROVE  JobInv'
<1> DEFINE j == loop.job
           e == [elem[j] EXCEPT !.running = TRUE, !.due = FALSE, !.trigger = FALSE]
<1>1. /\ loop.pc = "start" /\ elem' = [elem EXCEPT ![j] = e]
      /\ routine' = [routine EXCEPT ![j]["begun"] = @ + 1]
      /\ loop' = [loop EXCEPT !.pc = "look"]
      /\ UNCHANGED <<quit, asked, hung>>
  BY DEF Start, Go
<1>2. j \in Job /\ ~elem[j].running /\ loop' \in Loop /\ loop'.pc = "look"
  BY <1>1 DEF JobInv, JobTypes, ToBeStarted, Loop
<1>3. e \in Element /\ e.running
  BY <1>2 DEF JobInv, JobTypes, Element
<1>4. JobTypes'
  <2>1. elem' \in [Job -> Element]
    BY <1>1, <1>2, <1>3 DEF JobInv, JobTypes
  <2>2. routine' \in [Job -> [Stage -> Nat]]
    BY <1>1, <1>2 DEF JobInv, JobTypes, Stage
  <2> QED
    BY <1>1, <1>2, <2>1, <2>2 DEF JobInv, JobTypes
<1>5. RunningIsActive'
  <2> SUFFICES ASSUME NEW i \in Job
               PROVE  Active(i)' = IF elem'[i].running THEN 1 ELSE 0
    BY DEF RunningIsActive
  <2>1. CASE i = j
    <3>1. Active(i) = 0
      BY <1>2, <2>1 DEF JobInv, RunningIsActive
    <3>2. Active(i)' = Active(i) + 1
      BY <1>1, <1>2, <2>1 DEF JobInv, JobTypes, Active, Stage
    <3>3. elem'[i].running
      BY <1>1, <1>2, <1>3, <2>1 DEF JobInv, JobTypes
    <3> HIDE DEF j, e
    <3> QED
      BY <3>1, <3>2, <3>3
  <2>2. CASE i # j
    BY <1>1, <1>2, <2>2 DEF JobInv, JobTypes, RunningIsActive, Active
  <2> QED
    BY <2>1, <2>2
<1>6. ToBeStarted'
  BY <1>2 DEF ToBeStarted
<1> QED
  BY <1>4, <1>5, <1>6 DEF JobInv

LEMMA MainStep ==
  ASSUME JobInv, Main
  PROVE  JobInv'
<1>1. ASSUME NEW j \in Job, CopyTimes(j)
      PROVE  JobInv'
  <2>1. loop' \in Loop /\ loop'.pc = "flags"
    BY <1>1, SlotsAssumption DEF CopyTimes, JobInv, JobTypes, Loop, Element
  <2> QED
    BY <1>1, <2>1, LoopStep DEF CopyTimes, JobInv, JobTypes
<1>2. CASE CopyFlags
  <2>1. loop.job \in Job /\ loop' \in Loop /\ loop'.job = loop.job
    BY <1>2 DEF CopyFlags, JobInv, JobTypes, Loop
  <2>2. loop'.pc \in {"slot", "start"} => ~elem[loop.job].running
    BY <1>2 DEF CopyFlags, JobInv, JobTypes, Loop
  <2> QED
    BY <1>2, <2>1, <2>2, LoopStep DEF CopyFlags, JobInv, JobTypes
<1>3. CASE TakeSlot
  <2>1. loop' \in Loop /\ loop'.job = loop.job
    BY <1>3 DEF TakeSlot, Acquire, JobInv, JobTypes, Loop
  <2>2. ~elem[loop.job].running
    BY <1>3 DEF TakeSlot, Acquire, JobInv, ToBeStarted
  <2> QED
    BY <1>3, <2>1, <2>2, LoopStep DEF TakeSlot, Acquire, JobInv, JobTypes
<1>4. CASE Start
  BY <1>4, StartStep
<1>5. CASE NextRound
  <2>1. loop' \in Loop /\ loop'.pc \in {"look", "drain"}
    BY <1>5, SlotsAssumption DEF NextRound, JobInv, JobTypes, Loop
  <2> QED
    BY <1>5, <2>1, LoopStep DEF NextRound, JobInv, JobTypes
<1>6. CASE DrainSlot
  <2>1. loop' \in Loop /\ loop'.pc = "drain"
    BY <1>6 DEF DrainSlot, Drain, JobInv, JobTypes, Loop
  <2> QED
    BY <1>6, <2>1, LoopStep DEF DrainSlot, Drain, JobInv, JobTypes
<1>7. CASE Stop
  <2>1. loop' \in Loop /\ loop'.pc = "stopped"
    BY <1>7 DEF Stop, JobInv, JobTypes, Loop
  <2> QED
    BY <1>7, <2>1, LoopStep DEF Stop, JobInv, JobTypes
<1> QED
  BY <1>1, <1>2, <1>3, <1>4, <1>5, <1>6, <1>7 DEF Main

(* The goroutine of a job                                                  *)
LEMMA RoutineStep ==
  ASSUME JobInv, NEW j \in Job, Routine(j)
  PROVE  JobInv'
<1> DEFINE f == routine[j]
           e == elem[j]
<1>0. /\ f \in [Stage -> Nat] /\ e \in Element
      /\ f["begun"] + f["run"] + f["ending"] = IF e.running THEN 1 ELSE 0
      /\ asked \in [Job -> BOOLEAN]
  BY DEF JobInv, JobTypes, RunningIsActive, Active
<1>1. CASE RunBegins(j)
  <2> DEFINE r == [f EXCEPT !["begun"] = @ - 1, !["run"] = @ + 1]
  <2>1. /\ routine' = [routine EXCEPT ![j] = r] /\ f["begun"] > 0
        /\ elem' = [elem EXCEPT ![j] = e]
        /\ asked' \in [Job -> BOOLEAN]
        /\ UNCHANGED <<loop, quit, hung>>
    BY <1>1 DEF RunBegins, Move, JobInv, JobTypes, Stage
  <2>2. r \in [Stage -> Nat] /\ r["begun"] + r["run"] + r["ending"] = IF e.running THEN 1 ELSE 0
    BY <1>0, <2>1 DEF Stage
  <2> HIDE DEF r
  <2> QED
    BY <1>0, <2>1, <2>2, ElementStep
<1>2. CASE RunEnds(j)
  <2> DEFINE r == [f EXCEPT !["run"] = @ - 1, !["ending"] = @ + 1]
  <2>1. PICK p \in BOOLEAN :
          elem' = [elem EXCEPT ![j] = [@ EXCEPT !.panicked = p, !.due = FALSE,
                                                !.trigger = elem[j].trigger]]
    BY <1>2 DEF RunEnds, Ends
  <2> DEFINE d == [e EXCEPT !.panicked = p, !.due = FALSE, !.trigger = elem[j].trigger]
  <2>2. /\ routine' = [routine EXCEPT ![j] = r] /\ f["run"] > 0
        /\ UNCHANGED <<loop, quit, asked, hung>>
    BY <1>2 DEF RunEnds, Ends, Move, JobInv, JobTypes, Stage
  <2>3. d \in Element /\ d.running = e.running /\ elem' = [elem EXCEPT ![j] = d]
    BY <1>0, <2>1 DEF Element, JobInv, JobTypes
  <2>4. r \in [Stage -> Nat] /\ r["begun"] + r["run"] + r["ending"] = IF e.running THEN 1 ELSE 0
    BY <1>0, <2>2 DEF Stage
  <2> HIDE DEF r, d
  <2> QED
    BY <1>0, <2>2, <2>3, <2>4, ElementStep
<1>3. CASE ClearRunning(j)
  <2> DEFINE r == [f EXCEPT !["ending"] = @ - 1, !["leaving"] = @ + 1]
             d == [e EXCEPT !.running = FALSE]
  <2>1. /\ routine' = [routine EXCEPT ![j] = r] /\ f["ending"] > 0
        /\ elem' = [elem EXCEPT ![j] = d]
        /\ UNCHANGED <<loop, quit, asked, hung>>
    BY <1>3 DEF ClearRunning, Leaves, Move, JobInv, JobTypes, Stage, Element
  <2>2. d \in Element /\ ~d.running
    BY <1>0 DEF Element
  <2>3. r \in [Stage -> Nat] /\ r["begun"] + r["run"] + r["ending"] = 0
    BY <1>0, <2>1 DEF Stage
  <2> HIDE DEF r, d
  <2> QED
    BY <1>0, <2>1, <2>2, <2>3, ElementStep
<1>4. CASE Release(j)
  <2> DEFINE r == [f EXCEPT !["leaving"] = @ - 1]
  <2>1. /\ routine' = [routine EXCEPT ![j] = r] /\ f["leaving"] > 0
        /\ elem' = [elem EXCEPT ![j] = e]
        /\ UNCHANGED <<loop, quit, asked, hung>>
    BY <1>4 DEF Release, GivesBack, JobInv, JobTypes, Stage
  <2>2. r \in [Stage -> Nat] /\ r["begun"] + r["run"] + r["ending"] = IF e.running THEN 1 ELSE 0
    BY <1>0, <2>1 DEF Stage
  <2> HIDE DEF r
  <2> QED
    BY <1>0, <2>1, <2>2, ElementStep
<1> QED
  BY <1>1, <1>2, <1>3, <1>4 DEF Routine

(* The rest of the world may set the trigger and make a job due.           *)
LEMMA WorldStep ==
  ASSUME JobInv, NEW j \in Job, triggerJob(j) \/ Elapse(j)
  PROVE  JobInv'
<1>1. PICK e \in Element : e.running = elem[j].running /\ elem' = [elem EXCEPT ![j] = e]
  <2>1. [elem[j] EXCEPT !.trigger = TRUE] \in Element
    BY DEF JobInv, JobTypes, Element
  <2>2. [elem[j] EXCEPT !.due = TRUE] \in Element
    BY DEF JobInv, JobTypes, Element
  <2>3. /\ [elem[j] EXCEPT !.trigger = TRUE].running = elem[j].running
        /\ [elem[j] EXCEPT !.due = TRUE].running = elem[j].running
    BY DEF JobInv, JobTypes, Element
  <2>4. \/ elem' = [elem EXCEPT ![j] = [elem[j] EXCEPT !.trigger = TRUE]]
        \/ elem' = [elem EXCEPT ![j] = [elem[j] EXCEPT !.due = TRUE]]
    BY DEF triggerJob, Elapse, JobInv, JobTypes
  <2> QED
    BY <2>1, <2>2, <2>3, <2>4
<1>2. routine' = [routine EXCEPT ![j] = routine[j]] /\ routine[j] \in [Stage -> Nat]
  BY DEF triggerJob, Elapse, JobInv, JobTypes
<1>3. routine[j]["begun"] + routine[j]["run"] + routine[j]["ending"]
        = IF elem[j].running THEN 1 ELSE 0
  BY DEF JobInv, RunningIsActive, Active
<1>4. asked' \in [Job -> BOOLEAN] /\ UNCHANGED <<loop, quit, hung>>
  BY DEF triggerJob, Elapse, JobInv, JobTypes
<1> QED
  BY <1>1, <1>2, <1>3, <1>4, ElementStep

LEMMA JobStep ==
  ASSUME JobInv, [Next]_vars
  PROVE  JobInv'
<1>1. ASSUME NEW j \in Job, Hang(j)
      PROVE  JobInv'
  BY <1>1 DEF Hang, JobInv, JobTypes, RunningIsActive, ToBeStarted, Active
<1>2. CASE Signal
  BY <1>2, LoopStep DEF Signal, JobInv, JobTypes, ToBeStarted
<1>3. CASE UNCHANGED vars
  BY <1>3, LoopStep DEF vars, JobInv, JobTypes, ToBeStarted
<1> QED
  BY <1>1, <1>2, <1>3, MainStep, RoutineStep, WorldStep DEF Next

LEMMA JobInvariant == Spec => []JobInv
<1>1. JobInv /\ [Next]_vars => JobInv'
  BY JobStep
<1> QED
  BY JobStart, <1>1, PTL DEF Spec

(* No job ever runs twice at once, whatever the copy says that the loop    *)
(* decides on, and however long it waits for a slot (main.go, 190-220).    *)
THEOREM NoJobTwice == Spec => []NeverTwice
<1>1. JobInv => NeverTwice
  BY DEF JobInv, RunningIsActive, NeverTwice
<1> QED
  BY JobInvariant, <1>1, PTL

-----------------------------------------------------------------------------
(* The slots.  How many are taken is a sum over all goroutines, which is   *)
(* counted here as the size of a set: the k-th goroutine of a job in a     *)
(* stage is the triple of the three.  A step of a goroutine exchanges one  *)
(* element of the set, Start adds one and Release removes one.             *)
Held(r) == {h \in Job \X Stage \X (Nat \ {0}) : h[3] <= r[h[1]][h[2]]}
Counts == [Job -> [Stage -> Nat]]
More(r, j, s) == [r EXCEPT ![j][s] = @ + 1]

(* A slot is taken for every goroutine, for the one that the loop is about *)
(* to start, and for those that the shutdown has filled so far.            *)
Accounted == /\ IsFiniteSet(Held(routine))
             /\ taken = Cardinality(Held(routine)) + (IF loop.pc = "start" THEN 1 ELSE 0)
                          + (Slots - loop.left)

SlotRanges == /\ taken <= Slots
              /\ loop.left \in 0 .. Slots
              /\ loop.pc \notin {"drain", "stopped"} => loop.left = Slots
              /\ triggers \in 0 .. MaxTriggers

SlotInv == JobInv /\ Accounted /\ SlotRanges

(* One goroutine more in a stage is one element more.                      *)
LEMMA OneMore ==
  ASSUME NEW r \in Counts, NEW q, NEW j \in Job, NEW s \in Stage,
         q = More(r, j, s), IsFiniteSet(Held(r))
  PROVE  /\ q \in Counts
         /\ IsFiniteSet(Held(q))
         /\ Cardinality(Held(q)) = Cardinality(Held(r)) + 1
<1> DEFINE n == r[j][s] + 1
           x == <<j, s, n>>
<1>0. n \in Nat \ {0} /\ x \in Job \X Stage \X (Nat \ {0})
  BY DEF Counts
<1>1. q \in Counts
  BY DEF Counts, More
<1>2. /\ q[j][s] = n
      /\ \A i \in Job, t \in Stage : i # j \/ t # s => q[i][t] = r[i][t]
  BY DEF Counts, More
<1>3. x \notin Held(r)
  BY <1>0 DEF Held, Counts
<1>4. ASSUME NEW h \in Job \X Stage \X (Nat \ {0})
      PROVE  h \in Held(q) <=> h \in Held(r) \cup {x}
  <2>1. h = <<h[1], h[2], h[3]>> /\ h[1] \in Job /\ h[2] \in Stage /\ h[3] \in Nat \ {0}
    OBVIOUS
  <2>2. CASE h[1] = j /\ h[2] = s
    <3>1. h \in Held(q) <=> h[3] <= n
      BY <1>2, <2>2 DEF Held
    <3>2. h \in Held(r) <=> h[3] <= r[j][s]
      BY <2>2 DEF Held
    <3>3. h = x <=> h[3] = n
      BY <2>1, <2>2
    <3>4. r[j][s] \in Nat
      BY DEF Counts
    <3>5. h[3] <= n <=> (h[3] <= r[j][s] \/ h[3] = n)
      BY <2>1, <3>4
    <3> QED
      BY <3>1, <3>2, <3>3, <3>5
  <2>3. CASE ~(h[1] = j /\ h[2] = s)
    <3>1. q[h[1]][h[2]] = r[h[1]][h[2]]
      BY <1>2, <2>1, <2>3
    <3>2. h # x
      BY <2>3
    <3> QED
      BY <3>1, <3>2 DEF Held
  <2> QED
    BY <2>2, <2>3
<1>5. Held(q) = Held(r) \cup {x}
  <2>1. Held(q) \subseteq Job \X Stage \X (Nat \ {0}) /\ Held(r) \subseteq Job \X Stage \X (Nat \ {0})
    BY DEF Held
  <2> HIDE DEF x
  <2> QED
    BY <1>0, <1>4, <2>1
<1> HIDE DEF x
<1>6. /\ IsFiniteSet(Held(r) \cup {x})
      /\ Cardinality(Held(r) \cup {x}) = Cardinality(Held(r)) + 1
  BY <1>3, FS_AddElement, ZenonT(30)
<1> QED
  BY <1>1, <1>5, <1>6

(* One goroutine less is one element less.                                 *)
LEMMA OneLess ==
  ASSUME NEW r \in Counts, NEW q, NEW j \in Job, NEW s \in Stage, r[j][s] > 0,
         q = [r EXCEPT ![j][s] = @ - 1], IsFiniteSet(Held(r))
  PROVE  /\ q \in Counts
         /\ IsFiniteSet(Held(q))
         /\ Cardinality(Held(q)) = Cardinality(Held(r)) - 1
<1>1. q \in Counts /\ r = More(q, j, s)
  <2> DEFINE p == More(q, j, s)
  <2>1. q \in Counts
    BY DEF Counts
  <2>2. q[j][s] = r[j][s] - 1 /\ r[j][s] \in Nat
    BY DEF Counts
  <2>3. p \in Counts
    BY <2>1 DEF Counts, More
  <2>4. ASSUME NEW i \in Job, NEW t \in Stage
        PROVE  p[i][t] = r[i][t]
    <3>1. CASE i = j /\ t = s
      BY <2>1, <2>2, <3>1 DEF Counts, More, More
    <3>2. CASE ~(i = j /\ t = s)
      BY <2>1, <3>2 DEF Counts, More
    <3> QED
      BY <3>1, <3>2
  <2> HIDE DEF p
  <2>5. ASSUME NEW i \in Job
        PROVE  p[i] = r[i]
    <3>1. p[i] = [t \in Stage |-> p[i][t]] /\ r[i] = [t \in Stage |-> r[i][t]]
      BY <2>3 DEF Counts
    <3> QED
      BY <2>4, <3>1
  <2>6. r = p
    BY <2>1, <2>3, <2>5 DEF Counts
  <2> QED
    BY <2>1, <2>6 DEF p
<1>2. \A i \in Job, t \in Stage : q[i][t] <= r[i][t] /\ q[i][t] \in Nat /\ r[i][t] \in Nat
  BY DEF Counts
<1>3. Held(q) \subseteq Held(r)
  BY <1>2 DEF Held
<1>4. IsFiniteSet(Held(q))
  BY <1>3, FS_Subset
<1>5. Cardinality(Held(r)) = Cardinality(Held(q)) + 1
  BY <1>1, <1>4, OneMore
<1> QED
  BY <1>1, <1>4, <1>5, FS_CardinalityType

(* No stage has more goroutines than there are in all.                     *)
LEMMA CountIsBounded ==
  ASSUME NEW r \in Counts, NEW j \in Job, NEW s \in Stage, IsFiniteSet(Held(r))
  PROVE  r[j][s] <= Cardinality(Held(r))
<1> DEFINE n == r[j][s]
           f == [k \in 1 .. n |-> <<j, s, k>>]
<1>1. n \in Nat
  BY DEF Counts
<1>2. f \in [1 .. n -> Held(r)]
  BY <1>1 DEF Held
<1>3. \A a, b \in 1 .. n : f[a] = f[b] => a = b
  OBVIOUS
<1>4. f \in Injection(1 .. n, Held(r))
  BY <1>2, <1>3 DEF Injection, IsInjective
<1>5. Cardinality(1 .. n) = n
  BY <1>1, FS_Interval
<1> HIDE DEF f
<1> QED
  BY <1>4, <1>5, FS_Injection

LEMMA SlotStart == Init => SlotInv
<1> SUFFICES ASSUME Init
             PROVE  SlotInv
  OBVIOUS
<1>1. JobInv
  BY JobStart
<1>2. Held(routine) = {}
  BY DEF Init, Held
<1>3. Accounted
  <2>1. IsFiniteSet(Held(routine)) /\ Cardinality(Held(routine)) = 0
    BY <1>2, FS_EmptySet
  <2> QED
    BY <2>1, SlotsAssumption DEF Accounted, Init
<1>4. SlotRanges
  BY SlotsAssumption, JobBoundsAssumption DEF SlotRanges, Init
<1> QED
  BY <1>1, <1>3, <1>4 DEF SlotInv

(* A goroutine that moves from one stage to another keeps its slot.        *)
LEMMA MoveKeepsSlot ==
  ASSUME SlotInv, NEW j \in Job, NEW from \in Stage, NEW to \in Stage, from # to,
         Move(j, from, to)
  PROVE  IsFiniteSet(Held(routine')) /\ Cardinality(Held(routine')) = Cardinality(Held(routine))
<1> DEFINE q == [routine EXCEPT ![j][from] = @ - 1]
<1>1. routine \in Counts /\ routine[j][from] > 0 /\ IsFiniteSet(Held(routine))
  BY DEF SlotInv, JobInv, JobTypes, Counts, Accounted, Move
<1>2. routine' = [q EXCEPT ![j][to] = @ + 1]
  BY <1>1 DEF Move, Counts
<1>3. /\ q \in Counts /\ IsFiniteSet(Held(q))
      /\ Cardinality(Held(q)) = Cardinality(Held(routine)) - 1
  BY <1>1, OneLess
<1>4. /\ IsFiniteSet(Held(routine'))
      /\ Cardinality(Held(routine')) = Cardinality(Held(q)) + 1
  <2> HIDE DEF q
  <2> QED
    BY <1>2, <1>3, OneMore DEF More
<1>5. Cardinality(Held(routine)) \in Nat
  BY <1>1, FS_CardinalityType
<1> HIDE DEF q
<1> QED
  BY <1>3, <1>4, <1>5

LEMMA SlotMainStep ==
  ASSUME SlotInv, Main
  PROVE  Accounted' /\ SlotRanges'
<1>0. /\ JobTypes /\ taken \in Int /\ Slots \in Nat \ {0}
      /\ routine \in Counts /\ IsFiniteSet(Held(routine))
      /\ Cardinality(Held(routine)) \in Nat
  BY SlotsAssumption, FS_CardinalityType DEF SlotInv, Accounted, SlotRanges, JobInv, JobTypes, Counts
<1>1. ASSUME NEW j \in Job, CopyTimes(j)
      PROVE  Accounted' /\ SlotRanges'
  BY <1>0, <1>1 DEF CopyTimes, SlotInv, Accounted, SlotRanges
<1>2. CASE CopyFlags
  <2>1. loop'.left = loop.left /\ loop'.pc \in {"slot", "look"} /\ loop.pc = "flags"
    BY <1>0, <1>2 DEF CopyFlags, JobTypes, Loop
  <2> QED
    BY <1>0, <1>2, <2>1 DEF CopyFlags, SlotInv, Accounted, SlotRanges
<1>3. CASE TakeSlot
  <2>1. loop'.left = loop.left /\ loop'.pc = "start" /\ loop.pc = "slot"
    BY <1>0, <1>3 DEF TakeSlot, Acquire, JobTypes, Loop
  <2> QED
    BY <1>0, <1>3, <2>1 DEF TakeSlot, Acquire, SlotInv, Accounted, SlotRanges
<1>4. CASE Start
  <2>1. loop'.left = loop.left /\ loop'.pc = "look" /\ loop.pc = "start" /\ loop.job \in Job
    BY <1>0, <1>4 DEF Start, Go, JobTypes, Loop
  <2>2. /\ IsFiniteSet(Held(routine'))
        /\ Cardinality(Held(routine')) = Cardinality(Held(routine)) + 1
    BY <1>0, <1>4, <2>1, OneMore DEF Start, Go, Stage, More
  <2> QED
    BY <1>0, <1>4, <2>1, <2>2 DEF Start, Go, SlotInv, Accounted, SlotRanges
<1>5. CASE NextRound
  <2>1. loop'.left = Slots /\ loop'.pc \in {"look", "drain"} /\ loop.pc = "look"
    BY <1>5 DEF NextRound
  <2> QED
    BY <1>0, <1>5, <2>1 DEF NextRound, SlotInv, Accounted, SlotRanges
<1>6. CASE DrainSlot
  <2>1. loop'.left = loop.left - 1 /\ loop'.pc = "drain" /\ loop.pc = "drain"
    BY <1>0, <1>6 DEF DrainSlot, Drain, JobTypes, Loop
  <2> QED
    BY <1>0, <1>6, <2>1 DEF DrainSlot, Drain, SlotInv, Accounted, SlotRanges
<1>7. CASE Stop
  <2>1. loop'.left = loop.left /\ loop'.pc = "stopped" /\ loop.pc = "drain"
    BY <1>0, <1>7 DEF Stop, JobTypes, Loop
  <2> QED
    BY <1>0, <1>7, <2>1 DEF Stop, SlotInv, Accounted, SlotRanges
<1> QED
  BY <1>1, <1>2, <1>3, <1>4, <1>5, <1>6, <1>7 DEF Main

LEMMA SlotRoutineStep ==
  ASSUME SlotInv, NEW j \in Job, Routine(j)
  PROVE  Accounted' /\ SlotRanges'
<1>0. /\ taken \in Int /\ Slots \in Nat \ {0}
      /\ routine \in Counts /\ IsFiniteSet(Held(routine))
      /\ Cardinality(Held(routine)) \in Nat
  BY SlotsAssumption, FS_CardinalityType DEF SlotInv, Accounted, SlotRanges, JobInv, JobTypes, Counts
<1>1. ASSUME NEW from \in Stage, NEW to \in Stage, from # to, Move(j, from, to),
             UNCHANGED <<loop, taken, triggers>>
      PROVE  Accounted' /\ SlotRanges'
  BY <1>0, <1>1, MoveKeepsSlot DEF SlotInv, Accounted, SlotRanges
<1>2. CASE RunBegins(j)
  BY <1>1, <1>2 DEF RunBegins, Stage
<1>3. CASE RunEnds(j)
  BY <1>1, <1>3 DEF RunEnds, Ends, Stage
<1>4. CASE ClearRunning(j)
  BY <1>1, <1>4 DEF ClearRunning, Leaves, Stage
<1>5. CASE Release(j)
  <2>1. /\ IsFiniteSet(Held(routine'))
        /\ Cardinality(Held(routine')) = Cardinality(Held(routine)) - 1
    BY <1>0, <1>5, OneLess DEF Release, GivesBack, Stage
  <2>2. taken' = taken - 1 /\ UNCHANGED <<loop, triggers>>
    BY <1>5 DEF Release, GivesBack
  <2> QED
    BY <1>0, <2>1, <2>2 DEF SlotInv, Accounted, SlotRanges
<1> QED
  BY <1>2, <1>3, <1>4, <1>5 DEF Routine

LEMMA SlotStep ==
  ASSUME SlotInv, [Next]_vars
  PROVE  SlotInv'
<1>1. JobInv'
  BY JobStep DEF SlotInv
<1>2. Accounted' /\ SlotRanges'
  <2>1. ASSUME UNCHANGED <<loop, routine, taken>>, triggers' \in 0 .. MaxTriggers
        PROVE  Accounted' /\ SlotRanges'
    BY <2>1 DEF SlotInv, Accounted, SlotRanges
  <2>2. ASSUME NEW j \in Job, triggerJob(j) \/ Elapse(j) \/ Hang(j)
        PROVE  Accounted' /\ SlotRanges'
    BY <2>1, <2>2, JobBoundsAssumption DEF triggerJob, Elapse, Hang, SlotInv, SlotRanges
  <2>3. CASE Signal \/ UNCHANGED vars
    BY <2>1, <2>3 DEF Signal, vars, SlotInv, SlotRanges
  <2> QED
    BY <2>2, <2>3, SlotMainStep, SlotRoutineStep DEF Next
<1> QED
  BY <1>1, <1>2 DEF SlotInv

LEMMA SlotInvariant == Spec => []SlotInv
<1>1. SlotInv /\ [Next]_vars => SlotInv'
  BY SlotStep
<1> QED
  BY SlotStart, <1>1, PTL DEF Spec

(* Everything stays in its range, whatever the number of jobs: the slots   *)
(* bound the goroutines of all jobs together, and the channel never holds  *)
(* more than its capacity (main.go, 186-262).                              *)
THEOREM SlotsBound == Spec => []TypeOK
<1>1. SlotInv => TypeOK
  <2> SUFFICES ASSUME SlotInv
               PROVE  TypeOK
    OBVIOUS
  <2>0. JobTypes /\ routine \in Counts /\ Slots \in Nat /\ MaxTriggers \in Nat
    BY SlotsAssumption, JobBoundsAssumption DEF SlotInv, JobInv, JobTypes, Counts
  <2>1. Cardinality(Held(routine)) \in Nat /\ taken \in 0 .. Slots
        /\ Cardinality(Held(routine)) <= Slots
    BY <2>0, FS_CardinalityType DEF SlotInv, Accounted, SlotRanges
  <2>2. \A j \in Job, s \in Stage : routine[j][s] \in 0 .. Slots
    <3> TAKE j \in Job, s \in Stage
    <3>1. routine[j][s] <= Cardinality(Held(routine)) /\ routine[j][s] \in Nat
      BY <2>0, CountIsBounded DEF SlotInv, Accounted, Counts
    <3> QED
      BY <2>0, <2>1, <3>1
  <2>3. routine \in [Job -> [Stage -> 0 .. Slots]]
    BY <2>0, <2>2 DEF Counts
  <2>4. /\ loop.pc \in {"look", "flags", "slot", "start", "drain", "stopped"}
        /\ loop.todo \subseteq Job
        /\ loop.pc \in {"flags", "slot", "start"} => loop.job \in Job /\ loop.due \in BOOLEAN
    BY <2>0 DEF JobTypes, Loop
  <2> QED
    BY <2>0, <2>1, <2>3, <2>4 DEF SlotInv, SlotRanges, JobTypes, TypeOK
<1> QED
  BY SlotInvariant, <1>1, PTL

(* A shutdown that could fill every slot has waited for every goroutine:   *)
(* none is running, about to run, or has a slot to give back (main.go,     *)
(* 253-262 and 208).                                                       *)
THEOREM ShutdownIsClean == Spec => []FinishedMeansFinished
<1>1. SlotInv => FinishedMeansFinished
  <2> SUFFICES ASSUME SlotInv, Stopped, loop.left = 0, NEW j \in Job, NEW s \in Stage
               PROVE  routine[j][s] = 0
    BY DEF FinishedMeansFinished
  <2>1. Cardinality(Held(routine)) \in Nat /\ Slots \in Nat
    BY SlotsAssumption, FS_CardinalityType DEF SlotInv, Accounted
  <2>2. Cardinality(Held(routine)) <= 0
    BY <2>1 DEF SlotInv, Accounted, SlotRanges, Stopped
  <2>3. routine \in Counts
    BY DEF SlotInv, JobInv, JobTypes, Counts
  <2>4. routine[j][s] <= Cardinality(Held(routine)) /\ routine[j][s] \in Nat
    BY <2>3, CountIsBounded DEF SlotInv, Accounted, Counts
  <2> QED
    BY <2>1, <2>2, <2>4
<1> QED
  BY SlotInvariant, <1>1, PTL

-----------------------------------------------------------------------------
(* The initial state and every step map to PeriodicJobs.                   *)

LEMMA PromiseStart == Init => Promise!Init
BY DEF Init, Promise!Init, Stage

LEMMA PromiseStep ==
  ASSUME JobInv, [Next]_vars
  PROVE  [Promise!Next]_Promise!vars
<1> DEFINE wanted == {j \in Job : asked[j]}
           running == {j \in Job : routine[j]["run"] > 0}
           given_up == IF quit THEN Job ELSE hung
<1>t. JobTypes
  BY DEF JobInv
<1>a. \A j \in Job : routine[j]["begun"] \in Nat /\ routine[j]["run"] \in Nat
                     /\ routine[j]["ending"] \in Nat /\ routine[j]["leaving"] \in Nat
  BY <1>t DEF JobTypes, Stage
<1>b. \A j \in Job : routine[j]["begun"] + routine[j]["run"] + routine[j]["ending"] <= 1
  BY DEF JobInv, RunningIsActive, Active
\* Steps that PeriodicJobs does not see
<1>u. ASSUME UNCHANGED <<asked, quit, hung>>, \A j \in Job : routine'[j]["run"] = routine[j]["run"]
      PROVE  UNCHANGED Promise!vars
  BY <1>u DEF Promise!vars
<1>1. CASE Main
  <2>1. UNCHANGED <<asked, quit, hung>>
    BY <1>1 DEF Main, CopyTimes, CopyFlags, TakeSlot, Acquire, Start, Go, NextRound, DrainSlot, Drain, Stop
  <2>2. \A j \in Job : routine'[j]["run"] = routine[j]["run"]
    BY <1>1, <1>t DEF Main, CopyTimes, CopyFlags, TakeSlot, Acquire, Start, Go, NextRound, DrainSlot, Drain, Stop,
                      JobTypes, Stage
  <2> QED
    BY <1>u, <2>1, <2>2
<1>2. ASSUME NEW j \in Job, RunBegins(j)
      PROVE  Promise!Begin(j)
  <2>1. /\ routine[j]["begun"] > 0
        /\ routine'[j]["run"] = routine[j]["run"] + 1
        /\ \A i \in Job \ {j} : routine'[i] = routine[i]
        /\ asked' = [asked EXCEPT ![j] = FALSE]
        /\ UNCHANGED <<quit, hung>>
    BY <1>2, <1>t DEF RunBegins, Move, JobTypes, Stage
  <2>2. routine[j]["run"] = 0
    BY <1>a, <1>b, <2>1
  <2>3. running' = running \cup {j} /\ j \notin running
    BY <2>1, <2>2
  <2>4. wanted' = wanted \ {j}
    BY <2>1, <1>t DEF JobTypes
  <2> QED
    BY <2>1, <2>3, <2>4 DEF Promise!Begin
<1>3. ASSUME NEW j \in Job, RunEnds(j)
      PROVE  Promise!End(j)
  <2>1. /\ routine[j]["run"] > 0
        /\ routine'[j]["run"] = routine[j]["run"] - 1
        /\ \A i \in Job \ {j} : routine'[i] = routine[i]
        /\ UNCHANGED <<asked, quit, hung>>
    BY <1>3, <1>t DEF RunEnds, Ends, Move, JobTypes, Stage
  <2>2. routine'[j]["run"] = 0
    BY <1>a, <1>b, <2>1
  <2>3. running' = running \ {j} /\ j \in running
    BY <2>1, <2>2
  <2> QED
    BY <2>1, <2>3 DEF Promise!End
<1>4. ASSUME NEW j \in Job, ClearRunning(j) \/ Release(j)
      PROVE  UNCHANGED Promise!vars
  <2>1. UNCHANGED <<asked, quit, hung>>
    BY <1>4 DEF ClearRunning, Leaves, Release, GivesBack
  <2>2. \A i \in Job : routine'[i]["run"] = routine[i]["run"]
    BY <1>4, <1>t DEF ClearRunning, Leaves, Move, Release, GivesBack, JobTypes, Stage
  <2> QED
    BY <1>u, <2>1, <2>2
<1>5. ASSUME NEW j \in Job, triggerJob(j)
      PROVE  Promise!Ask(j)
  <2>1. asked' = [asked EXCEPT ![j] = TRUE] /\ UNCHANGED <<routine, quit, hung>>
    BY <1>5 DEF triggerJob
  <2>2. wanted' = wanted \cup {j}
    BY <2>1, <1>t DEF JobTypes
  <2> QED
    BY <2>1, <2>2 DEF Promise!Ask
<1>6. ASSUME NEW j \in Job, Elapse(j)
      PROVE  UNCHANGED Promise!vars
  BY <1>6, <1>u DEF Elapse
<1>7. ASSUME NEW j \in Job, Hang(j)
      PROVE  Promise!GiveUp
  <2>1. hung' = hung \cup {j} /\ UNCHANGED <<routine, quit, asked>>
    BY <1>7 DEF Hang
  <2>2. given_up' \in SUBSET Job /\ given_up \subseteq given_up'
    BY <2>1, <1>t DEF JobTypes
  <2> QED
    BY <2>1, <2>2 DEF Promise!GiveUp
<1>8. ASSUME Signal
      PROVE  Promise!GiveUp
  <2>1. ~quit /\ quit' = TRUE /\ UNCHANGED <<routine, asked, hung>>
    BY <1>8 DEF Signal
  <2>2. given_up' \in SUBSET Job /\ given_up \subseteq given_up'
    BY <2>1, <1>t DEF JobTypes
  <2> QED
    BY <2>1, <2>2 DEF Promise!GiveUp
<1>9. CASE UNCHANGED vars
  BY <1>9, <1>u DEF vars
<1> QED
  BY <1>1, <1>2, <1>3, <1>4, <1>5, <1>6, <1>7, <1>8, <1>9 DEF Next, Routine, Promise!Next

(* The scheduler does nothing that PeriodicJobs forbids: a job that begins *)
(* was not running, one that ends was, and only a run that begins takes a  *)
(* request back (main.go, 190-252).                                        *)
THEOREM SchedulerKeepsPromise == Spec => Promise!Init /\ [][Promise!Next]_Promise!vars
<1>1. JobInv /\ [Next]_vars => [Promise!Next]_Promise!vars
  BY PromiseStep
<1> QED
  BY PromiseStart, JobInvariant, <1>1, PTL DEF Spec
================================================================================
