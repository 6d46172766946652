---------------------------------- MODULE Jobs ---------------------------------
(***************************************************************************)
(* The scheduler in main.go: the loop in main() that starts the registered *)
(* jobs, each in a goroutine of its own, the requests that trigger a job   *)
(* (triggerJob, and runJob in api_internal.go) and the shutdown.           *)
(*                                                                         *)
(* The loop, the goroutines and the requests share the list of jobs        *)
(* without a lock.  The loop takes a copy of an element that is larger     *)
(* than a machine word, so the times in the copy can be older than the     *)
(* flags.                                                                  *)
(***************************************************************************)
EXTENDS Integers, FiniteSets

CONSTANTS Job,
          Frequent,              \* jobs whose HowOften() passes again and again; a
                                 \* request need not wait for that of the others
          Slots,                 \* cap(jobSlots)
          MaxTriggers, MaxHangs  \* bounds

ASSUME SlotsAssumption == Slots \in Nat \ {0}
ASSUME FrequentAssumption == Frequent \subseteq Job
ASSUME JobBoundsAssumption == MaxTriggers \in Nat /\ MaxHangs \in Nat

VARIABLES
    elem,      \* jobs: due stands for time.Since(lastrun) > HowOften()
    loop,      \* where main() is, the jobs left in this round, and its copy
    routine,   \* how many goroutines of a job are where
    taken,     \* len(jobSlots)
    quit,
    asked,     \* a run was asked for after the last one began
    hung,      \* the jobs with a run that will not return
    triggers   \* how many requests there were

vars == <<elem, loop, routine, taken, quit, asked, hung, triggers>>

Element == [due : BOOLEAN, running : BOOLEAN, trigger : BOOLEAN, panicked : BOOLEAN]
Stage == {"begun", "run", "ending", "leaving"}

Init ==
    /\ elem = [j \in Job |-> [due |-> TRUE, running |-> FALSE,
                              trigger |-> FALSE, panicked |-> FALSE]]
    /\ loop = [pc |-> "look", todo |-> Job, left |-> Slots]
    /\ routine = [j \in Job |-> [s \in Stage |-> 0]]
    /\ taken = 0
    /\ quit = FALSE
    /\ asked = [j \in Job |-> FALSE]
    /\ hung = {}
    /\ triggers = 0

Stopped == loop.pc = "stopped"

(***************************************************************************)
(* The loop.                                                               *)
(***************************************************************************)

\* for i, j := range jobs: the copy, first lastrun, then the flags
CopyTimes(j) ==
    /\ loop.pc = "look" /\ j \in loop.todo
    /\ loop' = [pc |-> "flags", todo |-> loop.todo \ {j}, left |-> Slots,
                job |-> j, due |-> elem[j].due]
    /\ UNCHANGED <<elem, routine, taken, quit, asked, hung, triggers>>

CopyFlags ==
    /\ loop.pc = "flags"
    /\ LET e == elem[loop.job]
           starts == (loop.due \/ e.trigger) /\ ~e.running
       IN loop' = [loop EXCEPT !.pc = IF starts THEN "slot" ELSE "look"]
    /\ UNCHANGED <<elem, routine, taken, quit, asked, hung, triggers>>

Acquire(free) ==
    /\ loop.pc = "slot" /\ free
    /\ taken' = taken + 1
    /\ loop' = [loop EXCEPT !.pc = "start"]
    /\ UNCHANGED <<elem, routine, quit, asked, hung, triggers>>

TakeSlotNoWait == Acquire(TRUE)   \* Slip: without waiting for a slot
TakeSlot == Acquire(taken < Slots)

Go(e) ==
    /\ loop.pc = "start"
    /\ elem' = [elem EXCEPT ![loop.job] = e]
    /\ routine' = [routine EXCEPT ![loop.job]["begun"] = @ + 1]
    /\ loop' = [loop EXCEPT !.pc = "look"]
    /\ UNCHANGED <<taken, quit, asked, hung, triggers>>

\* Slip: leaves it to the goroutine to set running
StartNotRunning == Go([elem[loop.job] EXCEPT !.due = FALSE, !.trigger = FALSE])
Start == Go([elem[loop.job] EXCEPT !.running = TRUE, !.due = FALSE, !.trigger = FALSE])

\* for !quit, after a second's sleep
NextRound ==
    /\ loop.pc = "look" /\ loop.todo = {}
    /\ loop' = [pc |-> IF quit THEN "drain" ELSE "look", todo |-> Job, left |-> Slots]
    /\ UNCHANGED <<elem, routine, taken, quit, asked, hung, triggers>>

\* The shutdown fills the slots itself, to see that no job holds one.
Drain(n) ==
    /\ loop.pc = "drain" /\ loop.left > 0 /\ taken < Slots
    /\ taken' = taken + n
    /\ loop' = [loop EXCEPT !.left = @ - 1]
    /\ UNCHANGED <<elem, routine, quit, asked, hung, triggers>>

DrainSlotLook == Drain(0)   \* Slip: only looks whether there is a free slot
DrainSlot == Drain(1)

\* left = 0, or ten seconds are over; the process ends
Stop ==
    /\ loop.pc = "drain"
    /\ loop' = [loop EXCEPT !.pc = "stopped"]
    /\ UNCHANGED <<elem, routine, taken, quit, asked, hung, triggers>>

Main == (\E j \in Job : CopyTimes(j)) \/ CopyFlags \/ TakeSlot \/ Start
        \/ NextRound \/ DrainSlot \/ Stop

(***************************************************************************)
(* The goroutine of a job.                                                 *)
(***************************************************************************)

Move(j, from, to) ==
    /\ ~Stopped
    /\ routine[j][from] > 0
    /\ routine' = [routine EXCEPT ![j][from] = @ - 1, ![j][to] = @ + 1]

RunBegins(j) ==
    /\ Move(j, "begun", "run")
    /\ asked' = [asked EXCEPT ![j] = FALSE]
    /\ UNCHANGED <<elem, loop, taken, quit, hung, triggers>>

\* Run returns or panics; the deferred function notes that and the time.
Ends(j, trigger) ==
    /\ j \notin hung
    /\ Move(j, "run", "ending")
    /\ \E p \in BOOLEAN :
         elem' = [elem EXCEPT ![j] = [@ EXCEPT !.panicked = p, !.due = FALSE,
                                               !.trigger = trigger]]
    /\ UNCHANGED <<loop, taken, quit, asked, hung, triggers>>

RunEndsUntrigger(j) == Ends(j, FALSE)   \* Slip: clears the trigger, too
RunEnds(j) == Ends(j, elem[j].trigger)

Leaves(j, running) ==
    /\ Move(j, "ending", "leaving")
    /\ elem' = [elem EXCEPT ![j].running = running]
    /\ UNCHANGED <<loop, taken, quit, asked, hung, triggers>>

ClearRunningNoPanic(j) == Leaves(j, elem[j].panicked)   \* Slip: not after a panic
ClearRunning(j) == Leaves(j, FALSE)

GivesBack(j, n) ==
    /\ ~Stopped /\ routine[j]["leaving"] > 0
    /\ routine' = [routine EXCEPT ![j]["leaving"] = @ - 1]
    /\ taken' = taken - n
    /\ UNCHANGED <<elem, loop, quit, asked, hung, triggers>>

ReleaseNoPanic(j) == GivesBack(j, IF elem[j].panicked THEN 0 ELSE 1)   \* Slip: same
Release(j) == GivesBack(j, 1)

Routine(j) == RunBegins(j) \/ RunEnds(j) \/ ClearRunning(j) \/ Release(j)

(***************************************************************************)
(* The rest of the world.                                                  *)
(***************************************************************************)

\* triggerJob, runJob
triggerJob(j) ==
    /\ ~Stopped /\ triggers < MaxTriggers
    /\ triggers' = triggers + 1
    /\ elem' = [elem EXCEPT ![j].trigger = TRUE]
    /\ asked' = [asked EXCEPT ![j] = TRUE]
    /\ UNCHANGED <<loop, routine, taken, quit, hung>>

Elapse(j) ==
    /\ ~Stopped /\ ~elem[j].due
    /\ elem' = [elem EXCEPT ![j].due = TRUE]
    /\ UNCHANGED <<loop, routine, taken, quit, asked, hung, triggers>>

\* a run waits for something that never comes
Hang(j) ==
    /\ ~Stopped /\ routine[j]["run"] > 0 /\ Cardinality(hung) < MaxHangs
    /\ hung' = hung \cup {j}
    /\ UNCHANGED <<elem, loop, routine, taken, quit, asked, triggers>>

Signal ==
    /\ ~quit
    /\ quit' = TRUE
    /\ UNCHANGED <<elem, loop, routine, taken, asked, hung, triggers>>

Next == \/ Main
        \/ \E j \in Job : Routine(j) \/ triggerJob(j) \/ Elapse(j) \/ Hang(j)
        \/ Signal

Fairness == /\ WF_vars(Main)
            /\ \A j \in Job : /\ WF_vars(RunBegins(j)) /\ WF_vars(RunEnds(j))
                              /\ WF_vars(ClearRunning(j)) /\ WF_vars(Release(j))
            /\ \A j \in Frequent : WF_vars(Elapse(j))

Spec == Init /\ [][Next]_vars /\ Fairness

(***************************************************************************)
(* Properties.                                                             *)
(***************************************************************************)

\* Goroutines that hold the right to run the job
Active(j) == routine[j]["begun"] + routine[j]["run"] + routine[j]["ending"]

\* The loop, the goroutines and the slots stay in their ranges; the channel
\* never holds more than its capacity.
TypeOK ==
    /\ elem \in [Job -> Element]
    /\ loop.pc \in {"look", "flags", "slot", "start", "drain", "stopped"}
    /\ loop.todo \subseteq Job /\ loop.left \in 0 .. Slots
    /\ loop.pc \in {"flags", "slot", "start"} => loop.job \in Job /\ loop.due \in BOOLEAN
    /\ routine \in [Job -> [Stage -> 0 .. Slots]]
    /\ taken \in 0 .. Slots
    /\ quit \in BOOLEAN /\ asked \in [Job -> BOOLEAN]
    /\ hung \subseteq Job /\ triggers \in 0 .. MaxTriggers

\* A job never runs twice at once, although the loop decides on a copy of its
\* flags and starts the job after it has waited for a slot.
NeverTwice == \A j \in Job : Active(j) <= 1

\* When the shutdown says that all jobs are finished, none is running or about
\* to run: a slot is given back after the last thing a goroutine does.
FinishedMeansFinished ==
    Stopped /\ loop.left = 0 => \A j \in Job : \A s \in Stage : routine[j][s] = 0

\* No panic stops a frequent job: it runs again and again until the shutdown, unless
\* one of its runs hangs.  Other jobs that hang do not keep it from running.
RunsAgain == \A j \in Frequent : []<>(routine[j]["run"] > 0 \/ quit \/ j \in hung)

\* A shutdown ends, even when jobs hang: the loop is not stuck on a slot.
ShutdownEnds == quit ~> Stopped

\* The scheduler implements PeriodicJobs: a run that was asked for at any
\* moment, while the job runs or while the loop is starting it, begins after
\* the request.
Promise == INSTANCE PeriodicJobs WITH
    wanted <- {j \in Job : asked[j]},
    running <- {j \in Job : routine[j]["run"] > 0},
    given_up <- IF quit THEN Job ELSE hung

ImplementsPeriodicJobs == Promise!Spec
================================================================================
