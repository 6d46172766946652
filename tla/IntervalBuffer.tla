--------------------------- MODULE IntervalBuffer ---------------------------
(***************************************************************************)
(* IntervalBuffer, the memory behind the figures of files per minute       *)
(* (intervalBuffer.go): values are added and forgotten after an interval;  *)
(* AddT overwrites the element at a position that moves round the buffer   *)
(* when that is old enough, and lets the buffer grow otherwise.            *)
(*                                                                         *)
(* A value counts as one, so an element is its timestamp and Sum a number  *)
(* of elements.                                                            *)
(***************************************************************************)
EXTENDS Naturals, Sequences, FiniteSets

CONSTANTS Interval,     \* how long a value counts, in ticks
          MaxPerTick,   \* bound: values added in one tick
          LastTime      \* bound: the clock stops

ASSUME BufferAssumption == Interval \in Nat

VARIABLES time,
          buffer,       \* the elements
          position,     \* index of the next element to reuse, from 1
          added         \* history: the values that were added, each by its
                        \* time and its number among those of that time

bufferVars == <<time, buffer, position, added>>

BufferInit ==
  time = 0 /\ buffer = <<>> /\ position = 1 /\ added = {}

Sum == Cardinality({i \in DOMAIN buffer : time - buffer[i] <= Interval})

Position == IF position > Len(buffer) THEN 1 ELSE position

ReusableSoon(i) == time - buffer[i] >= Interval         \* Slip: >= for >

Reusable(i) == time - buffer[i] > Interval

(* Add takes the time before AddT gets the lock, so another may be first.  *)
Add(when) ==
  /\ \E n \in 1..MaxPerTick :
       /\ <<when, n>> \notin added /\ \A m \in 1..(n - 1) : <<when, m>> \in added
       /\ added' = added \cup {<<when, n>>}
  /\ IF buffer = <<>>
     THEN buffer' = <<when>> /\ position' = position
     ELSE IF Reusable(Position)
     THEN buffer' = [buffer EXCEPT ![Position] = when] /\ position' = Position + 1
     ELSE buffer' = Append(buffer, when) /\ position' = Position
  /\ UNCHANGED time

TimePasses == time < LastTime /\ time' = time + 1 /\ UNCHANGED <<buffer, position, added>>

BufferNext ==
  \/ \E when \in 0..time : time - when <= 1 /\ Add(when)
  \/ TimePasses
BufferSpec == BufferInit /\ [][BufferNext]_bufferVars

-----------------------------------------------------------------------------
(* What was added in the last interval.                                    *)
Counts == Cardinality({a \in added : time - a[1] <= Interval})

(* The sum is that of all values of the last interval: reusing elements    *)
(* never drops one that still counts, although the elements are not in the *)
(* order of their age any more once the buffer has grown behind the        *)
(* position (AddT against Sum and Average).                                *)
NothingForgotten == Sum = Counts

=============================================================================
