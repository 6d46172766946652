---------------------------- MODULE Levenshtein ----------------------------
(***************************************************************************)
(* LevenshteinDistance (levenshtein.go), by which the login finds the      *)
(* group whose name is nearest to the user's affiliation: one column of    *)
(* the table of distances is kept and overwritten from top to bottom, once *)
(* for each character of the second string.                                *)
(***************************************************************************)
EXTENDS Naturals, Sequences, FiniteSetsExt

CONSTANTS Letter,       \* characters
          MaxLength     \* bound: the length of the strings

ASSUME LengthAssumption == MaxLength \in Nat

VARIABLES str1, str2,   \* the strings
          x,            \* characters of str2 that are done
          column        \* the column, from 0 to Len(str1)

distanceVars == <<str1, str2, x, column>>

Strings == UNION {[1..n -> Letter] : n \in 0..MaxLength}

DistanceInit ==
  /\ str1 \in Strings /\ str2 \in Strings
  /\ x = 0 /\ column = [y \in 0..Len(str1) |-> y]

minimumOfTwo(a, b, c) ==        \* Slip: a is not compared with c
  IF a < b THEN a ELSE IF b < c THEN b ELSE c

minimum(a, b, c) ==
  IF a < b /\ a < c THEN a ELSE IF a >= b /\ b < c THEN b ELSE c

incr(y) == IF str1[y] # str2[x + 1] THEN 1 ELSE 0

(* lastkey is the element above as it was before this column.              *)
NextColumn[y \in DOMAIN column] ==
  IF y = 0 THEN x + 1
  ELSE minimum(column[y] + 1, NextColumn[y - 1] + 1, column[y - 1] + incr(y))

DistanceStep ==
  /\ x < Len(str2)
  /\ x' = x + 1
  /\ column' = [y \in DOMAIN column |-> NextColumn[y]]
  /\ UNCHANGED <<str1, str2>>

DistanceSpec == DistanceInit /\ [][DistanceStep]_distanceVars

-----------------------------------------------------------------------------
(* The definition: the last characters are the same and cost nothing, or   *)
(* one is deleted, inserted or substituted.  d has the distances of        *)
(* shorter strings.                                                        *)
front(s) == SubSeq(s, 1, Len(s) - 1)

FewestEdits(d, s, t) ==
  IF s = <<>> \/ t = <<>> THEN Len(s) + Len(t)
  ELSE Min({d[<<front(s), t>>] + 1, d[<<s, front(t)>>] + 1,
            d[<<front(s), front(t)>>] + IF s[Len(s)] = t[Len(t)] THEN 0 ELSE 1})

Distance[w \in Strings \X Strings] == FewestEdits(Distance, w[1], w[2])

(* Each column holds the distances of every beginning of the first string  *)
(* to what was read of the second, so the last element of the last one is  *)
(* the least number of edits (LevenshteinDistance).                        *)
ColumnIsDistance ==
  \A y \in DOMAIN column :
    column[y] = Distance[<<SubSeq(str1, 1, y), SubSeq(str2, 1, x)>>]

=============================================================================
