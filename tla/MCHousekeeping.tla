--------------------------- MODULE MCHousekeeping ---------------------------
(***************************************************************************)
(* Six parts of the service that share no state, in one instance: API keys *)
(* and their cache, custom fields, ip ranges, the pruning of versions, the *)
(* interval buffer and the distance of strings.  A behaviour is a          *)
(* behaviour of one of them.                                               *)
(***************************************************************************)
EXTENDS ApiKeys, CustomFields, IpRanges, Pruning, IntervalBuffer, Levenshtein

VARIABLE part

(* Names of one file each; contents in which one of the expressions is     *)
(* found or all are; three networks, two of them in a larger one, in all.  *)
OneFile == {{f} : f \in File}
OneOrAll == {{CHOOSE r \in Regexp : TRUE}, Regexp}
Nested == {{1}, {2}, {3}, {1, 2}, {1, 2, 3}}

vars == <<part, keyVars, fieldVars, rangeVars, pruneVars, bufferVars, distanceVars>>

Init ==
  /\ part \in {"keys", "fields", "ranges", "versions", "rate", "words"}
  /\ KeyInit /\ (part # "keys" => \A k \in Key : table[k].row = 0)
  /\ FieldInit /\ RangeInit /\ PruneInit /\ BufferInit
  /\ DistanceInit /\ (part # "words" => str1 = <<>> /\ str2 = <<>>)

Next ==
  \/ /\ part = "keys" /\ KeyNext
     /\ UNCHANGED <<part, fieldVars, rangeVars, pruneVars, bufferVars, distanceVars>>
  \/ /\ part = "fields" /\ FieldNext
     /\ UNCHANGED <<part, keyVars, rangeVars, pruneVars, bufferVars, distanceVars>>
  \/ /\ part = "ranges" /\ RangeNext
     /\ UNCHANGED <<part, keyVars, fieldVars, pruneVars, bufferVars, distanceVars>>
  \/ /\ part = "versions" /\ PruneNext
     /\ UNCHANGED <<part, keyVars, fieldVars, rangeVars, bufferVars, distanceVars>>
  \/ /\ part = "rate" /\ BufferNext
     /\ UNCHANGED <<part, keyVars, fieldVars, rangeVars, pruneVars, distanceVars>>
  \/ /\ part = "words" /\ DistanceStep
     /\ UNCHANGED <<part, keyVars, fieldVars, rangeVars, pruneVars, bufferVars>>

Spec == Init /\ [][Next]_vars /\ FieldFairness

=============================================================================
