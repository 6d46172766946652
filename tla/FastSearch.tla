------------------------------ MODULE FastSearch ------------------------------
(***************************************************************************)
(* The in-memory search cache of the service (fastSearch.go): the three    *)
(* maps fsContent, fsID and fsKey that fsMutex protects, as one record.    *)
(* Every operator is one critical section: it maps the cache before it     *)
(* took the lock to the cache after it released it.                        *)
(*                                                                         *)
(* The content of a file never changes after its row was inserted, so      *)
(* fsContent is the set of the file ids it has an entry for, and a search  *)
(* string is the set of the files whose content contains it.  A map        *)
(* without an entry has the value NoFile or NoKey there.                   *)
(***************************************************************************)
EXTENDS Integers

CONSTANTS Cert,    \* certificate fingerprints
          Name,    \* file names
          FileId,  \* files.fileid, a serial number
          NoFile,  \* fsID has no entry
          NoKey    \* fsKey has no entry

Key == Cert \X Name   \* "<certfp>:<filename>"

ASSUME NoFileAssumption == NoFile \notin FileId
ASSUME NoKeyAssumption == NoKey \notin Key

Cache == [content : SUBSET FileId,
          id      : [Key -> FileId \cup {NoFile}],
          key     : [FileId -> Key \cup {NoKey}]]

EmptyCache == [content |-> {},
               id      |-> [k \in Key |-> NoFile],
               key     |-> [f \in FileId |-> NoKey]]

(***************************************************************************)
(* The writers.                                                            *)
(***************************************************************************)

\* Slip: the entries of the previous version of the file stay.
AddNoEvict(c, f, k) ==
    [content |-> c.content \cup {f},
     id      |-> [c.id EXCEPT ![k] = f],
     key     |-> [c.key EXCEPT ![f] = k]]

\* Adds (or replaces) a file: the previous version of the file is evicted.
addFileToFastSearch(c, f, k) ==
    [content |-> (c.content \ {c.id[k]}) \cup {f},
     id      |-> [c.id EXCEPT ![k] = f],
     key     |-> [g \in FileId |-> IF g = f THEN k
                                   ELSE IF g = c.id[k] THEN NoKey
                                   ELSE c.key[g]]]

\* Slip: the content is not deleted.
RemoveKeepContent(c, f) ==
    [content |-> c.content,
     id      |-> [k \in Key |-> IF k = c.key[f] THEN NoFile ELSE c.id[k]],
     key     |-> [c.key EXCEPT ![f] = NoKey]]

removeFileFromFastSearch(c, f) ==
    [content |-> c.content \ {f},
     id      |-> [k \in Key |-> IF k = c.key[f] THEN NoFile ELSE c.id[k]],
     key     |-> [c.key EXCEPT ![f] = NoKey]]

\* The files that fsID lists under a certificate.
FilesOf(c, cert) == {c.id[<<cert, n>>] : n \in Name} \ {NoFile}

removeHostFromFastSearch(c, cert) ==
    [content |-> c.content \ FilesOf(c, cert),
     id      |-> [k \in Key |-> IF k[1] = cert THEN NoFile ELSE c.id[k]],
     key     |-> [f \in FileId |-> IF f \in FilesOf(c, cert)
                                   THEN NoKey ELSE c.key[f]]]

\* Moves every entry of the old certificate to the new one.
replaceCertificateInCache(c, old, new) ==
    [content |-> c.content,
     id      |-> [k \in Key |->
                    IF k[1] = old THEN NoFile
                    ELSE IF k[1] = new /\ c.id[<<old, k[2]>>] # NoFile
                    THEN c.id[<<old, k[2]>>] ELSE c.id[k]],
     key     |-> [f \in FileId |->
                    IF \E n \in Name : c.id[<<old, n>>] = f
                    THEN <<new, CHOOSE n \in Name : c.id[<<old, n>>] = f>>
                    ELSE c.key[f]]]

(***************************************************************************)
(* The readers.  match is the set of the files that contain the search     *)
(* string; an empty map entry of fsContent is the empty string, which      *)
(* contains no (non-empty) search string.                                  *)
(***************************************************************************)

searchFiles(c, match) == c.content \cap match

searchFilesWithFilter(c, match, certs) ==
    {f \in c.content \cap match : \E k \in Key : k[1] \in certs /\ c.id[k] = f}

searchForHosts(c, match) ==
    {cert \in Cert : FilesOf(c, cert) \cap c.content \cap match # {}}

numberOfFilesInFastSearch(c) == {f \in FileId : c.key[f] # NoKey}

(***************************************************************************)
(* What makes the maps consistent with one another.                        *)
(***************************************************************************)

\* searchFiles takes fsKey[id] of every id it has content for and indexes
\* the two parts of the key: an id with content must have a key, or the
\* search panics.
ContentHasKey(c) == \A f \in c.content : c.key[f] # NoKey

\* fsKey is "the reverse of fsID" (fastSearch.go:16).
Reverse(c) == \A f \in FileId, k \in Key : c.id[k] = f <=> c.key[f] = k

===============================================================================
