------------------------------ MODULE Evidence ------------------------------
(* Evidence artifacts (evidence/service.ts, storage.service.ts): the bytes are  *)
(* a file named by their hash, written before the rows that refer to it and     *)
(* outside their transaction.  An upload has an idempotency key.                *)
EXTENDS Naturals

CONSTANTS
    Contents,  \* bytes of an upload, which is their hash
    UploadKeys,
    Uploaders, \* bound: uploads at once
    MaxLosses, \* bound: crashes and power losses
    Unknown    \* no artifact

VARIABLES
    disk,       \* what is stored under each hash
    recorded,   \* evidenceArtifacts with its blob: content recorded under each key
    upload,     \* progress of each request
    unflushed,  \* files whose name is not on the disk yet
    answers,    \* records [key, sent, got] of the answers given
    contested,  \* keys two uploads of different content were under way with
    undone,     \* files a power loss took back
    losses

evidenceVars == <<disk, recorded, upload, unflushed, answers, contested, undone, losses>>

NoUpload == [pc |-> "idle"]
Upload == [pc : {"persist", "missing", "temporary", "renamed", "stored"},
           key : UploadKeys, content : Contents]

EvidenceTypeOK ==
    /\ disk \in [Contents -> {"absent", "torn", "whole"}]
    /\ recorded \in [UploadKeys -> Contents \cup {Unknown}]
    /\ upload \in [Uploaders -> Upload \cup {NoUpload}]
    /\ unflushed \subseteq Contents /\ undone \subseteq Contents
    /\ answers \subseteq [key : UploadKeys, sent : Contents, got : Contents]
    /\ contested \subseteq UploadKeys
    /\ losses \in 0 .. MaxLosses

EvidenceInit ==
    /\ disk = [c \in Contents |-> "absent"]
    /\ recorded = [k \in UploadKeys |-> Unknown]
    /\ upload = [r \in Uploaders |-> NoUpload]
    /\ unflushed = {} /\ answers = {} /\ contested = {} /\ undone = {}
    /\ losses = 0

------------------------------------------------------------------------------
faults == <<undone, losses>>
Go(r, pc) == upload' = [upload EXCEPT ![r].pc = pc]
EndUpload(r) == upload' = [upload EXCEPT ![r] = NoUpload]
Answer(k, c, got) == answers' = answers \cup {[key |-> k, sent |-> c, got |-> got]}
Rivals(k, c) == {r \in Uploaders : upload[r] # NoUpload /\ upload[r].key = k /\ upload[r].content # c}

(* record: an artifact under the key answers the request, when its content is   *)
(* the one sent, and refuses it otherwise.                                      *)
SameAny(k, c) == TRUE  \* mutant: the stored artifact is not compared
Same(k, c) == recorded[k] = c

Replay(r, k, c) ==
    /\ upload[r] = NoUpload
    /\ recorded[k] # Unknown /\ Same(k, c)
    /\ Answer(k, c, recorded[k])
    /\ UNCHANGED <<disk, recorded, upload, unflushed, contested, faults>>

Record(r, k, c) ==
    /\ upload[r] = NoUpload
    /\ recorded[k] = Unknown
    /\ upload' = [upload EXCEPT ![r] = [pc |-> "persist", key |-> k, content |-> c]]
    /\ contested' = contested \cup {x \in {k} : Rivals(k, c) # {}}
    /\ UNCHANGED <<disk, recorded, unflushed, answers, faults>>

(* persist: a whole file is kept, a torn one an error.                          *)
Inspect(r) ==
    /\ upload[r].pc = "persist"
    /\ disk[upload[r].content] # "torn"
    /\ Go(r, IF disk[upload[r].content] = "whole" THEN "stored" ELSE "missing")
    /\ UNCHANGED <<disk, recorded, unflushed, answers, contested, faults>>

(* The bytes go to a file of another name first, which is flushed.              *)
WritingTarget(c) == [disk EXCEPT ![c] = "torn"]  \* mutant: written in place
Writing(c) == disk

WriteTemporary(r) ==
    /\ upload[r].pc = "missing"
    /\ disk' = Writing(upload[r].content)
    /\ Go(r, "temporary")
    /\ UNCHANGED <<recorded, unflushed, answers, contested, faults>>

Rename(r) ==
    /\ upload[r].pc = "temporary"
    /\ disk' = [disk EXCEPT ![upload[r].content] = "whole"]
    /\ unflushed' = unflushed \cup {upload[r].content}
    /\ undone' = undone \ {upload[r].content}
    /\ Go(r, "renamed")
    /\ UNCHANGED <<recorded, answers, contested, losses>>

Verify(r) ==
    /\ upload[r].pc = "renamed"
    /\ disk[upload[r].content] = "whole"
    /\ Go(r, "stored")
    /\ UNCHANGED <<disk, recorded, unflushed, answers, contested, faults>>

(* The transaction inserts nothing under a key that another upload has used     *)
(* since; the answer is then the artifact of the other one.                     *)
Insert(r) ==
    LET k == upload[r].key  c == upload[r].content IN
    /\ upload[r].pc = "stored"
    /\ recorded' = IF recorded[k] = Unknown THEN [recorded EXCEPT ![k] = c] ELSE recorded
    /\ Answer(k, c, recorded'[k])
    /\ EndUpload(r)
    /\ UNCHANGED <<disk, unflushed, contested, faults>>

(* A step fails: the error is answered, or the artifact another upload of the   *)
(* same content has recorded under the key, when the transaction was what       *)
(* failed.                                                                      *)
FailUpload(r) ==
    LET k == upload[r].key  c == upload[r].content IN
    /\ upload[r] # NoUpload
    /\ IF upload[r].pc = "stored" /\ recorded[k] = c
       THEN Answer(k, c, c) ELSE UNCHANGED answers
    /\ EndUpload(r)
    /\ UNCHANGED <<disk, recorded, unflushed, contested, faults>>

------------------------------------------------------------------------------
(* The operating system writes the directory to the disk.                       *)
Flush ==
    /\ unflushed # {}
    /\ unflushed' = {}
    /\ UNCHANGED <<disk, recorded, upload, answers, contested, faults>>

(* The API stops; when the machine stops with it, names that were not flushed   *)
(* may be gone.                                                                 *)
EvidenceCrash(gone) ==
    /\ losses < MaxLosses
    /\ gone \subseteq unflushed
    /\ losses' = losses + 1
    /\ disk' = [c \in Contents |-> IF c \in gone THEN "absent" ELSE disk[c]]
    /\ undone' = undone \cup gone
    /\ unflushed' = unflushed \ gone
    /\ upload' = [r \in Uploaders |-> NoUpload]
    /\ UNCHANGED <<recorded, answers, contested>>

EvidenceNext ==
    \/ \E r \in Uploaders :
          \/ \E k \in UploadKeys, c \in Contents : Replay(r, k, c) \/ Record(r, k, c)
          \/ Inspect(r) \/ WriteTemporary(r) \/ Rename(r) \/ Verify(r)
          \/ Insert(r) \/ FailUpload(r)
    \/ Flush
    \/ \E gone \in SUBSET unflushed : EvidenceCrash(gone)

EvidenceSpec == EvidenceInit /\ [][EvidenceNext]_evidenceVars

------------------------------------------------------------------------------
(* readRange and download find the bytes of every recorded artifact, whole,     *)
(* whatever uploads of the same bytes are under way or were cut off; unless the *)
(* machine lost the name of a file before it was on the disk, which persist     *)
(* does not wait for, and nobody has uploaded the bytes since.                  *)
EvidenceReadable ==
    \A k \in UploadKeys : recorded[k] # Unknown /\ recorded[k] \notin undone
        => disk[recorded[k]] = "whole"

(* An upload is answered with an artifact of the bytes it sent, retries and     *)
(* crashes included; unless uploads of different bytes were under way with its  *)
(* key at once, when the one that comes second is answered with the other's.    *)
AnswersMatch == \A a \in answers : a.got = a.sent \/ a.key \in contested
=============================================================================
