---------------------------- MODULE RegistryStore ----------------------------
(***************************************************************************)
(* The extension registry: publish sessions kept in one JSON document, and *)
(* the response cache in front of it.                                      *)
(*                                                                         *)
(* Every operation changes the document in memory under the store's mutex  *)
(* and then saves all of it by writing a temporary file and renaming it;   *)
(* when the save fails the change stays in memory, and the next save, be   *)
(* it the one of an audit event, takes it along.  Uploaded files are       *)
(* written in place, and read by downloads without the mutex.              *)
(*                                                                         *)
(* Answers are cached under keys that contain an epoch.  Publishing moves  *)
(* the epoch on; it is a field of the process, and starts at zero again    *)
(* after a restart, while Redis keeps its answers.                         *)
(***************************************************************************)
EXTENDS Integers, FiniteSets

CONSTANTS
    Sessions,  \* publish sessions of one extension, with one file each
    Versions,  \* its versions
    Readers,   \* requests that resolve the extension
    Ver,       \* per session: the version it is for
    None       \* nobody, nothing

ASSUME SessionsAssumption ==
    /\ Ver \in [Sessions -> Versions]
    /\ IsFiniteSet(Versions)

VARIABLES
    mem,      \* the document in memory
    disk,     \* the document in its file
    file,     \* per session: what its uploaded file holds
    writing,  \* the upload that is being written, under the mutex
    given,    \* sessions whose id was returned to the publisher
    acked,    \* sessions whose finalize was answered with success
    pending,  \* finalized sessions that have yet to move the epoch
    epoch,    \* cacheEpoch
    local,    \* the answer cached in memory for the current epoch
    redis,    \* per epoch: the answer in Redis
    reader,   \* per reader: the answer it is about to cache
    announced,\* versions whose publishing moved the epoch
    cut,      \* sessions whose last upload was cut off
    seen,     \* per version: the session it was resolved to
    lost      \* versions that a restart took out of memory

store == <<mem, disk, file, writing, given, acked, cut>>
cache == <<pending, epoch, local, redis, reader, announced>>
ghosts == <<seen, lost>>
vars == <<store, cache, ghosts>>

(* Answers are what resolve finds in the document.  "clean" says that no   *)
(* publishing was announced between reading and storing it, and that the   *)
(* process was not restarted since.                                        *)
Answers == [Versions -> Sessions \cup {None}]
Entries == [ans : Answers, clean : BOOLEAN]
Epochs == 0 .. Cardinality(Versions)

(* A session's status, its Uploaded flag, whether there is an entry for    *)
(* the extension, possibly one with releases from before, and the versions *)
(* published by the sessions, each with the session that holds its file.   *)
Document ==
    [status   : [Sessions -> {"none", "staged", "uploaded", "published"}],
     uploaded : SUBSET Sessions,
     ext      : {"unknown", "entered", "released"},
     versions : Answers]

Bodies == {"declared", "other"}
Uploads == [sess : Sessions, body : Bodies]

ASSUME NoneAssumption ==
    None \notin Sessions /\ None \notin Uploads /\ None \notin Entries

Unlocked == writing = None

Init ==
    /\ \E ext \in {"unknown", "released"} :
         mem = [status |-> [s \in Sessions |-> "none"], uploaded |-> {},
                ext |-> ext, versions |-> [v \in Versions |-> None]]
    /\ disk = mem
    /\ file = [s \in Sessions |-> "absent"] /\ writing = None
    /\ given = {} /\ acked = {} /\ cut = {}
    /\ pending = {} /\ epoch = 0 /\ local = None
    /\ redis = [e \in Epochs |-> None]
    /\ reader = [r \in Readers |-> None]
    /\ announced = {}
    /\ seen = [v \in Versions |-> None] /\ lost = {}

-----------------------------------------------------------------------------
(* The store                                                               *)

(* The document replaces its file at once, or the file stays as it was.    *)
SaveLocked(doc, saved) ==
    /\ mem' = doc
    /\ disk' = IF saved THEN doc ELSE disk

(* A failed save leaves a session behind whose id nobody was told.         *)
CreatePublishSession(s, saved) ==
    /\ Unlocked /\ mem.status[s] = "none" /\ s \notin given
    /\ SaveLocked([mem EXCEPT !.status[s] = "staged"], saved)
    /\ given' = IF saved THEN given \cup {s} ELSE given
    /\ UNCHANGED <<file, writing, acked, cut, cache, ghosts>>

(* Only a body with the declared checksum and size is taken.               *)
(* Mutant: the checksum is not compared.                                   *)
MutantAccepts(body) == TRUE
Accepts(body) == body = "declared"

(* WriteFile truncates the file before it writes the body.                 *)
UploadBegins(s, body) ==
    /\ Unlocked /\ s \in given /\ mem.status[s] # "none"
    /\ Accepts(body)
    /\ writing' = [sess |-> s, body |-> body]
    /\ file' = [file EXCEPT ![s] = "torn"]
    /\ UNCHANGED <<mem, disk, given, acked, cut, cache, ghosts>>

(* The status becomes "uploaded" again even when it was "published".       *)
(* Mutant: a failed save is undone by loading the document again.          *)
MutantUploadEnds(saved) ==
    /\ ~Unlocked
    /\ file' = [file EXCEPT ![writing.sess] = writing.body]
    /\ LET doc == [mem EXCEPT !.status[writing.sess] = "uploaded",
                              !.uploaded = @ \cup {writing.sess}]
       IN SaveLocked(IF saved THEN doc ELSE disk, saved)
    /\ writing' = None
    /\ cut' = cut \ {writing.sess}
    /\ UNCHANGED <<given, acked, cache, ghosts>>

UploadEnds(saved) ==
    /\ ~Unlocked
    /\ file' = [file EXCEPT ![writing.sess] = writing.body]
    /\ SaveLocked([mem EXCEPT !.status[writing.sess] = "uploaded",
                              !.uploaded = @ \cup {writing.sess}], saved)
    /\ writing' = None
    /\ cut' = cut \ {writing.sess}
    /\ UNCHANGED <<given, acked, cache, ghosts>>

UploadFails ==
    /\ ~Unlocked
    /\ writing' = None
    /\ cut' = cut \cup {writing.sess}
    /\ UNCHANGED <<mem, disk, file, given, acked, cache, ghosts>>

(* All staged files must be uploaded, and the version must be new.         *)
MayPublish(s) == s \in mem.uploaded /\ mem.versions[Ver[s]] = None

Entered == IF mem.ext = "unknown" THEN "entered" ELSE mem.ext

Published(s) ==
    [mem EXCEPT !.ext = Entered, !.status[s] = "published", !.versions[Ver[s]] = s]

(* The file is read for its size and its signature, not to check it.       *)
(* Mutant: the error of the save is dropped.                               *)
MutantFinalizePublish(s, saved) ==
    /\ Unlocked /\ s \in given /\ MayPublish(s) /\ file[s] # "absent"
    /\ SaveLocked(Published(s), saved)
    /\ acked' = acked \cup {s}
    /\ pending' = pending \cup {s}
    /\ UNCHANGED <<file, writing, given, cut, epoch, local, redis, reader, announced, ghosts>>

FinalizePublish(s, saved) ==
    /\ Unlocked /\ s \in given /\ MayPublish(s) /\ file[s] # "absent"
    /\ SaveLocked(Published(s), saved)
    /\ acked' = IF saved THEN acked \cup {s} ELSE acked
    /\ pending' = IF saved THEN pending \cup {s} ELSE pending
    /\ UNCHANGED <<file, writing, given, cut, epoch, local, redis, reader, announced, ghosts>>

(* The extension is entered before the file is read: when that fails, an   *)
(* extension without versions stays in memory, unsaved.                    *)
(* Mutant: the status is set before the file is read, too.                 *)
MutantFinalizeReadFails(s) ==
    /\ Unlocked /\ s \in given /\ MayPublish(s)
    /\ mem' = [mem EXCEPT !.ext = Entered, !.status[s] = "published"]
    /\ UNCHANGED <<disk, file, writing, given, acked, cut, cache, ghosts>>

FinalizeReadFails(s) ==
    /\ Unlocked /\ s \in given /\ MayPublish(s)
    /\ mem' = [mem EXCEPT !.ext = Entered]
    /\ UNCHANGED <<disk, file, writing, given, acked, cut, cache, ghosts>>

(* Every request, successful or not, ends with an audit event, and adding  *)
(* it saves the document.                                                  *)
RecordAudit ==
    /\ Unlocked
    /\ SaveLocked(mem, TRUE)
    /\ UNCHANGED <<file, writing, given, acked, cut, cache, ghosts>>

-----------------------------------------------------------------------------
(* The response cache                                                      *)

(* Keys of earlier epochs are never asked for again, so that memory is     *)
(* modelled by the entry of the current one.  A reader that looked things  *)
(* up before is not clean anymore.  The operations on package metadata     *)
(* raise the epoch as well; to an answer about versions that is one more   *)
(* loss of the entry, which Expire allows at any time.                     *)
(* Mutant: the epoch stays where it is.                                    *)
MutantInvalidateCacheScope(s) ==
    /\ s \in pending
    /\ pending' = pending \ {s}
    /\ announced' = announced \cup {Ver[s]}
    /\ reader' = [r \in Readers |->
                    IF reader[r] = None THEN None ELSE [reader[r] EXCEPT !.clean = FALSE]]
    /\ UNCHANGED <<epoch, local, redis, store, ghosts>>

InvalidateCacheScope(s) ==
    /\ s \in pending
    /\ pending' = pending \ {s}
    /\ epoch' = epoch + 1
    /\ local' = None
    /\ announced' = announced \cup {Ver[s]}
    /\ reader' = [r \in Readers |->
                    IF reader[r] = None THEN None ELSE [reader[r] EXCEPT !.clean = FALSE]]
    /\ UNCHANGED <<redis, store, ghosts>>

(* A hit in Redis is copied to memory.                                     *)
Cached == IF local # None THEN local ELSE redis[epoch]

ReadCachedJSON ==
    /\ local = None /\ redis[epoch] # None
    /\ local' = redis[epoch]
    /\ UNCHANGED <<pending, epoch, redis, reader, announced, store, ghosts>>

Resolve(r) ==
    /\ reader[r] = None /\ Cached = None
    /\ Unlocked
    /\ mem.ext = "released" \/ \E v \in Versions : mem.versions[v] # None
    /\ reader' = [reader EXCEPT ![r] = [ans |-> mem.versions, clean |-> TRUE]]
    /\ seen' = [v \in Versions |->
                  IF mem.versions[v] # None THEN mem.versions[v] ELSE seen[v]]
    /\ UNCHANGED <<pending, epoch, local, redis, announced, store, lost>>

(* The key is computed when the answer is stored, from the epoch then.     *)
WriteAndCacheJSON(r, reached) ==
    /\ reader[r] # None
    /\ local' = reader[r]
    /\ redis' = IF reached THEN [redis EXCEPT ![epoch] = reader[r]] ELSE redis
    /\ reader' = [reader EXCEPT ![r] = None]
    /\ UNCHANGED <<pending, epoch, announced, store, ghosts>>

(* Entries expire in memory and in Redis.                                  *)
Expire ==
    /\ \/ local # None /\ local' = None /\ UNCHANGED redis
       \/ \E e \in Epochs : /\ redis[e] # None
                            /\ redis' = [redis EXCEPT ![e] = None]
                            /\ UNCHANGED local
    /\ UNCHANGED <<pending, epoch, reader, announced, store, ghosts>>

-----------------------------------------------------------------------------
(* A crash at any point; Open loads the document from its file.            *)
Restart ==
    /\ mem' = disk
    /\ writing' = None
    /\ cut' = IF Unlocked THEN cut ELSE cut \cup {writing.sess}
    /\ pending' = {} /\ epoch' = 0 /\ local' = None
    /\ redis' = [e \in Epochs |->
                   IF redis[e] = None THEN None ELSE [redis[e] EXCEPT !.clean = FALSE]]
    /\ reader' = [r \in Readers |-> None]
    /\ lost' = lost \cup {v \in Versions : mem.versions[v] # disk.versions[v]}
    /\ UNCHANGED <<disk, file, given, acked, announced, seen>>

Next ==
    \/ \E s \in Sessions, saved \in BOOLEAN :
         CreatePublishSession(s, saved) \/ FinalizePublish(s, saved)
    \/ \E s \in Sessions :
         FinalizeReadFails(s) \/ InvalidateCacheScope(s)
    \/ \E s \in Sessions, body \in Bodies : UploadBegins(s, body)
    \/ \E saved \in BOOLEAN : UploadEnds(saved)
    \/ UploadFails
    \/ RecordAudit
    \/ ReadCachedJSON
    \/ \E r \in Readers : Resolve(r)
    \/ \E r \in Readers, reached \in BOOLEAN : WriteAndCacheJSON(r, reached)
    \/ Expire
    \/ Restart

Spec == Init /\ [][Next]_vars

-----------------------------------------------------------------------------
(* Properties                                                              *)

(* The variables have their types; the epoch stays within its bound.       *)
TypeOK ==
    /\ mem \in Document /\ disk \in Document
    /\ file \in [Sessions -> {"absent", "torn"} \cup Bodies]
    /\ writing \in Uploads \cup {None}
    /\ given \subseteq Sessions /\ acked \subseteq Sessions /\ cut \subseteq Sessions
    /\ pending \subseteq acked /\ announced \subseteq Versions
    /\ epoch \in Epochs
    /\ local \in Entries \cup {None}
    /\ redis \in [Epochs -> Entries \cup {None}]
    /\ reader \in [Readers -> Entries \cup {None}]
    /\ seen \in Answers /\ lost \subseteq Versions

(* A finalize that was answered with success is not undone: whatever fails *)
(* or crashes later, its version is in memory and in the file, and is      *)
(* still the one of that session (store.go, FinalizePublish, saveLocked).  *)
AckedStaysPublished ==
    \A s \in acked : mem.versions[Ver[s]] = s /\ disk.versions[Ver[s]] = s

(* A session whose status is "published" is the one its version belongs    *)
(* to, in memory and in the file: of two sessions for the same version at  *)
(* most one gets there (store.go, FinalizePublish).                        *)
PublishedOwnsVersion ==
    \A doc \in {mem, disk}, s \in Sessions :
        doc.status[s] = "published" => doc.versions[Ver[s]] = s

(* The file of a published version has the declared content, except while  *)
(* the same session is uploaded again, or when that was cut off: nothing   *)
(* checks the file at finalize (store.go, UploadPublishFile,               *)
(* FinalizePublish).                                                       *)
PublishedBytesDeclared ==
    \A s \in Sessions :
        (mem.versions[Ver[s]] = s /\ (Unlocked \/ writing.sess # s) /\ s \notin cut)
            => file[s] = "declared"

(* Once a version was resolved to a session's file it is never resolved to *)
(* another one, unless a restart dropped it because no save had succeeded  *)
(* since it was published (store.go, FinalizePublish, loadOrSeed).         *)
ServedVersionStable ==
    \A v \in Versions :
        seen[v] # None => mem.versions[v] = seen[v] \/ v \in lost

(* An answer in the cache that lacks a version whose publishing moved the  *)
(* epoch was stored by a request that had read the store before, or is     *)
(* left over in Redis from before a restart, which takes the epoch back to *)
(* keys it used already (cache_helpers.go).                                *)
StaleOnlyByRaceOrRestart ==
    Cached # None /\ Cached.clean => \A v \in announced : Cached.ans[v] # None

=============================================================================
