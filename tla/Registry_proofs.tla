-------------------------- MODULE Registry_proofs --------------------------
(***************************************************************************)
(* What is proved about the registry: first the store of publish sessions  *)
(* with its cache (RegistryStore, Spec), then the metadata of packages and *)
(* organizations (RegistryMetadata, SpecMetadata).  They share no state.   *)
(***************************************************************************)
EXTENDS RegistryStore, RegistryMetadata, FiniteSetTheorems, TLAPS

(***************************************************************************)
(* What publishing promises, for any number of sessions, versions and      *)
(* requests.  The argument rests on one relation between the document in   *)
(* memory and the one in the file: memory has every version the file has   *)
(* (FileBehind), so that neither a later save nor a restart can take back  *)
(* what was saved.                                                         *)
(*                                                                         *)
(* For the cache it is that the epoch counts announced versions, and that  *)
(* keys of epochs to come hold nothing from this run of the process.       *)
(***************************************************************************)
StoreTypes ==
    /\ mem \in Document /\ disk \in Document
    /\ file \in [Sessions -> {"absent", "torn"} \cup Bodies]
    /\ writing \in Uploads \cup {None}
    /\ given \subseteq Sessions /\ acked \subseteq Sessions /\ cut \subseteq Sessions
    /\ seen \in Answers /\ lost \subseteq Versions

FileBehind ==
    \A v \in Versions : disk.versions[v] # None => mem.versions[v] = disk.versions[v]

Owns(doc) ==
    \A s \in Sessions : doc.status[s] = "published" => doc.versions[Ver[s]] = s

(* A version belongs to a session for that version with an uploaded file.  *)
Uploaded(doc) ==
    \A s \in Sessions : doc.versions[Ver[s]] = s => s \in doc.uploaded

(* An uploaded file has its declared content, unless it is being written   *)
(* again, or writing it again was cut off.                                 *)
FilesDeclared ==
    \A s \in Sessions :
        (s \in mem.uploaded \cup disk.uploaded
            /\ (writing = None \/ writing.sess # s) /\ s \notin cut)
        => file[s] = "declared"

WritesDeclared == writing # None => writing.body = "declared"

StoreInv ==
    /\ StoreTypes /\ FileBehind
    /\ Owns(mem) /\ Owns(disk)
    /\ Uploaded(mem) /\ Uploaded(disk)
    /\ FilesDeclared /\ WritesDeclared
    /\ AckedStaysPublished
    /\ ServedVersionStable

LEMMA StoreInit == Init => StoreInv
BY SessionsAssumption, NoneAssumption
   DEF Init, StoreInv, StoreTypes, Document, Answers, Bodies, FileBehind, Owns, Uploaded,
       FilesDeclared, WritesDeclared, AckedStaysPublished, ServedVersionStable

(* The invariant is about the document and the files only.                 *)
LEMMA StoreStutter ==
    ASSUME StoreInv, UNCHANGED <<store, ghosts>>
    PROVE  StoreInv'
BY DEF StoreInv, StoreTypes, FileBehind, Owns, Uploaded, FilesDeclared, WritesDeclared,
       AckedStaysPublished, ServedVersionStable, store, ghosts, Unlocked

LEMMA CreateStep ==
    ASSUME StoreInv, NEW s \in Sessions, NEW saved \in BOOLEAN, CreatePublishSession(s, saved)
    PROVE  StoreInv'
<1> DEFINE doc == [mem EXCEPT !.status[s] = "staged"]
<1>1. /\ doc \in Document /\ doc.versions = mem.versions /\ doc.uploaded = mem.uploaded
      /\ \A t \in Sessions : doc.status[t] = "published" => mem.status[t] = "published"
  BY DEF StoreInv, StoreTypes, Document
<1>2. /\ mem' = doc /\ (disk' = doc \/ disk' = disk)
      /\ given' \subseteq Sessions
      /\ UNCHANGED <<file, writing, acked, cut, seen, lost>>
  BY DEF CreatePublishSession, SaveLocked, ghosts, StoreInv, StoreTypes
<1> HIDE DEF doc
<1> QED
  BY <1>1, <1>2, SessionsAssumption
     DEF StoreInv, StoreTypes, FileBehind, Owns, Uploaded, FilesDeclared, WritesDeclared,
         AckedStaysPublished, ServedVersionStable

LEMMA UploadBeginsStep ==
    ASSUME StoreInv, NEW s \in Sessions, NEW body \in Bodies, UploadBegins(s, body)
    PROVE  StoreInv'
<1>1. /\ writing = None /\ writing' = [sess |-> s, body |-> "declared"]
      /\ file' = [file EXCEPT ![s] = "torn"]
      /\ UNCHANGED <<mem, disk, given, acked, cut, seen, lost>>
  BY DEF UploadBegins, Unlocked, Accepts, ghosts
<1>2. writing' \in Uploads
  BY <1>1 DEF Uploads, Bodies
<1>3. StoreTypes'
  BY <1>1, <1>2 DEF StoreInv, StoreTypes
<1>4. FilesDeclared' /\ WritesDeclared'
  BY <1>1, <1>2, NoneAssumption DEF StoreInv, StoreTypes, FilesDeclared, WritesDeclared
<1> QED
  BY <1>1, <1>3, <1>4
     DEF StoreInv, FileBehind, Owns, Uploaded, AckedStaysPublished, ServedVersionStable

LEMMA UploadEndsStep ==
    ASSUME StoreInv, NEW saved \in BOOLEAN, UploadEnds(saved)
    PROVE  StoreInv'
<1> DEFINE s == writing.sess
           doc == [mem EXCEPT !.status[s] = "uploaded", !.uploaded = @ \cup {s}]
<1>1. writing # None /\ writing \in Uploads /\ s \in Sessions /\ writing.body = "declared"
  BY DEF UploadEnds, Unlocked, StoreInv, StoreTypes, WritesDeclared, Uploads
<1>2. /\ doc \in Document /\ doc.versions = mem.versions
      /\ doc.uploaded = mem.uploaded \cup {s}
      /\ \A t \in Sessions : doc.status[t] = "published" => mem.status[t] = "published"
  BY <1>1 DEF StoreInv, StoreTypes, Document
<1>3. /\ mem' = doc /\ (disk' = doc \/ disk' = disk)
      /\ file' = [file EXCEPT ![s] = "declared"]
      /\ writing' = None /\ cut' = cut \ {s}
      /\ UNCHANGED <<given, acked, seen, lost>>
  BY <1>1 DEF UploadEnds, SaveLocked, ghosts
<1> HIDE DEF doc, s
<1>4. StoreTypes'
  BY <1>1, <1>2, <1>3 DEF StoreInv, StoreTypes, Bodies
<1>5. FilesDeclared' /\ WritesDeclared'
  <2>1. writing.sess = s BY DEF s
  <2> QED
    BY <1>1, <1>2, <1>3, <2>1 DEF StoreInv, StoreTypes, FilesDeclared, WritesDeclared
<1>6. /\ FileBehind' /\ Owns(mem)' /\ Owns(disk)' /\ Uploaded(mem)' /\ Uploaded(disk)'
      /\ AckedStaysPublished' /\ ServedVersionStable'
  BY <1>2, <1>3, SessionsAssumption
     DEF StoreInv, StoreTypes, FileBehind, Owns, Uploaded, AckedStaysPublished, ServedVersionStable
<1> QED
  BY <1>4, <1>5, <1>6 DEF StoreInv

LEMMA UploadFailsStep ==
    ASSUME StoreInv, UploadFails
    PROVE  StoreInv'
<1>1. writing # None /\ writing.sess \in Sessions
  BY DEF UploadFails, Unlocked, StoreInv, StoreTypes, Uploads
<1>2. /\ writing' = None /\ cut' = cut \cup {writing.sess}
      /\ UNCHANGED <<mem, disk, file, given, acked, seen, lost>>
  BY DEF UploadFails, ghosts
<1> QED
  BY <1>1, <1>2
     DEF StoreInv, StoreTypes, FileBehind, Owns, Uploaded, FilesDeclared, WritesDeclared,
         AckedStaysPublished, ServedVersionStable

(* Only a version nobody has is given to a session.                        *)
LEMMA FinalizeStep ==
    ASSUME StoreInv, NEW s \in Sessions, NEW saved \in BOOLEAN, FinalizePublish(s, saved)
    PROVE  StoreInv'
<1> DEFINE doc == Published(s)
<1>1. /\ s \in mem.uploaded /\ mem.versions[Ver[s]] = None /\ Ver[s] \in Versions
      /\ mem' = doc
      /\ disk' = (IF saved THEN doc ELSE disk)
      /\ acked' = (IF saved THEN acked \cup {s} ELSE acked)
      /\ UNCHANGED <<file, writing, given, cut, seen, lost>>
  BY SessionsAssumption DEF FinalizePublish, MayPublish, SaveLocked, ghosts
<1>2. /\ doc.versions = [mem.versions EXCEPT ![Ver[s]] = s]
      /\ doc.status = [mem.status EXCEPT ![s] = "published"]
      /\ doc.uploaded = mem.uploaded
      /\ doc \in Document
  BY <1>1 DEF Published, Entered, StoreInv, StoreTypes, Document, Answers
<1> HIDE DEF doc
<1>3. /\ mem.versions \in [Versions -> Sessions \cup {None}]
      /\ mem.status \in [Sessions -> {"none", "staged", "uploaded", "published"}]
  BY DEF StoreInv, StoreTypes, Document, Answers
<1>4. \A v \in Versions : mem.versions[v] # None => doc.versions[v] = mem.versions[v]
  BY <1>1, <1>2, <1>3
<1>5. doc.versions[Ver[s]] = s
  BY <1>1, <1>2, <1>3
<1>6. \A t \in Sessions : doc.versions[Ver[t]] = t => t = s \/ mem.versions[Ver[t]] = t
  BY <1>1, <1>2, <1>3, SessionsAssumption
<1>7. Owns(doc) /\ Uploaded(doc)
  <2>1. Owns(doc)
    BY <1>2, <1>3, <1>4, <1>5, NoneAssumption, SessionsAssumption DEF StoreInv, Owns
  <2>2. Uploaded(doc)
    BY <1>1, <1>2, <1>6 DEF StoreInv, Uploaded
  <2> QED BY <2>1, <2>2
<1>8. FileBehind' /\ Owns(mem)' /\ Owns(disk)' /\ Uploaded(mem)' /\ Uploaded(disk)'
  BY <1>1, <1>4, <1>7 DEF StoreInv, FileBehind, Owns, Uploaded
<1>9. StoreTypes' /\ FilesDeclared' /\ WritesDeclared'
  BY <1>1, <1>2 DEF StoreInv, StoreTypes, FilesDeclared, WritesDeclared
<1>10. AckedStaysPublished'
  BY <1>1, <1>4, <1>5, NoneAssumption, SessionsAssumption
     DEF StoreInv, StoreTypes, AckedStaysPublished
<1>11. ServedVersionStable'
  BY <1>1, <1>4 DEF StoreInv, ServedVersionStable
<1> QED
  BY <1>8, <1>9, <1>10, <1>11 DEF StoreInv

LEMMA ReadFailsStep ==
    ASSUME StoreInv, NEW s \in Sessions, FinalizeReadFails(s)
    PROVE  StoreInv'
<1>1. /\ mem' = [mem EXCEPT !.ext = Entered]
      /\ UNCHANGED <<disk, file, writing, given, acked, cut, seen, lost>>
  BY DEF FinalizeReadFails, ghosts
<1>2. /\ mem' \in Document /\ mem'.versions = mem.versions
      /\ mem'.uploaded = mem.uploaded /\ mem'.status = mem.status
  BY <1>1 DEF StoreInv, StoreTypes, Document, Entered
<1> QED
  BY <1>1, <1>2
     DEF StoreInv, StoreTypes, FileBehind, Owns, Uploaded, FilesDeclared, WritesDeclared,
         AckedStaysPublished, ServedVersionStable

(* Whatever is unsaved goes to the file, too.                              *)
LEMMA AuditStep ==
    ASSUME StoreInv, RecordAudit
    PROVE  StoreInv'
<1>1. mem' = mem /\ disk' = mem /\ UNCHANGED <<file, writing, given, acked, cut, seen, lost>>
  BY DEF RecordAudit, SaveLocked, ghosts
<1> QED
  BY <1>1
     DEF StoreInv, StoreTypes, FileBehind, Owns, Uploaded, FilesDeclared, WritesDeclared,
         AckedStaysPublished, ServedVersionStable

LEMMA ResolveStep ==
    ASSUME StoreInv, NEW r \in Readers, Resolve(r)
    PROVE  StoreInv'
<1>1. /\ seen' = [v \in Versions |->
                    IF mem.versions[v] # None THEN mem.versions[v] ELSE seen[v]]
      /\ UNCHANGED <<store, lost>>
  BY DEF Resolve
<1>2. seen' \in Answers
  BY <1>1 DEF StoreInv, StoreTypes, Answers, Document
<1> QED
  BY <1>1, <1>2
     DEF StoreInv, StoreTypes, FileBehind, Owns, Uploaded, FilesDeclared, WritesDeclared,
         AckedStaysPublished, ServedVersionStable, store, Unlocked

(* Memory falls back to what the file has; versions it loses are lost.     *)
LEMMA RestartStep ==
    ASSUME StoreInv, Restart
    PROVE  StoreInv'
<1>1. /\ mem' = disk /\ writing' = None
      /\ cut' = (IF writing = None THEN cut ELSE cut \cup {writing.sess})
      /\ lost' = lost \cup {v \in Versions : mem.versions[v] # disk.versions[v]}
      /\ UNCHANGED <<disk, file, given, acked, seen>>
  BY DEF Restart, Unlocked
<1>2. writing # None => writing.sess \in Sessions
  BY DEF StoreInv, StoreTypes, Uploads
<1>3. StoreTypes'
  BY <1>1, <1>2 DEF StoreInv, StoreTypes
<1>4. FilesDeclared' /\ WritesDeclared'
  BY <1>1, <1>2 DEF StoreInv, FilesDeclared, WritesDeclared
<1>5. ServedVersionStable'
  BY <1>1 DEF StoreInv, ServedVersionStable
<1> QED
  BY <1>1, <1>3, <1>4, <1>5
     DEF StoreInv, FileBehind, Owns, Uploaded, AckedStaysPublished

LEMMA StoreStep == StoreInv /\ [Next]_vars => StoreInv'
<1> SUFFICES ASSUME StoreInv, [Next]_vars PROVE StoreInv'
  OBVIOUS
<1>1. ASSUME NEW s \in Sessions, NEW saved \in BOOLEAN,
             CreatePublishSession(s, saved) \/ FinalizePublish(s, saved)
      PROVE  StoreInv'
  BY <1>1, CreateStep, FinalizeStep
<1>2. ASSUME NEW s \in Sessions, FinalizeReadFails(s) \/ InvalidateCacheScope(s)
      PROVE  StoreInv'
  BY <1>2, ReadFailsStep, StoreStutter DEF InvalidateCacheScope
<1>3. ASSUME NEW s \in Sessions, NEW body \in Bodies, UploadBegins(s, body)
      PROVE  StoreInv'
  BY <1>3, UploadBeginsStep
<1>4. ASSUME NEW saved \in BOOLEAN, UploadEnds(saved) PROVE StoreInv'
  BY <1>4, UploadEndsStep
<1>5. CASE UploadFails \/ RecordAudit \/ Restart
  BY <1>5, UploadFailsStep, AuditStep, RestartStep
<1>6. CASE ReadCachedJSON \/ Expire
  BY <1>6, StoreStutter DEF ReadCachedJSON, Expire
<1>7. ASSUME NEW r \in Readers, Resolve(r) PROVE StoreInv'
  BY <1>7, ResolveStep
<1>8. ASSUME NEW r \in Readers, NEW reached \in BOOLEAN, WriteAndCacheJSON(r, reached)
      PROVE  StoreInv'
  BY <1>8, StoreStutter DEF WriteAndCacheJSON
<1>9. CASE UNCHANGED vars
  BY <1>9, StoreStutter DEF vars
<1> QED
  BY <1>1, <1>2, <1>3, <1>4, <1>5, <1>6, <1>7, <1>8, <1>9 DEF Next

-----------------------------------------------------------------------------
(* The cache                                                               *)

Fresh(entry) ==
    entry # None /\ entry.clean => \A v \in announced : entry.ans[v] # None

CacheTypes ==
    /\ pending \subseteq acked /\ announced \subseteq Versions
    /\ local \in Entries \cup {None}
    /\ redis \in [Epochs -> Entries \cup {None}]
    /\ reader \in [Readers -> Entries \cup {None}]

(* Every version moves the epoch at most once.                             *)
EpochCounts == epoch \in Nat /\ epoch <= Cardinality(announced)
PendingNew == \A s \in pending : Ver[s] \notin announced

AnnouncedSaved == \A v \in announced : disk.versions[v] # None

RedisFresh ==
    \A e \in Epochs :
        /\ e = epoch => Fresh(redis[e])
        /\ e > epoch => redis[e] = None \/ ~redis[e].clean

CacheInv ==
    /\ CacheTypes /\ EpochCounts /\ PendingNew /\ AnnouncedSaved
    /\ Fresh(local) /\ RedisFresh
    /\ \A r \in Readers : Fresh(reader[r])

LEMMA EpochInRange ==
    ASSUME CacheInv PROVE epoch \in Epochs /\ IsFiniteSet(announced)
BY SessionsAssumption, FS_Subset, FS_CardinalityType
   DEF CacheInv, CacheTypes, EpochCounts, Epochs

LEMMA CacheInit == Init => CacheInv
BY SessionsAssumption, FS_EmptySet
   DEF Init, CacheInv, CacheTypes, EpochCounts, PendingNew, AnnouncedSaved, RedisFresh, Fresh,
       Answers

(* Steps of the store that change no version and announce nothing.         *)
LEMMA CacheStutter ==
    ASSUME CacheInv, UNCHANGED <<cache, acked>>,
           \A v \in Versions : disk.versions[v] # None => disk'.versions[v] # None
    PROVE  CacheInv'
BY DEF CacheInv, CacheTypes, EpochCounts, PendingNew, AnnouncedSaved, RedisFresh, Fresh, cache

(* No step of the store takes a version out of the file.                   *)
LEMMA FileKeepsVersions ==
    ASSUME StoreInv, [Next]_vars, NEW v \in Versions, disk.versions[v] # None
    PROVE  disk'.versions[v] # None
<1>1. ASSUME NEW s \in Sessions, NEW saved \in BOOLEAN, CreatePublishSession(s, saved)
      PROVE  disk'.versions[v] # None
  BY <1>1 DEF CreatePublishSession, SaveLocked, StoreInv, StoreTypes, Document, FileBehind
<1>2. ASSUME NEW s \in Sessions, NEW saved \in BOOLEAN, FinalizePublish(s, saved)
      PROVE  disk'.versions[v] # None
  <2>1. mem.versions[v] # None /\ mem.versions[Ver[s]] = None /\ Ver[s] # v
    BY <1>2 DEF FinalizePublish, MayPublish, StoreInv, FileBehind
  <2>2. Published(s).versions[v] = mem.versions[v]
    BY <2>1 DEF Published, StoreInv, StoreTypes, Document, Answers
  <2> QED
    BY <1>2, <2>1, <2>2 DEF FinalizePublish, SaveLocked
<1>3. ASSUME NEW saved \in BOOLEAN, UploadEnds(saved)
      PROVE  disk'.versions[v] # None
  BY <1>3 DEF UploadEnds, SaveLocked, StoreInv, StoreTypes, Document, FileBehind
<1>4. CASE RecordAudit
  BY <1>4 DEF RecordAudit, SaveLocked, StoreInv, FileBehind
<1>5. CASE UNCHANGED disk
  BY <1>5
<1> QED
  BY <1>1, <1>2, <1>3, <1>4, <1>5
     DEF Next, vars, store, UploadBegins, FinalizeReadFails, InvalidateCacheScope, UploadFails,
         ReadCachedJSON, Resolve, WriteAndCacheJSON, Expire, Restart

(* A version being published was not announced: those are in memory.       *)
LEMMA FinalizeCache ==
    ASSUME StoreInv, CacheInv, NEW s \in Sessions, NEW saved \in BOOLEAN,
           FinalizePublish(s, saved),
           \A v \in Versions : disk.versions[v] # None => disk'.versions[v] # None
    PROVE  CacheInv'
<1>1. /\ mem.versions[Ver[s]] = None /\ Ver[s] \in Versions
      /\ acked' = (IF saved THEN acked \cup {s} ELSE acked)
      /\ pending' = (IF saved THEN pending \cup {s} ELSE pending)
      /\ UNCHANGED <<epoch, local, redis, reader, announced>>
  BY SessionsAssumption DEF FinalizePublish, MayPublish
<1>2. Ver[s] \notin announced
  BY <1>1 DEF CacheInv, AnnouncedSaved, StoreInv, FileBehind
<1> QED
  BY <1>1, <1>2
     DEF CacheInv, CacheTypes, EpochCounts, PendingNew, AnnouncedSaved, RedisFresh, Fresh

(* Keys of the next epoch hold nothing clean, memory nothing at all.       *)
LEMMA InvalidateCache ==
    ASSUME StoreInv, CacheInv, NEW s \in Sessions, InvalidateCacheScope(s)
    PROVE  CacheInv'
<1>1. /\ s \in pending /\ pending' = pending \ {s}
      /\ epoch' = epoch + 1 /\ local' = None
      /\ announced' = announced \cup {Ver[s]}
      /\ reader' = [r \in Readers |->
                      IF reader[r] = None THEN None ELSE [reader[r] EXCEPT !.clean = FALSE]]
      /\ UNCHANGED <<redis, disk, acked>>
  BY DEF InvalidateCacheScope, store
<1>2. s \in acked /\ Ver[s] \in Versions /\ disk.versions[Ver[s]] = s
  BY <1>1, SessionsAssumption DEF CacheInv, CacheTypes, StoreInv, AckedStaysPublished
<1>3. \A r \in Readers : /\ reader'[r] \in Entries \cup {None}
                         /\ reader'[r] # None => ~reader'[r].clean
  <2> SUFFICES ASSUME NEW r \in Readers
               PROVE  /\ reader'[r] \in Entries \cup {None}
                      /\ reader'[r] # None => ~reader'[r].clean
    OBVIOUS
  <2>1. CASE reader[r] = None
    BY <1>1, <2>1
  <2>2. CASE reader[r] # None
    <3>1. reader[r] \in Entries BY <2>2 DEF CacheInv, CacheTypes
    <3>2. reader'[r] = [reader[r] EXCEPT !.clean = FALSE] BY <1>1, <2>2
    <3> QED BY <3>1, <3>2 DEF Entries
  <2> QED BY <2>1, <2>2
<1>4. CacheTypes'
  BY <1>1, <1>2, <1>3 DEF CacheInv, CacheTypes
<1>5. Cardinality(announced') = Cardinality(announced) + 1
  <2>1. Ver[s] \notin announced BY <1>1 DEF CacheInv, PendingNew
  <2>2. IsFiniteSet(announced) BY EpochInRange
  <2> QED BY <1>1, <2>1, <2>2, FS_AddElement
<1>6. EpochCounts'
  <2>1. Cardinality(announced) \in Nat BY EpochInRange, FS_CardinalityType
  <2> QED BY <1>1, <1>5, <2>1 DEF CacheInv, EpochCounts
<1>7. PendingNew'
  <2>1. \A t \in pending' : Ver[t] # Ver[s]
    BY <1>1, <1>2 DEF CacheInv, CacheTypes, StoreInv, AckedStaysPublished
  <2> QED BY <1>1, <2>1 DEF CacheInv, PendingNew
<1>8. AnnouncedSaved'
  BY <1>1, <1>2, NoneAssumption DEF CacheInv, AnnouncedSaved
<1>9. RedisFresh'
  BY <1>1 DEF CacheInv, RedisFresh, Fresh, EpochCounts, Epochs
<1>10. Fresh(local)' /\ \A r \in Readers : Fresh(reader[r])'
  BY <1>1, <1>3 DEF Fresh
<1> QED
  BY <1>4, <1>6, <1>7, <1>8, <1>9, <1>10 DEF CacheInv

(* What resolve reads has every announced version.                         *)
LEMMA ReaderCache ==
    ASSUME StoreInv, CacheInv, NEW r \in Readers,
           \/ Resolve(r)
           \/ \E reached \in BOOLEAN : WriteAndCacheJSON(r, reached)
    PROVE  CacheInv'
<1>1. CASE Resolve(r)
  <2> DEFINE entry == [ans |-> mem.versions, clean |-> TRUE]
  <2>1. /\ reader' = [reader EXCEPT ![r] = entry]
        /\ UNCHANGED <<pending, epoch, local, redis, announced, disk, acked>>
    BY <1>1 DEF Resolve, store
  <2>2. entry \in Entries /\ \A v \in announced : entry.ans[v] # None
    BY DEF StoreInv, StoreTypes, FileBehind, Document, Entries, CacheInv, CacheTypes, AnnouncedSaved
  <2> HIDE DEF entry
  <2>3. reader' \in [Readers -> Entries \cup {None}] /\ \A q \in Readers : Fresh(reader[q])'
    BY <2>1, <2>2 DEF CacheInv, CacheTypes, Fresh
  <2> QED
    BY <2>1, <2>3
       DEF CacheInv, CacheTypes, EpochCounts, PendingNew, AnnouncedSaved, RedisFresh, Fresh
<1>2. ASSUME NEW reached \in BOOLEAN, WriteAndCacheJSON(r, reached)
      PROVE  CacheInv'
  <2>1. /\ local' = reader[r]
        /\ redis' = (IF reached THEN [redis EXCEPT ![epoch] = reader[r]] ELSE redis)
        /\ reader' = [reader EXCEPT ![r] = None]
        /\ UNCHANGED <<pending, epoch, announced, disk, acked>>
    BY <1>2 DEF WriteAndCacheJSON, store
  <2>2. reader[r] \in Entries \cup {None} /\ Fresh(reader[r])
    BY DEF CacheInv, CacheTypes
  <2>3. CacheTypes'
    BY <2>1, <2>2 DEF CacheInv, CacheTypes
  <2>4. Fresh(local)' /\ \A q \in Readers : Fresh(reader[q])'
    BY <2>1, <2>2 DEF CacheInv, CacheTypes, Fresh
  <2>5. RedisFresh'
    BY <2>1, <2>2, EpochInRange DEF CacheInv, CacheTypes, RedisFresh, Fresh, EpochCounts, Epochs
  <2> QED
    BY <2>1, <2>3, <2>4, <2>5 DEF CacheInv, EpochCounts, PendingNew, AnnouncedSaved
<1> QED
  BY <1>1, <1>2

(* Expiry and copying between the layers keep an answer as it was.         *)
LEMMA LayersCache ==
    ASSUME CacheInv, ReadCachedJSON \/ Expire
    PROVE  CacheInv'
<1>1. CASE ReadCachedJSON
  <2>1. local' = redis[epoch] /\ UNCHANGED <<pending, epoch, redis, reader, announced, disk, acked>>
    BY <1>1 DEF ReadCachedJSON, store
  <2>2. redis[epoch] \in Entries \cup {None} /\ Fresh(redis[epoch])
    BY EpochInRange DEF CacheInv, CacheTypes, RedisFresh
  <2> QED
    BY <2>1, <2>2
       DEF CacheInv, CacheTypes, EpochCounts, PendingNew, AnnouncedSaved, RedisFresh, Fresh
<1>2. CASE Expire
  <2>1. /\ \/ local' = None /\ redis' = redis
           \/ \E e \in Epochs : redis' = [redis EXCEPT ![e] = None] /\ local' = local
        /\ UNCHANGED <<pending, epoch, reader, announced, disk, acked>>
    BY <1>2 DEF Expire, store
  <2> QED
    BY <2>1
       DEF CacheInv, CacheTypes, EpochCounts, PendingNew, AnnouncedSaved, RedisFresh, Fresh
<1> QED
  BY <1>1, <1>2

(* After a restart nothing in Redis counts as clean.                       *)
LEMMA RestartCache ==
    ASSUME CacheInv, Restart
    PROVE  CacheInv'
<1>1. /\ pending' = {} /\ epoch' = 0 /\ local' = None
      /\ redis' = [e \in Epochs |->
                     IF redis[e] = None THEN None ELSE [redis[e] EXCEPT !.clean = FALSE]]
      /\ reader' = [r \in Readers |-> None]
      /\ UNCHANGED <<disk, acked, announced>>
  BY DEF Restart
<1>2. \A e \in Epochs : /\ redis'[e] \in Entries \cup {None}
                        /\ redis'[e] # None => ~redis'[e].clean
  <2> SUFFICES ASSUME NEW e \in Epochs
               PROVE  /\ redis'[e] \in Entries \cup {None}
                      /\ redis'[e] # None => ~redis'[e].clean
    OBVIOUS
  <2>1. CASE redis[e] = None
    BY <1>1, <2>1
  <2>2. CASE redis[e] # None
    <3>1. redis[e] \in Entries BY <2>2 DEF CacheInv, CacheTypes
    <3>2. redis'[e] = [redis[e] EXCEPT !.clean = FALSE] BY <1>1, <2>2
    <3> QED BY <3>1, <3>2 DEF Entries
  <2> QED BY <2>1, <2>2
<1>3. CacheTypes'
  BY <1>1, <1>2 DEF CacheInv, CacheTypes
<1>4. RedisFresh'
  BY <1>2 DEF RedisFresh, Fresh
<1>5. EpochCounts'
  <2>1. Cardinality(announced) \in Nat BY EpochInRange, FS_CardinalityType
  <2> QED BY <1>1, <2>1 DEF EpochCounts
<1> QED
  BY <1>1, <1>3, <1>4, <1>5 DEF CacheInv, PendingNew, AnnouncedSaved, Fresh

LEMMA CacheStep == StoreInv /\ CacheInv /\ [Next]_vars => CacheInv'
<1> SUFFICES ASSUME StoreInv, CacheInv, [Next]_vars PROVE CacheInv'
  OBVIOUS
<1>0. \A v \in Versions : disk.versions[v] # None => disk'.versions[v] # None
  BY FileKeepsVersions
<1>1. ASSUME NEW s \in Sessions, NEW saved \in BOOLEAN, CreatePublishSession(s, saved)
      PROVE  CacheInv'
  BY <1>0, <1>1, CacheStutter DEF CreatePublishSession
<1>2. ASSUME NEW s \in Sessions, NEW saved \in BOOLEAN, FinalizePublish(s, saved)
      PROVE  CacheInv'
  BY <1>0, <1>2, FinalizeCache
<1>3. ASSUME NEW s \in Sessions, FinalizeReadFails(s) PROVE CacheInv'
  BY <1>0, <1>3, CacheStutter DEF FinalizeReadFails
<1>4. ASSUME NEW s \in Sessions, InvalidateCacheScope(s) PROVE CacheInv'
  BY <1>4, InvalidateCache
<1>5. ASSUME NEW s \in Sessions, NEW body \in Bodies, UploadBegins(s, body) PROVE CacheInv'
  BY <1>0, <1>5, CacheStutter DEF UploadBegins
<1>6. ASSUME NEW saved \in BOOLEAN, UploadEnds(saved) PROVE CacheInv'
  BY <1>0, <1>6, CacheStutter DEF UploadEnds
<1>7. CASE UploadFails \/ RecordAudit
  BY <1>0, <1>7, CacheStutter DEF UploadFails, RecordAudit
<1>8. CASE ReadCachedJSON \/ Expire
  BY <1>8, LayersCache
<1>9. ASSUME NEW r \in Readers,
             \/ Resolve(r)
             \/ \E reached \in BOOLEAN : WriteAndCacheJSON(r, reached)
      PROVE  CacheInv'
  BY <1>9, ReaderCache
<1>10. CASE Restart
  BY <1>10, RestartCache
<1>11. CASE UNCHANGED vars
  BY <1>0, <1>11, CacheStutter DEF vars, store
<1> QED
  BY <1>1, <1>2, <1>3, <1>4, <1>5, <1>6, <1>7, <1>8, <1>9, <1>10, <1>11 DEF Next

-----------------------------------------------------------------------------

LEMMA RegistryInductive == Spec => [](StoreInv /\ CacheInv)
<1>1. Init => StoreInv /\ CacheInv BY StoreInit, CacheInit
<1>2. StoreInv /\ CacheInv /\ [Next]_vars => (StoreInv /\ CacheInv)' BY StoreStep, CacheStep
<1> QED BY <1>1, <1>2, PTL DEF Spec

(* The document, the files and the cache have their types, and the epoch   *)
(* never runs past the number of versions.                                 *)
THEOREM RegistryTypeCorrect == Spec => []TypeOK
<1>1. StoreInv /\ CacheInv => TypeOK
  BY EpochInRange DEF StoreInv, StoreTypes, CacheInv, CacheTypes, TypeOK
<1> QED BY <1>1, RegistryInductive, PTL

(* A finalize answered with success stays in effect, in memory and in the  *)
(* file, through failed saves, other sessions and restarts.                *)
THEOREM FinalizeIsDurable == Spec => []AckedStaysPublished
<1>1. StoreInv => AckedStaysPublished BY DEF StoreInv
<1> QED BY <1>1, RegistryInductive, PTL

(* A session with the status "published" owns its version.                 *)
THEOREM OneOwnerPerVersion == Spec => []PublishedOwnsVersion
<1>1. StoreInv => PublishedOwnsVersion BY DEF StoreInv, Owns, PublishedOwnsVersion
<1> QED BY <1>1, RegistryInductive, PTL

(* The file of a published version has the content that was declared,      *)
(* unless it is, or was in part, uploaded again.                           *)
THEOREM BytesAreDeclared == Spec => []PublishedBytesDeclared
<1>1. StoreInv => PublishedBytesDeclared
  BY DEF StoreInv, Uploaded, FilesDeclared, PublishedBytesDeclared, Unlocked
<1> QED BY <1>1, RegistryInductive, PTL

(* A version that was resolved to a file stays with it, unless a restart   *)
(* took it out of memory unsaved.                                          *)
THEOREM ResolvedStays == Spec => []ServedVersionStable
<1>1. StoreInv => ServedVersionStable BY DEF StoreInv
<1> QED BY <1>1, RegistryInductive, PTL

(* A cached answer lacks an announced version only by a race with the      *)
(* request that stored it, or after a restart.                             *)
THEOREM StaleAnswersExplained == Spec => []StaleOnlyByRaceOrRestart
<1>1. StoreInv /\ CacheInv => StaleOnlyByRaceOrRestart
  BY EpochInRange DEF CacheInv, RedisFresh, Fresh, StaleOnlyByRaceOrRestart, Cached
<1> QED BY <1>1, RegistryInductive, PTL

-----------------------------------------------------------------------------
(***************************************************************************)
(* What unique indexes and single statements give without transactions,    *)
(* for any number of requests, users and versions.  A request that works   *)
(* on a package in several steps holds it alone unless the package is in   *)
(* "shared"; what the package lacks in the meantime, that request brings.  *)
(***************************************************************************)
PackageSteps == {"insert", "update", "remove", "sweep"}
MetadataSteps == {"start", "read", "write", "done", "failed"} \cup PackageSteps
MemberLists == [Users -> Roles \cup {Absent}]

MetadataType ==
    /\ work \in [Requests -> PackageWork \cup OrgWork]
    /\ backend \in {"mongodb", "postgres"}
    /\ pc \in [Requests -> MetadataSteps]
    /\ pkg \in Package \cup {Absent} /\ next \in Nat
    /\ versions \subseteq Nat \X Releases /\ shared \subseteq Nat
    /\ snap \in [Requests -> Package \cup MemberLists \cup {Absent}]
    /\ members \in MemberLists
    /\ orgShared \in BOOLEAN /\ demoted \in BOOLEAN

(* What a request has in hand at a step.                                   *)
InHand(r) ==
    /\ pc[r] \in PackageSteps => snap[r] \in Package /\ snap[r].id < next
    /\ pc[r] \in {"insert", "update"} => work[r].op = "publish"
    /\ pc[r] \in {"remove", "sweep"} => work[r].op = "delete"
    /\ pc[r] \in {"read", "write"} => work[r].op \in {"add", "drop"}
    /\ pc[r] = "write" => snap[r] \in MemberLists

(* Ids are never used again.                                               *)
IdsUsed ==
    /\ pkg # Absent => pkg.id < next
    /\ \A rec \in versions : rec[1] < next

MetadataInv == MetadataType /\ IdsUsed /\ \A r \in Requests : InHand(r)

(* In Postgres nothing is ever published.                                  *)
PostgresIdle ==
    backend = "postgres" =>
        Busy = {} /\ versions = {} /\ (pkg # Absent => pkg.latest = Unset)

(* Two requests at work on one package have marked it.                     *)
OverlapsShared ==
    \A r, q \in Busy : r # q /\ snap[r].id = snap[q].id => snap[r].id \in shared

(* A publish that is alone on its package has read what is still there.    *)
PublishHolds ==
    \A r \in Busy : work[r].op = "publish" /\ snap[r].id \notin shared =>
        pkg # Absent /\ pkg.id = snap[r].id /\ pkg.latest = snap[r].latest

(* A version that is newer than the latest is on its way to become it.     *)
LatestOrComing ==
    pkg # Absent /\ pkg.id \notin shared =>
        \A v \in VersionsOf(pkg.id) :
            \/ v <= pkg.latest
            \/ \E r \in Busy : pc[r] = "update" /\ snap[r].id = pkg.id /\ work[r].v = v

PackageInv ==
    /\ PostgresIdle /\ OverlapsShared /\ PublishHolds /\ LatestOrComing
    /\ OrphansOnlyByOverlap

(* Without an overlap one request at most is about to write the members,   *)
(* and it has read what is there; it drops no last owner.                  *)
MembersHeld ==
    ~orgShared => \A r \in Requests : pc[r] = "write" =>
        snap[r] = members /\ \A q \in Requests : pc[q] = "write" => q = r

DropAllowed ==
    \A r \in Requests : pc[r] = "write" /\ work[r].op = "drop" =>
        MayDrop(snap[r], work[r].user)

OrgInv == MembersHeld /\ DropAllowed /\ OwnerlessOnlyByDemotionOrOverlap

-----------------------------------------------------------------------------
(* Types                                                                   *)

(* What a request is for says which fields it has.                         *)
LEMMA WorkFields ==
    ASSUME NEW w \in PackageWork \cup OrgWork
    PROVE  /\ w.op = "publish" => w.v \in Releases
           /\ w.op \in {"create", "visibility"} => w.vis \in Visibilities
           /\ w.op \in {"add", "drop"} => w.user \in Users
           /\ w.op = "add" => w.role \in Roles
           /\ w.op = "publish" => w \in PackageWork
<1>1. CASE w \in PackageWork
  BY <1>1 DEF PackageWork
<1>2. CASE w \in OrgWork
  BY <1>2 DEF OrgWork
<1> QED
  BY <1>1, <1>2

LEMMA MetadataInit == InitMetadata => MetadataInv
<1> SUFFICES ASSUME InitMetadata PROVE MetadataInv
  OBVIOUS
<1>1. work \in [Requests -> PackageWork \cup OrgWork]
  BY WorksAssumption DEF InitMetadata
<1>2. pkg \in Package \cup {Absent} /\ next \in Nat /\ (pkg # Absent => pkg.id < next)
  BY DEF InitMetadata, Package, Visibilities
<1>3. members \in MemberLists
  BY DEF InitMetadata, MemberLists, Roles
<1>4. pc \in [Requests -> MetadataSteps] /\ \A r \in Requests : pc[r] = "start"
  BY DEF InitMetadata, MetadataSteps
<1>5. orgShared \in BOOLEAN /\ demoted \in BOOLEAN
  BY DEF InitMetadata
<1>6. /\ versions = {} /\ shared = {} /\ backend \in {"mongodb", "postgres"}
      /\ snap \in [Requests -> Package \cup MemberLists \cup {Absent}]
  BY DEF InitMetadata
<1>7. MetadataType /\ IdsUsed
  BY <1>1, <1>2, <1>3, <1>4, <1>5, <1>6 DEF MetadataType, IdsUsed
<1>8. \A r \in Requests : InHand(r)
  BY <1>4 DEF InHand, PackageSteps
<1> QED
  BY <1>7, <1>8 DEF MetadataInv

(* A step moves one request and leaves the others what they have.          *)
LEMMA Moves ==
    ASSUME MetadataType, NEW r \in Requests, NEW s \in MetadataSteps, Goto(r, s)
    PROVE  /\ pc' \in [Requests -> MetadataSteps] /\ pc'[r] = s
           /\ \A q \in Requests \ {r} : pc'[q] = pc[q]
BY DEF MetadataType, Goto

LEMMA HandsFrame ==
    ASSUME MetadataInv, NEW r \in Requests, NEW s \in MetadataSteps, Goto(r, s),
           UNCHANGED work, next' \in Nat, next <= next',
           \A q \in Requests \ {r} : snap'[q] = snap[q], InHand(r)'
    PROVE  \A q \in Requests : InHand(q)'
<1> SUFFICES ASSUME NEW q \in Requests \ {r} PROVE InHand(q)'
  OBVIOUS
<1>1. pc'[q] = pc[q] /\ work'[q] = work[q] /\ snap'[q] = snap[q] /\ InHand(q)
  BY Moves DEF MetadataInv
<1>2. pc[q] \in PackageSteps => snap[q] \in Package /\ snap[q].id < next'
  BY <1>1 DEF InHand, MetadataInv, MetadataType, Package
<1> QED
  BY <1>1, <1>2 DEF InHand

(* A step after which its request has nothing in hand.                     *)
LEMMA EndsFrame ==
    ASSUME MetadataInv, NEW r \in Requests, NEW s \in {"done", "failed"}, Goto(r, s),
           UNCHANGED <<work, snap>>, next' \in Nat, next <= next'
    PROVE  \A q \in Requests : InHand(q)'
<1>1. s \in MetadataSteps
  BY DEF MetadataSteps
<1>2. pc'[r] = s
  BY <1>1, Moves DEF MetadataInv
<1>3. InHand(r)'
  BY <1>2 DEF InHand, PackageSteps
<1> QED
  BY <1>1, <1>3, HandsFrame

LEMMA TypePackages ==
    ASSUME MetadataInv, NEW r \in Requests,
           \/ CreatePackage(r) \/ UpdatePackageVisibility(r) \/ DeleteCascades(r)
           \/ PublishInserts(r) \/ DeleteRemoves(r)
           \/ \E reached \in BOOLEAN : PublishUpdates(r, reached) \/ DeleteSweeps(r, reached)
    PROVE  MetadataInv'
<1> USE DEF org
<1>0. /\ MetadataType /\ IdsUsed /\ InHand(r) /\ work[r] \in PackageWork \cup OrgWork
      /\ pc[r] \in PackageSteps => r \in Busy
  BY DEF MetadataInv, MetadataType, Busy, PackageSteps
<1>1. CASE CreatePackage(r)
  <2>1. /\ UNCHANGED <<work, backend, snap, versions, shared, members, orgShared, demoted>>
        /\ \E s \in {"done", "failed"} : Goto(r, s)
        /\ \/ pkg' = pkg /\ next' = next
           \/ pkg' = [id |-> next, latest |-> Unset, vis |-> work[r].vis] /\ next' = next + 1
    BY <1>1 DEF CreatePackage
  <2>2. work[r].vis \in Visibilities
    BY <1>0, <1>1, WorkFields DEF CreatePackage, Is
  <2>3. pkg' \in Package \cup {Absent} /\ next' \in Nat /\ next <= next'
    BY <1>0, <2>1, <2>2 DEF MetadataType, Package
  <2>4. IdsUsed'
    BY <1>0, <2>1 DEF IdsUsed, MetadataType, Package
  <2>5. PICK s \in {"done", "failed"} : Goto(r, s)
    BY <2>1
  <2>6. pc' \in [Requests -> MetadataSteps]
    BY <1>0, <2>5, Moves DEF MetadataSteps
  <2> QED
    BY <1>0, <2>1, <2>3, <2>4, <2>5, <2>6, EndsFrame DEF MetadataInv, MetadataType
<1>2. CASE UpdatePackageVisibility(r)
  <2>1. /\ UNCHANGED <<work, backend, snap, next, versions, shared, members, orgShared, demoted>>
        /\ pkg' = pkg \/ (pkg # Absent /\ pkg' = [pkg EXCEPT !.vis = work[r].vis])
    BY <1>2 DEF UpdatePackageVisibility
  <2>2. work[r].vis \in Visibilities
    BY <1>0, <1>2, WorkFields DEF UpdatePackageVisibility, Is
  <2>3. pkg' \in Package \cup {Absent} /\ (pkg' # Absent => pkg # Absent /\ pkg'.id = pkg.id)
    BY <1>0, <2>1, <2>2 DEF MetadataType, Package
  <2>4. PICK s \in {"done", "failed"} : Goto(r, s)
    BY <1>2 DEF UpdatePackageVisibility
  <2>5. pc' \in [Requests -> MetadataSteps]
    BY <1>0, <2>4, Moves DEF MetadataSteps
  <2>6. next' \in Nat /\ next <= next'
    BY <1>0, <2>1 DEF MetadataType
  <2> QED
    BY <1>0, <2>1, <2>3, <2>4, <2>5, <2>6, EndsFrame DEF MetadataInv, MetadataType, IdsUsed
<1>3. CASE DeleteCascades(r)
  <2>1. /\ UNCHANGED <<work, backend, snap, next, shared, members, orgShared, demoted>>
        /\ pkg' \in {pkg, Absent} /\ versions' \subseteq versions
    BY <1>3 DEF DeleteCascades
  <2>2. PICK s \in {"done", "failed"} : Goto(r, s)
    BY <1>3 DEF DeleteCascades
  <2>3. pc' \in [Requests -> MetadataSteps]
    BY <1>0, <2>2, Moves DEF MetadataSteps
  <2>4. next' \in Nat /\ next <= next'
    BY <1>0, <2>1 DEF MetadataType
  <2> QED
    BY <1>0, <2>1, <2>2, <2>3, <2>4, EndsFrame DEF MetadataInv, MetadataType, IdsUsed
<1>4. CASE PublishInserts(r)
  <2>1. /\ UNCHANGED <<work, backend, snap, next, pkg, shared, members, orgShared, demoted>>
        /\ pc[r] = "insert" /\ work[r].op = "publish"
        /\ versions' \subseteq versions \cup {<<snap[r].id, work[r].v>>}
    BY <1>4 DEF PublishInserts, Is
  <2>2. work[r].v \in Releases /\ snap[r] \in Package /\ snap[r].id < next /\ snap[r].id \in Nat
    BY <1>0, <2>1, WorkFields DEF InHand, PackageSteps, Package
  <2>3. versions' \subseteq Nat \X Releases /\ IdsUsed'
    BY <1>0, <2>1, <2>2 DEF MetadataType, IdsUsed
  <2>4. PICK s \in {"update", "failed"} : Goto(r, s)
    BY <1>4 DEF PublishInserts
  <2>5. s \in MetadataSteps
    BY DEF MetadataSteps, PackageSteps
  <2>6. pc' \in [Requests -> MetadataSteps] /\ pc'[r] = s
    BY <1>0, <2>4, <2>5, Moves
  <2>7. InHand(r)'
    BY <1>0, <2>1, <2>2, <2>6 DEF InHand, PackageSteps
  <2>8. next' \in Nat /\ next <= next'
    BY <1>0, <2>1 DEF MetadataType
  <2>9. \A q \in Requests : InHand(q)'
    BY <2>1, <2>4, <2>5, <2>7, <2>8, HandsFrame
  <2> QED
    BY <1>0, <2>1, <2>3, <2>6, <2>9 DEF MetadataInv, MetadataType
<1>5. CASE DeleteRemoves(r)
  <2>1. /\ UNCHANGED <<work, backend, snap, next, versions, shared, members, orgShared, demoted>>
        /\ pkg' \in {pkg, Absent} /\ pc[r] = "remove" /\ work[r].op = "delete" /\ Goto(r, "sweep")
    BY <1>5 DEF DeleteRemoves, Is
  <2>2. "sweep" \in MetadataSteps
    BY DEF MetadataSteps, PackageSteps
  <2>3. pc' \in [Requests -> MetadataSteps] /\ pc'[r] = "sweep"
    BY <1>0, <2>1, <2>2, Moves
  <2>4. InHand(r)'
    BY <1>0, <2>1, <2>3 DEF InHand, PackageSteps
  <2>5. next' \in Nat /\ next <= next'
    BY <1>0, <2>1 DEF MetadataType
  <2>6. \A q \in Requests : InHand(q)'
    BY <2>1, <2>2, <2>4, <2>5, HandsFrame
  <2> QED
    BY <1>0, <2>1, <2>3, <2>6 DEF MetadataInv, MetadataType, IdsUsed
<1>6. ASSUME NEW reached \in BOOLEAN, PublishUpdates(r, reached) PROVE MetadataInv'
  <2>1. /\ UNCHANGED <<work, backend, snap, next, versions, members, orgShared, demoted>>
        /\ pkg' = pkg \/ (pkg # Absent /\ pkg' = SetLatest(r))
        /\ shared' \subseteq shared \cup {snap[r].id} /\ Goto(r, "done")
        /\ pc[r] = "update" /\ work[r].op = "publish"
    BY <1>6 DEF PublishUpdates, Is
  <2>2. work[r].v \in Releases /\ snap[r] \in Package /\ snap[r].id \in Nat
    BY <1>0, <2>1, WorkFields DEF InHand, PackageSteps, Package
  <2>3. PickLatestVersion(snap[r].latest, work[r].v) \in {Unset} \cup Releases
    BY <2>2 DEF PickLatestVersion, Package
  <2>4. pkg' \in Package \cup {Absent} /\ (pkg' # Absent => pkg # Absent /\ pkg'.id = pkg.id)
    BY <1>0, <2>1, <2>3 DEF MetadataType, SetLatest, Package
  <2>5. pc' \in [Requests -> MetadataSteps]
    BY <1>0, <2>1, Moves DEF MetadataSteps
  <2>6. next' \in Nat /\ next <= next'
    BY <1>0, <2>1 DEF MetadataType
  <2>7. shared' \subseteq Nat
    BY <1>0, <2>1, <2>2 DEF MetadataType
  <2> QED
    BY <1>0, <2>1, <2>4, <2>5, <2>6, <2>7, EndsFrame DEF MetadataInv, MetadataType, IdsUsed
<1>7. ASSUME NEW reached \in BOOLEAN, DeleteSweeps(r, reached) PROVE MetadataInv'
  <2>1. /\ UNCHANGED <<work, backend, snap, next, pkg, members, orgShared, demoted>>
        /\ versions' \subseteq versions /\ pc[r] = "sweep"
        /\ shared' \subseteq shared \cup {snap[r].id} /\ Goto(r, "done")
    BY <1>7 DEF DeleteSweeps, Is
  <2>2. snap[r].id \in Nat
    BY <1>0, <2>1 DEF InHand, PackageSteps, Package
  <2>3. pc' \in [Requests -> MetadataSteps]
    BY <1>0, <2>1, Moves DEF MetadataSteps
  <2>4. next' \in Nat /\ next <= next' /\ shared' \subseteq Nat
    BY <1>0, <2>1, <2>2 DEF MetadataType
  <2> QED
    BY <1>0, <2>1, <2>3, <2>4, EndsFrame DEF MetadataInv, MetadataType, IdsUsed
<1> QED
  BY <1>1, <1>2, <1>3, <1>4, <1>5, <1>6, <1>7

LEMMA TypeFinds ==
    ASSUME MetadataInv, NEW r \in Requests, PublishFinds(r) \/ DeleteFinds(r)
    PROVE  MetadataInv'
<1>0. MetadataType /\ IdsUsed
  BY DEF MetadataInv
<1>1. UNCHANGED <<work, backend, pkg, next, versions, members, orgShared, demoted>>
  BY DEF PublishFinds, DeleteFinds, org
<1>2. next' \in Nat /\ next <= next'
  BY <1>0, <1>1 DEF MetadataType
<1>3. CASE Goto(r, "failed") /\ UNCHANGED <<snap, shared>>
  <2>1. pc' \in [Requests -> MetadataSteps]
    BY <1>0, <1>3, Moves DEF MetadataSteps
  <2> QED
    BY <1>0, <1>1, <1>2, <1>3, <2>1, EndsFrame DEF MetadataInv, MetadataType, IdsUsed
<1>4. ASSUME NEW s \in {"insert", "remove"}, Finds(r, s),
             s = "insert" => work[r].op = "publish", s = "remove" => work[r].op = "delete"
      PROVE  MetadataInv'
  <2>1. /\ pkg # Absent /\ snap' = [snap EXCEPT ![r] = pkg] /\ Goto(r, s)
        /\ shared' \subseteq shared \cup {pkg.id}
    BY <1>4 DEF Finds
  <2>2. pkg \in Package /\ pkg.id \in Nat /\ pkg.id < next
    BY <1>0, <2>1 DEF MetadataType, IdsUsed, Package
  <2>3. s \in MetadataSteps
    BY DEF MetadataSteps, PackageSteps
  <2>4. pc' \in [Requests -> MetadataSteps] /\ pc'[r] = s
    BY <1>0, <2>1, <2>3, Moves
  <2>5. /\ snap' \in [Requests -> Package \cup MemberLists \cup {Absent}]
        /\ snap'[r] = pkg /\ \A q \in Requests \ {r} : snap'[q] = snap[q]
    BY <1>0, <2>1, <2>2 DEF MetadataType
  <2>6. InHand(r)'
    BY <1>1, <1>4, <2>2, <2>4, <2>5 DEF InHand, PackageSteps
  <2>7. \A q \in Requests : InHand(q)'
    BY <1>1, <1>2, <2>1, <2>3, <2>5, <2>6, HandsFrame
  <2>8. shared' \subseteq Nat
    BY <1>0, <2>1, <2>2 DEF MetadataType
  <2> QED
    BY <1>0, <1>1, <2>4, <2>5, <2>7, <2>8 DEF MetadataInv, MetadataType, IdsUsed
<1> QED
  BY <1>3, <1>4 DEF PublishFinds, DeleteFinds, Is

LEMMA TypeOrg ==
    ASSUME MetadataInv, NEW r \in Requests,
           OrgAuthorizes(r) \/ OrgReads(r) \/ SetMembers(r)
    PROVE  MetadataInv'
<1>0. MetadataType /\ IdsUsed /\ InHand(r) /\ work[r] \in PackageWork \cup OrgWork
  BY DEF MetadataInv, MetadataType
<1>1. UNCHANGED <<work, backend, pkg, next, versions, shared>>
  BY DEF OrgAuthorizes, OrgReads, SetMembers, packages
<1>2. next' \in Nat /\ next <= next'
  BY <1>0, <1>1 DEF MetadataType
<1>3. CASE OrgAuthorizes(r)
  <2>1. PICK s \in {"read", "failed"} : Goto(r, s)
    BY <1>3 DEF OrgAuthorizes
  <2>2. work[r].op \in {"add", "drop"} /\ UNCHANGED <<snap, members, orgShared, demoted>>
    BY <1>3 DEF OrgAuthorizes, org
  <2>3. s \in MetadataSteps
    BY DEF MetadataSteps
  <2>4. pc' \in [Requests -> MetadataSteps] /\ pc'[r] = s
    BY <1>0, <2>1, <2>3, Moves
  <2>5. InHand(r)'
    BY <1>1, <2>2, <2>4 DEF InHand, PackageSteps
  <2>6. \A q \in Requests : InHand(q)'
    BY <1>1, <1>2, <2>1, <2>2, <2>3, <2>5, HandsFrame
  <2> QED
    BY <1>0, <1>1, <2>2, <2>4, <2>6 DEF MetadataInv, MetadataType, IdsUsed
<1>4. CASE OrgReads(r)
  <2>1. PICK s \in {"write", "failed"} : Goto(r, s)
    BY <1>4 DEF OrgReads
  <2>2. /\ pc[r] = "read" /\ snap' = [snap EXCEPT ![r] = members]
        /\ UNCHANGED <<members, demoted>> /\ orgShared' \in BOOLEAN
    BY <1>4 DEF OrgReads
  <2>3. s \in MetadataSteps
    BY DEF MetadataSteps
  <2>4. pc' \in [Requests -> MetadataSteps] /\ pc'[r] = s
    BY <1>0, <2>1, <2>3, Moves
  <2>5. /\ snap' \in [Requests -> Package \cup MemberLists \cup {Absent}]
        /\ snap'[r] = members /\ \A q \in Requests \ {r} : snap'[q] = snap[q]
    BY <1>0, <2>2 DEF MetadataType
  <2>6. InHand(r)'
    BY <1>0, <1>1, <2>2, <2>4, <2>5 DEF InHand, PackageSteps, MetadataType
  <2>7. \A q \in Requests : InHand(q)'
    BY <1>1, <1>2, <2>1, <2>3, <2>5, <2>6, HandsFrame
  <2> QED
    BY <1>0, <1>1, <2>2, <2>4, <2>5, <2>7 DEF MetadataInv, MetadataType, IdsUsed
<1>5. CASE SetMembers(r)
  <2>1. /\ pc[r] = "write" /\ Goto(r, "done") /\ UNCHANGED <<snap, orgShared>>
        /\ members' = [snap[r] EXCEPT ![work[r].user] =
                         IF work[r].op = "add" THEN work[r].role ELSE Absent]
        /\ demoted' \in BOOLEAN
    BY <1>5 DEF SetMembers
  <2>2. work[r].op = "add" => work[r].role \in Roles
    BY <1>0, WorkFields
  <2>3. members' \in MemberLists
    BY <1>0, <2>1, <2>2 DEF InHand, MemberLists
  <2>4. pc' \in [Requests -> MetadataSteps]
    BY <1>0, <2>1, Moves DEF MetadataSteps
  <2> QED
    BY <1>0, <1>1, <1>2, <2>1, <2>3, <2>4, EndsFrame DEF MetadataInv, MetadataType, IdsUsed
<1> QED
  BY <1>3, <1>4, <1>5

(* The databases hold what their schemas say, ids are never used again,    *)
(* and a request has what its next statement needs.                        *)
THEOREM MetadataTypeCorrect == SpecMetadata => []MetadataInv
<1>1. MetadataInv /\ [NextMetadata]_metadataVars => MetadataInv'
  <2> SUFFICES ASSUME MetadataInv, [NextMetadata]_metadataVars PROVE MetadataInv'
    OBVIOUS
  <2>1. CASE UNCHANGED metadataVars
    BY <2>1 DEF metadataVars, packages, org, MetadataInv, MetadataType, IdsUsed, InHand
  <2>2. ASSUME NEW r \in Requests,
               \/ CreatePackage(r) \/ UpdatePackageVisibility(r)
               \/ PublishFinds(r) \/ PublishInserts(r)
               \/ \E reached \in BOOLEAN : PublishUpdates(r, reached) \/ DeleteSweeps(r, reached)
               \/ DeleteCascades(r) \/ DeleteFinds(r) \/ DeleteRemoves(r)
               \/ OrgAuthorizes(r) \/ OrgReads(r) \/ SetMembers(r)
        PROVE  MetadataInv'
    BY <2>2, TypePackages, TypeFinds, TypeOrg
  <2> QED
    BY <2>1, <2>2 DEF NextMetadata
<1> QED
  BY <1>1, MetadataInit, PTL DEF SpecMetadata

-----------------------------------------------------------------------------
(* Packages                                                                *)

LEMMA PackageInit == InitMetadata => PackageInv
<1> SUFFICES ASSUME InitMetadata PROVE PackageInv
  OBVIOUS
<1>1. Busy = {} /\ versions = {}
  BY DEF InitMetadata, Busy
<1>2. pkg # Absent => pkg.latest = Unset
  BY DEF InitMetadata
<1> QED
  BY <1>1, <1>2 DEF PackageInv, PostgresIdle, OverlapsShared, PublishHolds, LatestOrComing,
                    OrphansOnlyByOverlap, VersionsOf

(* Who is at work after a step.                                            *)
LEMMA BusyStep ==
    ASSUME MetadataInv, NEW r \in Requests, NEW s \in MetadataSteps, Goto(r, s)
    PROVE  Busy' = IF s \in PackageSteps THEN Busy \cup {r} ELSE Busy \ {r}
BY Moves DEF MetadataInv, Busy, PackageSteps

(* A step of a request that works on no package before and after it, and   *)
(* leaves packages and versions alone.                                     *)
LEMMA PackagesFrame ==
    ASSUME MetadataInv, PackageInv, NEW r \in Requests, NEW s \in MetadataSteps \ PackageSteps,
           Goto(r, s), r \notin Busy, UNCHANGED <<work, backend, packages>>,
           \A q \in Requests \ {r} : snap'[q] = snap[q]
    PROVE  PackageInv'
<1>1. Busy' = Busy /\ UNCHANGED <<pkg, versions, shared>>
  BY BusyStep DEF packages
<1>2. \A q \in Busy : q \in Requests \ {r} /\ snap'[q] = snap[q] /\ pc'[q] = pc[q]
  BY Moves DEF Busy, MetadataInv
<1>3. PostgresIdle'
  BY <1>1 DEF PackageInv, PostgresIdle
<1>4. OverlapsShared' /\ PublishHolds'
  BY <1>1, <1>2 DEF PackageInv, OverlapsShared, PublishHolds
<1>5. LatestOrComing'
  BY <1>1, <1>2 DEF PackageInv, LatestOrComing, VersionsOf
<1>6. OrphansOnlyByOverlap'
  BY <1>1, <1>2 DEF PackageInv, OrphansOnlyByOverlap
<1> QED
  BY <1>3, <1>4, <1>5, <1>6 DEF PackageInv

(* Requests that are done leave the package as it is or as it should be.   *)
LEMMA PackageFinds ==
    ASSUME MetadataInv, PackageInv, NEW r \in Requests, PublishFinds(r) \/ DeleteFinds(r)
    PROVE  PackageInv'
<1>0. /\ pc[r] = "start" /\ r \notin Busy /\ snap \in [Requests -> Package \cup MemberLists \cup {Absent}]
      /\ UNCHANGED <<work, backend, pkg, next, versions>>
  BY DEF PublishFinds, DeleteFinds, Is, Busy, MetadataInv, MetadataType
<1>1. CASE Goto(r, "failed") /\ UNCHANGED <<snap, shared>>
  BY <1>0, <1>1, PackagesFrame DEF MetadataSteps, PackageSteps, packages
<1>2. ASSUME NEW s \in {"insert", "remove"}, Finds(r, s), backend = "mongodb"
      PROVE  PackageInv'
  <2>1. /\ pkg # Absent /\ snap' = [snap EXCEPT ![r] = pkg] /\ Goto(r, s)
        /\ shared' = IF \E q \in Busy : snap[q].id = pkg.id THEN shared \cup {pkg.id} ELSE shared
    BY <1>2 DEF Finds
  <2>2. s \in MetadataSteps /\ s \in PackageSteps
    BY DEF MetadataSteps, PackageSteps
  <2>3. Busy' = Busy \cup {r} /\ pc'[r] = s
    BY <2>1, <2>2, BusyStep, Moves DEF MetadataInv
  <2>4. snap'[r] = pkg /\ \A q \in Busy : q # r /\ q \in Requests /\ snap'[q] = snap[q] /\ pc'[q] = pc[q]
    BY <1>0, <2>1, <2>2, Moves DEF Busy, MetadataInv
  <2>5. shared \subseteq shared'
    BY <2>1
  <2>6. OverlapsShared'
    BY <2>1, <2>3, <2>4, <2>5 DEF PackageInv, OverlapsShared
  <2>7. PublishHolds'
    BY <1>0, <2>1, <2>3, <2>4, <2>5 DEF PackageInv, PublishHolds
  <2>8. LatestOrComing'
    BY <1>0, <2>3, <2>4, <2>5 DEF PackageInv, LatestOrComing, VersionsOf
  <2>9. OrphansOnlyByOverlap'
    BY <1>0, <2>3, <2>4, <2>5 DEF PackageInv, OrphansOnlyByOverlap
  <2> QED
    BY <1>0, <1>2, <2>6, <2>7, <2>8, <2>9 DEF PackageInv, PostgresIdle
<1>3. CASE DeleteFinds(r)
  BY <1>1, <1>2, <1>3 DEF DeleteFinds, Is
<1>4. CASE PublishFinds(r)
  <2>1. CASE backend = "mongodb"
    BY <1>1, <1>2, <1>4, <2>1 DEF PublishFinds
  <2>2. CASE backend # "mongodb"
    BY <1>1, <1>4, <2>2 DEF PublishFinds, PackageInv, PostgresIdle, MetadataInv, MetadataType
  <2> QED
    BY <2>1, <2>2
<1> QED
  BY <1>3, <1>4

LEMMA PackageSingle ==
    ASSUME MetadataInv, PackageInv, NEW r \in Requests,
           CreatePackage(r) \/ UpdatePackageVisibility(r) \/ DeleteCascades(r)
    PROVE  PackageInv'
<1>0. /\ r \notin Busy /\ UNCHANGED <<work, backend, snap, shared>>
      /\ IdsUsed /\ MetadataType
  BY DEF CreatePackage, UpdatePackageVisibility, DeleteCascades, Is, Busy, MetadataInv
<1>1. PICK s \in {"done", "failed"} : Goto(r, s)
  BY DEF CreatePackage, UpdatePackageVisibility, DeleteCascades
<1>2. s \in MetadataSteps /\ s \notin PackageSteps
  BY DEF MetadataSteps, PackageSteps
<1>3. Busy' = Busy
  BY <1>0, <1>1, <1>2, BusyStep
<1>4. \A q \in Busy : q \in Requests /\ pc'[q] = pc[q]
  BY <1>0, <1>1, <1>2, Moves DEF Busy, MetadataInv
<1>5. OverlapsShared'
  BY <1>0, <1>3 DEF PackageInv, OverlapsShared
<1>6. CASE UNCHANGED <<pkg, versions>>
  BY <1>0, <1>3, <1>4, <1>5, <1>6
  DEF PackageInv, PostgresIdle, PublishHolds, LatestOrComing, VersionsOf, OrphansOnlyByOverlap
<1>7. CASE CreatePackage(r) /\ pkg = Absent
  <2>1. versions' = versions /\ pkg' = [id |-> next, latest |-> Unset, vis |-> work[r].vis]
    BY <1>7 DEF CreatePackage
  <2>2. \A rec \in versions : rec[1] # next
    BY <1>0 DEF IdsUsed, MetadataType
  <2>3. LatestOrComing'
    BY <2>1, <2>2 DEF LatestOrComing, VersionsOf
  <2>4. PublishHolds'
    BY <1>0, <1>3, <1>7 DEF PackageInv, PublishHolds
  <2>5. OrphansOnlyByOverlap'
    BY <1>0, <1>3, <1>7, <2>1 DEF PackageInv, OrphansOnlyByOverlap
  <2>6. PostgresIdle'
    BY <1>0, <1>3, <2>1 DEF PackageInv, PostgresIdle
  <2> QED
    BY <1>5, <2>3, <2>4, <2>5, <2>6 DEF PackageInv
<1>8. CASE UpdatePackageVisibility(r) /\ pkg # Absent
  <2>1. /\ versions' = versions /\ pkg' = [pkg EXCEPT !.vis = work[r].vis] /\ pkg \in Package
        /\ work[r].vis \in Visibilities
    BY <1>0, <1>8, WorkFields DEF UpdatePackageVisibility, MetadataType, Is
  <2>2. pkg'.id = pkg.id /\ pkg'.latest = pkg.latest /\ pkg' \in Package
    BY <2>1 DEF Package
  <2>3. pkg' # Absent
    BY <2>2, AbsentAssumption
  <2> QED
    BY <1>0, <1>3, <1>4, <1>5, <1>8, <2>1, <2>2, <2>3
    DEF PackageInv, PostgresIdle, PublishHolds, LatestOrComing, VersionsOf, OrphansOnlyByOverlap
<1>9. CASE DeleteCascades(r) /\ pkg # Absent
  <2>1. backend = "postgres" /\ pkg' = Absent /\ versions' \subseteq versions
    BY <1>9 DEF DeleteCascades
  <2>2. Busy = {} /\ versions' = {}
    BY <2>1 DEF PackageInv, PostgresIdle
  <2> QED
    BY <1>3, <1>5, <2>1, <2>2
    DEF PackageInv, PostgresIdle, PublishHolds, LatestOrComing, OrphansOnlyByOverlap
<1> QED
  BY <1>6, <1>7, <1>8, <1>9 DEF CreatePackage, UpdatePackageVisibility, DeleteCascades

LEMMA PackageInserts ==
    ASSUME MetadataInv, PackageInv, NEW r \in Requests, PublishInserts(r)
    PROVE  PackageInv'
<1> DEFINE rec == <<snap[r].id, work[r].v>>
<1>0. /\ pc[r] = "insert" /\ work[r].op = "publish" /\ r \in Busy
      /\ UNCHANGED <<work, backend, snap, pkg, next, shared>>
  BY DEF PublishInserts, Is, Busy
<1>1. \A q \in Requests : q # r => pc'[q] = pc[q]
  BY Moves DEF PublishInserts, MetadataSteps, PackageSteps, MetadataInv
<1>2. backend # "postgres"
  BY <1>0 DEF PackageInv, PostgresIdle
<1>3. CASE rec \in versions
  <2>1. versions' = versions /\ Goto(r, "failed")
    BY <1>3 DEF PublishInserts
  <2>2. Busy' = Busy \ {r}
    BY <2>1, BusyStep DEF MetadataSteps, PackageSteps
  <2>3. OverlapsShared' /\ PublishHolds'
    BY <1>0, <2>2 DEF PackageInv, OverlapsShared, PublishHolds
  <2>4. LatestOrComing'
    BY <1>0, <1>1, <2>1, <2>2 DEF PackageInv, LatestOrComing, VersionsOf, Busy
  <2>5. OrphansOnlyByOverlap'
    BY <1>0, <2>1, <2>2 DEF PackageInv, OrphansOnlyByOverlap, PublishHolds
  <2> QED
    BY <1>0, <1>2, <2>3, <2>4, <2>5 DEF PackageInv, PostgresIdle
<1>4. CASE rec \notin versions
  <2>1. versions' = versions \cup {rec} /\ Goto(r, "update")
    BY <1>4 DEF PublishInserts
  <2>2. Busy' = Busy /\ pc'[r] = "update"
    BY <1>0, <2>1, BusyStep, Moves DEF MetadataSteps, PackageSteps, MetadataInv
  <2>3. OverlapsShared' /\ PublishHolds'
    BY <1>0, <2>2 DEF PackageInv, OverlapsShared, PublishHolds
  <2>4. LatestOrComing'
    <3> SUFFICES ASSUME pkg # Absent, pkg.id \notin shared, NEW v \in VersionsOf(pkg.id)'
                 PROVE  \/ v <= pkg.latest
                        \/ \E q \in Busy : pc'[q] = "update" /\ snap[q].id = pkg.id /\ work[q].v = v
      BY <1>0, <2>2 DEF LatestOrComing
    <3>1. CASE <<pkg.id, v>> = rec
      BY <1>0, <2>2, <3>1
    <3>2. CASE <<pkg.id, v>> # rec
      <4>1. v \in VersionsOf(pkg.id)
        BY <1>0, <2>1, <3>2 DEF VersionsOf
      <4>2. \/ v <= pkg.latest
            \/ \E q \in Busy : pc[q] = "update" /\ snap[q].id = pkg.id /\ work[q].v = v
        BY <4>1 DEF PackageInv, LatestOrComing
      <4> QED
        BY <1>0, <1>1, <4>2 DEF Busy
    <3> QED
      BY <3>1, <3>2
  <2>5. OrphansOnlyByOverlap'
    BY <1>0, <2>1, <2>2 DEF PackageInv, OrphansOnlyByOverlap
  <2> QED
    BY <1>0, <1>2, <2>3, <2>4, <2>5 DEF PackageInv, PostgresIdle
<1> QED
  BY <1>3, <1>4

LEMMA PackageUpdates ==
    ASSUME MetadataInv, PackageInv, NEW r \in Requests, NEW reached \in BOOLEAN,
           PublishUpdates(r, reached)
    PROVE  PackageInv'
<1>0. /\ pc[r] = "update" /\ work[r].op = "publish" /\ r \in Busy /\ Goto(r, "done")
      /\ UNCHANGED <<work, backend, snap, next, versions>>
      /\ shared' = IF reached THEN shared ELSE shared \cup {snap[r].id}
      /\ pkg' = IF reached /\ pkg # Absent /\ pkg.id = snap[r].id THEN SetLatest(r) ELSE pkg
  BY DEF PublishUpdates, Is, Busy
<1>1. /\ Busy' = Busy \ {r}
      /\ \A q \in Busy \ {r} : pc'[q] = pc[q]
  BY <1>0, BusyStep, Moves DEF MetadataSteps, PackageSteps, MetadataInv, Busy
<1>2. backend # "postgres" /\ shared \subseteq shared'
  BY <1>0 DEF PackageInv, PostgresIdle
<1>3. OverlapsShared'
  BY <1>0, <1>1, <1>2 DEF PackageInv, OverlapsShared
<1>4. CASE ~(reached /\ pkg # Absent /\ pkg.id = snap[r].id)
  <2>0. /\ pkg' = pkg
        /\ pkg # Absent /\ pkg.id \notin shared' => pkg.id # snap[r].id
    BY <1>0, <1>4
  <2>1. PublishHolds'
    BY <1>0, <1>1, <1>2, <2>0 DEF PackageInv, PublishHolds
  <2>2. LatestOrComing'
    BY <1>0, <1>1, <1>2, <2>0 DEF PackageInv, LatestOrComing, VersionsOf
  <2>3. OrphansOnlyByOverlap'
    BY <1>0, <1>1, <1>2, <2>0 DEF PackageInv, OrphansOnlyByOverlap, PublishHolds
  <2> QED
    BY <1>0, <1>2, <1>3, <2>1, <2>2, <2>3 DEF PackageInv, PostgresIdle
<1>5. CASE reached /\ pkg # Absent /\ pkg.id = snap[r].id
  <2> DEFINE new == PickLatestVersion(snap[r].latest, work[r].v)
  <2>1. /\ pkg \in Package /\ snap[r] \in Package /\ work[r].v \in Releases
        /\ pkg' = [pkg EXCEPT !.latest = new] /\ shared' = shared
    BY <1>0, <1>5, WorkFields
    DEF MetadataInv, MetadataType, InHand, PackageSteps, SetLatest
  <2>2. /\ snap[r].latest \in Nat /\ work[r].v \in Nat /\ snap[r].latest \in {Unset} \cup Releases
    BY <2>1, ReleasesAssumption DEF Package, Unset
  <2>3. /\ new \in {Unset} \cup Releases /\ new \in Nat
        /\ snap[r].latest <= new /\ work[r].v <= new
    BY <2>1, <2>2 DEF PickLatestVersion, Unset
  <2> HIDE DEF new
  <2>4. pkg'.id = pkg.id /\ pkg'.latest = new /\ pkg' \in Package /\ pkg' # Absent
    BY <2>1, <2>3, AbsentAssumption DEF Package
  <2>5. PublishHolds'
    BY <1>0, <1>1, <1>5, <2>1, <2>4 DEF PackageInv, PublishHolds, OverlapsShared
  <2>6. LatestOrComing'
    <3> SUFFICES ASSUME pkg.id \notin shared, NEW v \in VersionsOf(pkg.id)
                 PROVE  v <= new
      BY <1>0, <2>1, <2>4 DEF LatestOrComing, VersionsOf
    <3>1. pkg.latest = snap[r].latest /\ v \in Nat
      BY <1>0, <1>5, ReleasesAssumption DEF PackageInv, PublishHolds, VersionsOf
    <3>2. \A q \in Busy : snap[q].id = pkg.id => q = r
      BY <1>0, <1>5 DEF PackageInv, OverlapsShared
    <3>3. v <= pkg.latest \/ v = work[r].v
      BY <1>5, <3>2 DEF PackageInv, LatestOrComing
    <3> QED
      BY <2>2, <2>3, <3>1, <3>3
  <2>7. OrphansOnlyByOverlap'
    BY <1>0, <1>1, <1>5, <2>1, <2>4 DEF PackageInv, OrphansOnlyByOverlap
  <2> QED
    BY <1>0, <1>2, <1>3, <2>5, <2>6, <2>7 DEF PackageInv, PostgresIdle
<1> QED
  BY <1>0, <1>4, <1>5

LEMMA PackageDeletes ==
    ASSUME MetadataInv, PackageInv, NEW r \in Requests,
           DeleteRemoves(r) \/ \E reached \in BOOLEAN : DeleteSweeps(r, reached)
    PROVE  PackageInv'
<1>0. /\ pc[r] \in {"remove", "sweep"} /\ work[r].op = "delete" /\ r \in Busy
      /\ UNCHANGED <<work, backend, snap, next>>
  BY DEF DeleteRemoves, DeleteSweeps, Is, Busy
<1>1. backend # "postgres"
  BY <1>0 DEF PackageInv, PostgresIdle
<1>2. CASE DeleteRemoves(r)
  <2>1. /\ Goto(r, "sweep") /\ UNCHANGED <<versions, shared>>
        /\ pkg' = IF pkg # Absent /\ pkg.id = snap[r].id THEN Absent ELSE pkg
    BY <1>2 DEF DeleteRemoves
  <2>2. Busy' = Busy /\ pc'[r] = "sweep" /\ \A q \in Busy \ {r} : pc'[q] = pc[q]
    BY <1>0, <2>1, BusyStep, Moves DEF MetadataSteps, PackageSteps, MetadataInv, Busy
  <2>3. OverlapsShared'
    BY <1>0, <2>1, <2>2 DEF PackageInv, OverlapsShared
  <2>4. PublishHolds'
    BY <1>0, <2>1, <2>2 DEF PackageInv, OverlapsShared, PublishHolds
  <2>5. LatestOrComing'
    BY <1>0, <2>1, <2>2 DEF PackageInv, LatestOrComing, VersionsOf
  <2>6. OrphansOnlyByOverlap'
    BY <1>0, <2>1, <2>2 DEF PackageInv, OrphansOnlyByOverlap
  <2> QED
    BY <1>0, <1>1, <2>3, <2>4, <2>5, <2>6 DEF PackageInv, PostgresIdle
<1>3. ASSUME NEW reached \in BOOLEAN, DeleteSweeps(r, reached) PROVE PackageInv'
  <2>1. /\ Goto(r, "done") /\ pkg' = pkg
        /\ versions' = IF reached THEN {rec \in versions : rec[1] # snap[r].id} ELSE versions
        /\ shared' = IF reached THEN shared ELSE shared \cup {snap[r].id}
        /\ pc[r] = "sweep"
    BY <1>3 DEF DeleteSweeps, Is
  <2>2. Busy' = Busy \ {r} /\ \A q \in Busy \ {r} : pc'[q] = pc[q]
    BY <1>0, <2>1, BusyStep, Moves DEF MetadataSteps, PackageSteps, MetadataInv, Busy
  <2>3. shared \subseteq shared' /\ versions' \subseteq versions
    BY <2>1
  <2>4. OverlapsShared' /\ PublishHolds'
    BY <1>0, <2>1, <2>2, <2>3 DEF PackageInv, OverlapsShared, PublishHolds
  <2>5. LatestOrComing'
    BY <1>0, <2>1, <2>2, <2>3 DEF PackageInv, LatestOrComing, VersionsOf
  <2>6. OrphansOnlyByOverlap'
    BY <1>0, <2>1, <2>2, <2>3 DEF PackageInv, OrphansOnlyByOverlap
  <2> QED
    BY <1>0, <1>1, <2>4, <2>5, <2>6 DEF PackageInv, PostgresIdle
<1> QED
  BY <1>2, <1>3

LEMMA PackageInvariant == SpecMetadata => []PackageInv
<1>1. MetadataInv /\ PackageInv /\ [NextMetadata]_metadataVars => PackageInv'
  <2> SUFFICES ASSUME MetadataInv, PackageInv, [NextMetadata]_metadataVars PROVE PackageInv'
    OBVIOUS
  <2>1. CASE UNCHANGED metadataVars
    <3>1. UNCHANGED <<work, backend, pc, snap, pkg, versions, shared>> /\ Busy' = Busy
      BY <2>1 DEF metadataVars, packages, Busy
    <3> QED
      BY <3>1 DEF PackageInv, PostgresIdle, OverlapsShared, PublishHolds, LatestOrComing,
                  VersionsOf, OrphansOnlyByOverlap
  <2>2. ASSUME NEW r \in Requests, OrgAuthorizes(r) \/ OrgReads(r) \/ SetMembers(r)
        PROVE  PackageInv'
    <3>1. r \notin Busy /\ UNCHANGED <<work, backend, packages>>
      BY <2>2 DEF OrgAuthorizes, OrgReads, SetMembers, Busy
    <3>2. PICK s \in {"read", "write", "done", "failed"} : Goto(r, s)
      BY <2>2 DEF OrgAuthorizes, OrgReads, SetMembers
    <3>3. \A q \in Requests \ {r} : snap'[q] = snap[q]
      BY <2>2 DEF OrgAuthorizes, OrgReads, SetMembers, MetadataInv, MetadataType
    <3> QED
      BY <3>1, <3>2, <3>3, PackagesFrame DEF MetadataSteps, PackageSteps
  <2>3. ASSUME NEW r \in Requests,
               \/ CreatePackage(r) \/ UpdatePackageVisibility(r)
               \/ PublishFinds(r) \/ PublishInserts(r)
               \/ \E reached \in BOOLEAN : PublishUpdates(r, reached) \/ DeleteSweeps(r, reached)
               \/ DeleteCascades(r) \/ DeleteFinds(r) \/ DeleteRemoves(r)
        PROVE  PackageInv'
    BY <2>3, PackageSingle, PackageFinds, PackageInserts, PackageUpdates, PackageDeletes
  <2> QED
    BY <2>1, <2>2, <2>3 DEF NextMetadata
<1> QED
  BY <1>1, PackageInit, MetadataTypeCorrect, PTL DEF SpecMetadata

(* PublishPackageVersion keeps the latest version the newest one, however  *)
(* requests interleave, unless two of them overlap on the package or its   *)
(* update is lost.                                                         *)
THEOREM LatestKeptNewest == SpecMetadata => []LatestIsNewest
<1>1. PackageInv => LatestIsNewest
  BY DEF PackageInv, LatestOrComing, LatestIsNewest
<1> QED
  BY <1>1, PackageInvariant, PTL

(* DeletePackage leaves versions behind only when it overlaps with another *)
(* request on the package or its second write is lost.                     *)
THEOREM OrphansExplained == SpecMetadata => []OrphansOnlyByOverlap
<1>1. PackageInv => OrphansOnlyByOverlap
  BY DEF PackageInv
<1> QED
  BY <1>1, PackageInvariant, PTL

-----------------------------------------------------------------------------
(* Organizations                                                           *)

(* Whoever may be dropped leaves an owner behind.                          *)
LEMMA DropKeepsOwner ==
    ASSUME NEW list \in MemberLists, NEW u \in Users, MayDrop(list, u), Owners(list) # {}
    PROVE  Owners([list EXCEPT ![u] = Absent]) # {}
<1>1. CASE list[u] # "owner"
  BY <1>1 DEF Owners, MemberLists
<1>2. CASE list[u] = "owner"
  <2>1. ~(Cardinality(Owners(list)) <= 1) /\ u \in Owners(list)
    BY <1>2 DEF MayDrop, Owners
  <2>2. IsFiniteSet(Owners(list)) /\ Cardinality(Owners(list)) \in Nat
    BY PeopleAssumption, FS_Subset, FS_CardinalityType DEF Owners
  <2>3. Cardinality(Owners(list) \ {u}) = Cardinality(Owners(list)) - 1
    BY <2>1, <2>2, FS_RemoveElement
  <2>4. Owners(list) \ {u} # {}
    BY <2>1, <2>2, <2>3, FS_EmptySet
  <2>5. PICK w \in Users \ {u} : list[w] = "owner"
    BY <2>4 DEF Owners
  <2> QED
    BY <2>5 DEF Owners, MemberLists
<1> QED
  BY <1>1, <1>2

LEMMA OrgInit == InitMetadata => OrgInv
<1> SUFFICES ASSUME InitMetadata PROVE OrgInv
  OBVIOUS
<1>1. \A r \in Requests : pc[r] # "write"
  BY DEF InitMetadata
<1>2. Founder \in Owners(members)
  BY PeopleAssumption DEF InitMetadata, Owners
<1> QED
  BY <1>1, <1>2 DEF OrgInv, MembersHeld, DropAllowed, OwnerlessOnlyByDemotionOrOverlap

(* A step that does not touch the members, by a request that does not get  *)
(* ready to write them.                                                    *)
LEMMA OrgFrame ==
    ASSUME MetadataInv, OrgInv, NEW r \in Requests, NEW s \in MetadataSteps \ {"write"},
           Goto(r, s), UNCHANGED <<work, org>>, \A q \in Requests \ {r} : snap'[q] = snap[q]
    PROVE  OrgInv'
<1>1. UNCHANGED <<members, orgShared, demoted>>
  BY DEF org
<1>2. \A q \in Requests : pc'[q] = "write" => q # r /\ pc[q] = "write" /\ snap'[q] = snap[q]
  BY Moves DEF MetadataInv
<1>3. MembersHeld'
  BY <1>1, <1>2 DEF OrgInv, MembersHeld
<1>4. DropAllowed'
  BY <1>2 DEF OrgInv, DropAllowed
<1>5. OwnerlessOnlyByDemotionOrOverlap'
  BY <1>1 DEF OrgInv, OwnerlessOnlyByDemotionOrOverlap
<1> QED
  BY <1>3, <1>4, <1>5 DEF OrgInv

LEMMA OrgReadStep ==
    ASSUME MetadataInv, OrgInv, NEW r \in Requests, OrgReads(r)
    PROVE  OrgInv'
<1>1. /\ pc[r] = "read" /\ snap' = [snap EXCEPT ![r] = members] /\ UNCHANGED <<work, members, demoted>>
      /\ orgShared' = (orgShared \/ \E q \in Requests : pc[q] = "write")
      /\ Goto(r, IF work[r].op = "drop" /\ ~MayDrop(members, work[r].user) THEN "failed" ELSE "write")
  BY DEF OrgReads
<1>2. snap'[r] = members /\ \A q \in Requests \ {r} : snap'[q] = snap[q]
  BY <1>1 DEF MetadataInv, MetadataType
<1>3. /\ \A q \in Requests \ {r} : pc'[q] = pc[q]
      /\ pc'[r] = "write" /\ work[r].op = "drop" => MayDrop(members, work[r].user)
  BY <1>1 DEF Goto, MetadataInv, MetadataType
<1>4. MembersHeld'
  BY <1>1, <1>2, <1>3 DEF MembersHeld
<1>5. DropAllowed'
  BY <1>1, <1>2, <1>3 DEF OrgInv, DropAllowed
<1>6. OwnerlessOnlyByDemotionOrOverlap'
  BY <1>1 DEF OrgInv, OwnerlessOnlyByDemotionOrOverlap
<1> QED
  BY <1>4, <1>5, <1>6 DEF OrgInv

LEMMA OrgWriteStep ==
    ASSUME MetadataInv, OrgInv, NEW r \in Requests, SetMembers(r)
    PROVE  OrgInv'
<1> DEFINE u == work[r].user
<1>1. /\ pc[r] = "write" /\ UNCHANGED <<work, snap, orgShared>> /\ Goto(r, "done")
      /\ members' = [snap[r] EXCEPT ![u] = IF work[r].op = "add" THEN work[r].role ELSE Absent]
      /\ demoted' = (demoted \/ (work[r].op = "add" /\ work[r].role # "owner" /\ snap[r][u] = "owner"))
  BY DEF SetMembers
<1>2. /\ work[r].op \in {"add", "drop"} /\ work[r] \in PackageWork \cup OrgWork
      /\ snap[r] \in MemberLists
  BY <1>1 DEF MetadataInv, MetadataType, InHand
<1>3. u \in Users
  BY <1>2, WorkFields
<1>4. \A q \in Requests : pc'[q] = "write" => q # r /\ pc[q] = "write"
  BY <1>1, Moves DEF MetadataInv, MetadataSteps
<1>5. MembersHeld'
  BY <1>1, <1>4 DEF OrgInv, MembersHeld
<1>6. DropAllowed'
  BY <1>1, <1>4 DEF OrgInv, DropAllowed
<1>7. OwnerlessOnlyByDemotionOrOverlap'
  <2> SUFFICES ASSUME ~demoted', ~orgShared' PROVE Owners(members') # {}
    BY DEF OwnerlessOnlyByDemotionOrOverlap, Owners
  <2>1. snap[r] = members /\ Owners(members) # {}
    BY <1>1 DEF OrgInv, MembersHeld, OwnerlessOnlyByDemotionOrOverlap
  <2>2. CASE work[r].op = "drop"
    <3>1. MayDrop(snap[r], u)
      BY <1>1, <2>2 DEF OrgInv, DropAllowed
    <3> QED
      BY <1>1, <1>2, <1>3, <2>1, <2>2, <3>1, DropKeepsOwner
  <2>3. CASE work[r].op = "add"
    <3>1. members' = [snap[r] EXCEPT ![u] = work[r].role]
      BY <1>1, <2>3
    <3>2. PICK w \in Users : snap[r][w] = "owner"
      BY <2>1 DEF Owners
    <3>3. w = u => work[r].role = "owner"
      BY <1>1, <2>3, <3>2
    <3>4. members'[w] = "owner"
      BY <1>2, <1>3, <3>1, <3>2, <3>3 DEF MemberLists
    <3> QED
      BY <3>4 DEF Owners
  <2> QED
    BY <1>2, <2>2, <2>3
<1> QED
  BY <1>5, <1>6, <1>7 DEF OrgInv

(* RemoveOrganizationMember never removes the last owner: an organization  *)
(* is without one only after a demotion or two changes at once.            *)
THEOREM OwnersExplained == SpecMetadata => []OwnerlessOnlyByDemotionOrOverlap
<1>1. MetadataInv /\ OrgInv /\ [NextMetadata]_metadataVars => OrgInv'
  <2> SUFFICES ASSUME MetadataInv, OrgInv, [NextMetadata]_metadataVars PROVE OrgInv'
    OBVIOUS
  <2>1. CASE UNCHANGED metadataVars
    BY <2>1 DEF metadataVars, org, OrgInv, MembersHeld, DropAllowed,
                OwnerlessOnlyByDemotionOrOverlap, MayDrop, Owners
  <2>2. ASSUME NEW r \in Requests, OrgReads(r) \/ SetMembers(r) PROVE OrgInv'
    BY <2>2, OrgReadStep, OrgWriteStep
  <2>3. ASSUME NEW r \in Requests,
               \/ CreatePackage(r) \/ UpdatePackageVisibility(r)
               \/ PublishFinds(r) \/ PublishInserts(r)
               \/ \E reached \in BOOLEAN : PublishUpdates(r, reached) \/ DeleteSweeps(r, reached)
               \/ DeleteCascades(r) \/ DeleteFinds(r) \/ DeleteRemoves(r) \/ OrgAuthorizes(r)
        PROVE  OrgInv'
    <3>1. UNCHANGED <<work, org>>
      BY <2>3 DEF CreatePackage, UpdatePackageVisibility, PublishFinds, PublishInserts,
                  PublishUpdates, DeleteSweeps, DeleteCascades, DeleteFinds, DeleteRemoves,
                  OrgAuthorizes
    <3>2. \E s \in PackageSteps \cup {"read", "done", "failed"} : Goto(r, s)
      BY <2>3 DEF CreatePackage, UpdatePackageVisibility, PublishFinds, PublishInserts,
                  PublishUpdates, DeleteSweeps, DeleteCascades, DeleteFinds, DeleteRemoves,
                  OrgAuthorizes, Finds, PackageSteps
    <3>3. \A q \in Requests \ {r} : snap'[q] = snap[q]
      BY <2>3 DEF CreatePackage, UpdatePackageVisibility, PublishFinds, PublishInserts,
                  PublishUpdates, DeleteSweeps, DeleteCascades, DeleteFinds, DeleteRemoves,
                  OrgAuthorizes, Finds, MetadataInv, MetadataType
    <3>4. PICK s \in PackageSteps \cup {"read", "done", "failed"} : Goto(r, s)
      BY <3>2
    <3>5. s \in MetadataSteps \ {"write"}
      BY DEF MetadataSteps, PackageSteps
    <3> QED
      BY <3>1, <3>3, <3>4, <3>5, OrgFrame
  <2> QED
    BY <2>1, <2>2, <2>3 DEF NextMetadata
<1>2. OrgInv => OwnerlessOnlyByDemotionOrOverlap
  BY DEF OrgInv
<1> QED
  BY <1>1, <1>2, OrgInit, MetadataTypeCorrect, PTL DEF SpecMetadata
=============================================================================
