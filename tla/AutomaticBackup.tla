--------------------------- MODULE AutomaticBackup ---------------------------
(***************************************************************************)
(* Scheduled and manual backups into a blob container: under a lease, an   *)
(* immutable archive, an append-only record of the run, the pointer to the *)
(* latest archive and one anchor for each month are written one after the  *)
(* other.  A run may fail or die between any two of them, and go on after  *)
(* it lost its lease; the next run repairs what it finds.  The storage     *)
(* account deletes archives by age and tag.                                *)
(*                                                                         *)
(* Abstracted: hashes and sizes (an archive is what it holds), the ages at *)
(* which run records (90 days) and anchors (370) are deleted, old versions *)
(* of blobs.  The reads of recover_latest and of reconcile_monthly_anchors *)
(* are one step each with the writes of pointer and anchors that they      *)
(* decide; any of the reads may fail for the moment.  Tags are written     *)
(* blob by blob.                                                           *)
(***************************************************************************)
EXTENDS UserData, FiniteSets, FiniteSetsExt

CONSTANTS Backups,      \* bound: runs of the job and of the script, each once
          First,        \* the one of them that was made before
          LastDay,      \* bound on the days
          MonthLength,  \* days
          Retention,    \* dailyRetentionDays
          KeepMonths,   \* keep_months
          MaxMisreads   \* bound: archives on record that could not be read for the moment

ASSUME BackupAssumption ==
    /\ First \in Backups
    /\ LastDay \in Nat \ {0}
    /\ MonthLength \in Nat \ {0}
    /\ Retention \in Nat
    /\ KeepMonths \in Nat \ {0}
    /\ MaxMisreads \in Nat

(* What a run records, and writes to latest.json and to the anchors.        *)
Values ==
    [id : Backups, path : Backups, state : {"UPLOADED", "NO_CHANGE"},
     content : [Items -> Contents \cup {None}], completed : Nat, month : Nat]

ASSUME NoneAssumption == None \notin Values

VARIABLES
    backup,     \* run -> what its process holds
    lease,      \* holder of the lease, or None
    archives,   \* runs whose archive exists -> its content, day and tag
    runs,       \* run records
    latest,     \* latest.json
    anchors,    \* month -> its anchor
    control,    \* days whose scheduled run is done
    day,
    clock,      \* completed_at_utc
    settled,    \* a run that could read everything ended well, none has begun since
    overlapped, \* did a run begin while another one was under way?
    guarded,    \* archives tagged for an anchor; until they are untagged unnamed
    misreads,   \* archives on record that could not be read for the moment
    blinded     \* runs under way that could not read one of them

blobVars == <<archives, runs, latest, anchors, control>>

ghostVars == <<settled, overlapped, guarded, misreads, blinded>>

backupVars == <<backup, lease, blobVars, day, clock, ghostVars>>

Month(d) == (d - 1) \div MonthLength + 1

Resting == [phase |-> "idle"]

Ended == [phase |-> "done"]

Content == [i \in Items |-> IF data[i] = None THEN None ELSE data[i].content]

Earlier ==
    [id |-> First, path |-> First, state |-> "UPLOADED", content |-> Content,
     completed |-> 0, month |-> 1]

(* A container in use: one complete archive was made before.               *)
BackupInit ==
    /\ backup = [b \in Backups |-> IF b = First THEN Ended ELSE Resting]
    /\ lease = None
    /\ archives = [b \in {First} |-> [completed |-> 0, day |-> 1, tag |-> "monthly"]]
    /\ runs = {Earlier}
    /\ latest = Earlier
    /\ anchors = [m \in {1} |-> Earlier]
    /\ control = {}
    /\ day = 1
    /\ clock = 0
    /\ settled = TRUE
    /\ overlapped = FALSE
    /\ guarded = {First}
    /\ misreads = 0
    /\ blinded = {}

In(b, phase) == backup[b].phase = phase

UnderWay(b) == backup[b].phase \notin {"idle", "started", "done"}

Go(b, phase) == backup' = [backup EXCEPT ![b].phase = phase]

(* What _verified_candidate can find: its archive exists.                  *)
Verified(value) == value # None /\ value.path \in DOMAIN archives

(* Whatever else goes wrong in _verified_candidate is no candidate either: *)
(* the values whose archive b cannot read for the moment.  What pointer    *)
(* and anchors hold is a run record as well and read twice, so that only   *)
(* a value that fails each time is missing.                                *)
Hides(b, hidden) ==
    /\ hidden \subseteq {u \in runs : Verified(u)}
    /\ misreads + Cardinality(hidden) <= MaxMisreads
    /\ misreads' = misreads + Cardinality(hidden)
    /\ blinded' = IF hidden = {} THEN blinded ELSE blinded \cup {b}

Later(v, w) == w = None \/ v.completed > w.completed

Newest(S) == CHOOSE v \in S : \A w \in S : w.completed <= v.completed

--------------------------------------------------------------------------
(* A scheduled run reads first whether its day is done.                    *)
Start(b, scheduled, onlyIfChanged) ==
    /\ In(b, "idle")
    /\ scheduled => onlyIfChanged /\ day \notin control
    /\ backup' = [backup EXCEPT ![b] =
                     [phase |-> "started", scheduled |-> scheduled, only |-> onlyIfChanged]]
    /\ UNCHANGED <<lease, blobVars, day, clock, ghostVars>>

(* The lease, or ALREADY_RUNNING.                                          *)
Acquire(b) ==
    /\ In(b, "started")
    /\ IF lease = None
       THEN /\ lease' = b
            /\ Go(b, "leased")
            /\ settled' = FALSE
            /\ overlapped' = (overlapped \/ \E c \in Backups : UnderWay(c))
       ELSE /\ backup' = [backup EXCEPT ![b] = Ended]
            /\ UNCHANGED <<lease, settled, overlapped>>
    /\ UNCHANGED <<blobVars, day, clock, guarded, misreads, blinded>>

Uploaded == {u \in runs : u.state = "UPLOADED" /\ Verified(u)}

(* recover_latest: the newest archive that a pointer or a record names and *)
(* that can be read; a pointer whose archive cannot be is overwritten.     *)
RecoverLatest(b, hidden) ==
    /\ In(b, "leased")
    /\ Hides(b, hidden)
    /\ LET candidates == (Uploaded \cup {v \in {latest} : Verified(v)}) \ hidden
           best == IF candidates = {} THEN None ELSE Newest(candidates)
       IN  /\ latest' = IF best # None /\ (latest \notin candidates \/ Later(best, latest))
                        THEN best ELSE latest
           /\ backup' = [backup EXCEPT ![b] =
                            [phase |-> "recovered", scheduled |-> @.scheduled, only |-> @.only,
                             latest |-> IF best = None THEN None ELSE latest']]
    /\ UNCHANGED <<lease, archives, runs, anchors, control, day, clock, settled, overlapped, guarded>>

(* preview and export: what the documents are now.                         *)
Export(b) ==
    /\ In(b, "recovered")
    /\ LET held == backup[b].latest
           same == held # None /\ held.content = Content
           unchanged == same /\ backup[b].only
       IN  backup' = [backup EXCEPT ![b] =
               [phase |-> IF unchanged THEN "uploaded" ELSE "exported",
                scheduled |-> @.scheduled,
                value |-> [id |-> b, path |-> IF unchanged THEN held.path ELSE b,
                           state |-> IF unchanged THEN "NO_CHANGE" ELSE "UPLOADED",
                           content |-> Content, completed |-> clock + 1,
                           month |-> Month(day)]]]
    /\ clock' = clock + 1
    /\ UNCHANGED <<lease, blobVars, day, ghostVars>>

Value(b) == backup[b].value

(* upload_immutable and verify_archive *)
Upload(b) ==
    /\ In(b, "exported")
    /\ archives' = [c \in DOMAIN archives \cup {b} |->
                       IF c = b THEN [completed |-> Value(b).completed, day |-> day, tag |-> "daily"]
                       ELSE archives[c]]
    /\ Go(b, "uploaded")
    /\ UNCHANGED <<lease, runs, latest, anchors, control, day, clock, ghostVars>>

(* write_run *)
WriteRun(b) ==
    /\ In(b, "uploaded")
    /\ runs' = runs \cup {Value(b)}
    /\ Go(b, IF Value(b).state = "UPLOADED" THEN "recorded" ELSE "anchored")
    /\ UNCHANGED <<lease, archives, latest, anchors, control, day, clock, ghostVars>>

LastWriterWins(b) ==                           \* mutant
    /\ In(b, "recorded")
    /\ latest' = Value(b)
    /\ Go(b, "published")
    /\ UNCHANGED <<lease, archives, runs, anchors, control, day, clock, ghostVars>>

(* update_latest: read, compared and replaced under its ETag.              *)
UpdateLatest(b) ==
    /\ In(b, "recorded")
    /\ latest' = IF Later(Value(b), latest) THEN Value(b) ELSE latest
    /\ Go(b, "published")
    /\ UNCHANGED <<lease, archives, runs, anchors, control, day, clock, ghostVars>>

Anchor(as, m) == IF m \in DOMAIN as THEN as[m] ELSE None

(* write_monthly_anchor: only ever by a later run.                         *)
Anchored(as, m, value) ==
    IF Later(value, Anchor(as, m))
    THEN [n \in DOMAIN as \cup {m} |-> IF n = m THEN value ELSE as[n]]
    ELSE as

WriteMonthlyAnchor(b) ==
    /\ In(b, "published")
    /\ anchors' = Anchored(anchors, Month(day), Value(b))
    /\ Go(b, "anchored")
    /\ UNCHANGED <<lease, archives, runs, latest, control, day, clock, ghostVars>>

(* What may anchor a month: its anchor, and every run of the month, also   *)
(* one that found nothing to change and names an older archive.            *)
Candidates(m, hidden) ==
    {v \in {Anchor(anchors, m)} \cup {u \in runs : u.month = m} : Verified(v)} \ hidden

(* reconcile_monthly_anchors: the newest months stay, each with its newest *)
(* candidate, and every other anchor goes.  An anchor is only ever         *)
(* replaced by a later run's, but the archive that is kept is the newest   *)
(* candidate's...                                                          *)
ReconcileAnchors(b, hidden) ==
    /\ In(b, "anchored")
    /\ Hides(b, hidden)
    /\ LET months == {m \in 1 .. Month(LastDay) : Candidates(m, hidden) # {}}
           live   == {m \in months : Cardinality({n \in months : n > m}) < KeepMonths}
       IN  /\ anchors' = [m \in live |->
                             Anchored(anchors, m, Newest(Candidates(m, hidden)))[m]]
           /\ backup' = [backup EXCEPT ![b] =
                            [phase |-> "reconciled", scheduled |-> @.scheduled, value |-> @.value,
                             keep |-> {Newest(Candidates(m, hidden)).path : m \in live}]]
    /\ guarded' = guarded \ {v.path : v \in hidden}
    /\ UNCHANGED <<lease, archives, runs, latest, control, day, clock, settled, overlapped>>

(* ...then the archives are listed...                                      *)
ListArchives(b) ==
    /\ In(b, "reconciled")
    /\ backup' = [backup EXCEPT ![b] =
                     [phase |-> "tagging", scheduled |-> @.scheduled, value |-> @.value, keep |-> @.keep,
                      todo |-> [c \in DOMAIN archives |-> archives[c].completed]]]
    /\ UNCHANGED <<lease, blobVars, day, clock, ghostVars>>

Named(c) == \E m \in DOMAIN anchors : anchors[m].path = c

Tag(b, c, tag) ==
    /\ In(b, "tagging")
    /\ c \in DOMAIN backup[b].todo /\ c \in DOMAIN archives
    /\ \A d \in DOMAIN backup[b].todo : backup[b].todo[c] <= backup[b].todo[d]
    /\ archives' = [archives EXCEPT ![c].tag = tag]
    /\ backup' = [backup EXCEPT ![b].todo = [d \in DOMAIN @ \ {c} |-> @[d]]]
    /\ guarded' = CASE tag = "monthly" -> guarded \cup {c}
                     [] tag = "daily" -> IF Named(c) THEN guarded ELSE guarded \ {c}
    /\ UNCHANGED <<lease, runs, latest, anchors, control, day, clock, settled, overlapped, misreads, blinded>>

NewestOnly(b, c) ==                            \* mutant
    Tag(b, c, IF c = Value(b).path THEN "monthly" ELSE "daily")

(* ...and tagged one after the other, the older first, as monthly if they  *)
(* are to be kept.  A listed archive that is gone fails the run.           *)
SetTag(b, c) == Tag(b, c, IF c \in backup[b].keep THEN "monthly" ELSE "daily")

(* The day of a scheduled run is done, unless another run did it; then     *)
(* the health, and the lease is released.                                  *)
Finish(b) ==
    /\ In(b, "tagging")
    /\ DOMAIN backup[b].todo = {}
    /\ backup[b].scheduled => day \notin control
    /\ control' = IF backup[b].scheduled THEN control \cup {day} ELSE control
    /\ backup' = [backup EXCEPT ![b] = Ended]
    /\ lease' = IF lease = b THEN None ELSE lease
    /\ settled' = (b \notin blinded)
    /\ blinded' = blinded \ {b}
    /\ UNCHANGED <<archives, runs, latest, anchors, day, clock, overlapped, guarded, misreads>>

(* Any call raises, perhaps after it was applied: FAILED, and the lease is *)
(* released.                                                               *)
Fail(b) ==
    /\ UnderWay(b)
    /\ backup' = [backup EXCEPT ![b] = Ended]
    /\ lease' = IF lease = b THEN None ELSE lease
    /\ blinded' = blinded \ {b}
    /\ UNCHANGED <<blobVars, day, clock, settled, overlapped, guarded, misreads>>

(* The replica is stopped, perhaps at its time-out; the lease stays.       *)
Crash(b) ==
    /\ UnderWay(b)
    /\ backup' = [backup EXCEPT ![b] = Ended]
    /\ blinded' = blinded \ {b}
    /\ UNCHANGED <<lease, blobVars, day, clock, settled, overlapped, guarded, misreads>>

(* The lease ends a minute after its last renewal: its holder died, or the *)
(* renewing thread did, which the run does not notice.                     *)
LeaseEnds ==
    /\ lease # None
    /\ lease' = None
    /\ UNCHANGED <<backup, blobVars, day, clock, ghostVars>>

(* No run lives longer than the replica's time-out of 30 minutes.          *)
NextDay ==
    /\ day < LastDay
    /\ \A b \in Backups : ~UnderWay(b) /\ ~In(b, "started")
    /\ lease = None
    /\ day' = day + 1
    /\ UNCHANGED <<backup, lease, blobVars, clock, ghostVars>>

(* The life-cycle rule of the storage account.                             *)
LifecycleDeletes(b) ==
    /\ b \in DOMAIN archives
    /\ archives[b].tag = "daily"
    /\ day - archives[b].day > Retention
    /\ archives' = [c \in DOMAIN archives \ {b} |-> archives[c]]
    /\ UNCHANGED <<backup, lease, runs, latest, anchors, control, day, clock, ghostVars>>

BackupStep(b) ==
    \/ \E scheduled, only \in BOOLEAN : Start(b, scheduled, only)
    \/ Acquire(b)
    \/ \E hidden \in SUBSET runs : RecoverLatest(b, hidden)
    \/ Export(b)
    \/ Upload(b)
    \/ WriteRun(b)
    \/ UpdateLatest(b)
    \/ WriteMonthlyAnchor(b)
    \/ \E hidden \in SUBSET runs : ReconcileAnchors(b, hidden)
    \/ ListArchives(b)
    \/ \E c \in Backups : SetTag(b, c)
    \/ Finish(b)
    \/ Fail(b)
    \/ Crash(b)
    \/ LifecycleDeletes(b)

BackupNext ==
    \/ \E b \in Backups : BackupStep(b)
    \/ LeaseEnds
    \/ NextDay

(* The backups among any other processes that write the documents.         *)
BackupSpec ==
    BackupInit /\ [][BackupNext]_backupVars /\ [](data \in [Items -> Documents \cup {None}])

--------------------------------------------------------------------------
(* latest.json never goes back to an earlier archive, also when two runs   *)
(* overlap after a lost lease and finish in the other order; except from   *)
(* an archive that is gone, or that the run cannot read for the moment: in *)
(* that case the pointer does go back, to the newest one that it can read. *)
LatestNeverBack ==
    [][latest # None /\ latest' # latest =>
          \/ latest'.completed > latest.completed
          \/ ~Verified(latest)
          \/ misreads' > misreads]_<<latest, archives, misreads>>

(* deployment.md: the life-cycle rule cannot delete an archive protected   *)
(* by an anchor.  That is cooperative: an archive that a run tagged for an *)
(* anchor is there for as long as an anchor names it, whatever later runs  *)
(* upload, anchor, tag, leave undone or fail at, one after the other.  Not *)
(* claimed: an anchor that has moved on to an archive whose tag a run did  *)
(* not get to write, the old one being untagged first; and an archive that *)
(* a run could not read when it chose what to keep, which it untags.       *)
AnchorsStand ==
    ~overlapped =>
        \A m \in DOMAIN anchors : anchors[m].path \in guarded => Verified(anchors[m])

(* A run that can read what is there and ends well, with no other beside   *)
(* it, leaves everything repaired, whatever the runs before it left undone *)
(* or could not read: the pointer names the newest archive on record, an   *)
(* anchor names that one as well, and whatever anchors name is tagged; as  *)
(* long as the archives are there.                                         *)
Recovered ==
    settled /\ ~overlapped =>
        /\ latest # None
        /\ Verified(latest) =>
            /\ \A u \in Uploaded : u.completed <= latest.completed
            /\ Named(latest.path)
        /\ \A m \in DOMAIN anchors :
              Verified(anchors[m]) => archives[anchors[m].path].tag = "monthly"

(* Whatever runs were left undone, what is protected stays, and a run that *)
(* ends well protects the newest archive, and every anchor's, again.       *)
ArchivesProtected == AnchorsStand /\ Recovered
=============================================================================
