--------------------------- MODULE Backups_proofs ---------------------------
(***************************************************************************)
(* Theorems of automatic backups and of imports, for any documents, runs,  *)
(* days, imports and edits.                                                *)
(*                                                                         *)
(* Backups: latest.json goes back only from an archive that cannot be      *)
(* read; a run that reads everything and ends well leaves everything       *)
(* repaired; the archives that anchors protect stay.                       *)
(* Imports: a journal that ends ROLLED_BACK is right, and an import takes  *)
(* away no document with a content of its own, nor another import's.       *)
(***************************************************************************)
EXTENDS AutomaticBackup, BackupImport, WellFoundedInduction, FiniteSetTheorems, TLAPS

-----------------------------------------------------------------------------
(* Automatic backups. *)

Archives == [completed : Nat, day : Nat, tag : {"daily", "monthly"}]

Plain == [phase : {"idle", "done"}]
Begun == [phase : {"started", "leased"}, scheduled : BOOLEAN, only : BOOLEAN]
Knowing ==
    [phase : {"recovered"}, scheduled : BOOLEAN, only : BOOLEAN, latest : Values \cup {None}]
Valued ==
    [phase : {"exported", "uploaded", "recorded", "published", "anchored"}, scheduled : BOOLEAN,
     value : Values]
Keeping == [phase : {"reconciled"}, scheduled : BOOLEAN, value : Values, keep : SUBSET Backups]
Listings == UNION {[S -> Nat] : S \in SUBSET Backups}
Tagging ==
    [phase : {"tagging"}, scheduled : BOOLEAN, value : Values, keep : SUBSET Backups,
     todo : Listings]

Holding == Plain \cup Begun \cup Knowing \cup Valued \cup Keeping \cup Tagging

TypeOK ==
    /\ backup \in [Backups -> Holding]
    /\ lease \in Backups \cup {None}
    /\ DOMAIN archives \subseteq Backups /\ archives \in [DOMAIN archives -> Archives]
    /\ runs \subseteq Values
    /\ latest \in Values
    /\ DOMAIN anchors \subseteq Nat /\ anchors \in [DOMAIN anchors -> Values]
    /\ control \subseteq Nat
    /\ day \in 1 .. LastDay /\ clock \in Nat
    /\ settled \in BOOLEAN /\ overlapped \in BOOLEAN
    /\ guarded \subseteq Backups /\ blinded \subseteq Backups /\ misreads \in Nat

(* What is named was recorded, and time has gone on since.                 *)
Stamped ==
    /\ IsFiniteSet(runs)
    /\ \A u \in runs : u.completed <= clock
    /\ latest \in runs
    /\ \A m \in DOMAIN anchors : anchors[m] \in runs
    /\ \A b \in Backups :
          /\ backup[b].phase \in {"exported", "uploaded"} => backup[b].value.completed <= clock
          /\ backup[b].phase \in {"recorded", "published", "anchored"} => backup[b].value \in runs

-----------------------------------------------------------------------------
(* Of the archives as, the records rs and the like, so that a step can     *)
(* speak of them before and after it.                                      *)
Readable(as, rs) == {u \in rs : u.state = "UPLOADED" /\ u.path \in DOMAIN as}

Tagged(as, p) == p \in DOMAIN as /\ as[p].tag = "monthly"

NotBefore(S, v) == \A u \in S : u.completed <= v.completed

Paths(rs) == {u.path : u \in rs}

-----------------------------------------------------------------------------
(* One run at a time.                                                      *)
OneRun == \A b, c \in Backups : UnderWay(b) /\ UnderWay(c) => b = c

(* The records are in the order of their completion and of their months.   *)
Recorded ==
    /\ \A u \in runs : u.month \in 1 .. Month(day)
    /\ \A u, v \in runs : /\ u.completed = v.completed => u = v
                          /\ u.month < v.month => u.completed < v.completed
    /\ latest.state = "UPLOADED"
    /\ \A m \in DOMAIN anchors : anchors[m].month = m
    /\ guarded \subseteq Paths(runs)

(* A run that has recorded nothing has a name of its own.                  *)
Unrecorded(b) ==
    \/ backup[b].phase \in {"idle", "started", "leased", "recovered", "exported"}
    \/ backup[b].phase = "uploaded" /\ backup[b].value.state = "UPLOADED"

FreshNames == \A b \in Backups : Unrecorded(b) => b \notin Paths(runs)

(* What the run under way knows, the more if it could read everything.     *)
Sees(b) == b \notin blinded

HeldOK(b) ==
    In(b, "recovered") =>
        /\ backup[b].latest # None => backup[b].latest = latest
        /\ Sees(b) => IF backup[b].latest = None THEN Readable(archives, runs) = {}
                      ELSE NotBefore(Readable(archives, runs), latest)

ValueOK(b) ==
    backup[b].phase \in {"exported", "uploaded"} =>
        LET v == backup[b].value IN
        /\ v.month = Month(day) /\ v.completed = clock
        /\ \A u \in runs : u.completed < clock
        /\ v.state = "UPLOADED" => v.path = b
        /\ In(b, "exported") => v.state = "UPLOADED"
        /\ v.state = "NO_CHANGE" => v.path \in Paths(runs)
        /\ v.state = "NO_CHANGE" /\ Sees(b) =>
              v.path = latest.path /\ NotBefore(Readable(archives, runs), latest)

RecordedOK(b) ==
    backup[b].phase \in {"recorded", "published"} =>
        LET v == backup[b].value IN
        /\ NotBefore(runs, v)
        /\ v.state = "UPLOADED" /\ v.path = b /\ v.month = Month(day)
        /\ In(b, "published") => latest = v

AnchoredOK(b) ==
    In(b, "anchored") =>
        LET v == backup[b].value IN
        /\ NotBefore(runs, v)
        /\ v.month = Month(day)
        /\ Sees(b) => v.path = latest.path /\ NotBefore(Readable(archives, runs), latest)

(* While it tags: what an anchor names and was tagged before is to be      *)
(* kept, and for a run that could read everything whatever an anchor names *)
(* is; what is to be kept is still listed or tagged.                       *)
TaggingOK(b) ==
    backup[b].phase \in {"reconciled", "tagging"} =>
        /\ backup[b].keep \subseteq Paths(runs)
        /\ \A m \in DOMAIN anchors : anchors[m].path \in guarded => anchors[m].path \in backup[b].keep
        /\ Sees(b) =>
              /\ NotBefore(Readable(archives, runs), latest)
              /\ latest.path \in DOMAIN archives => Named(latest.path)
              /\ \A m \in DOMAIN anchors :
                    anchors[m].path \in DOMAIN archives => anchors[m].path \in backup[b].keep
        /\ In(b, "tagging") =>
              \A c \in backup[b].keep \cap DOMAIN archives :
                 c \in DOMAIN backup[b].todo \/ Tagged(archives, c)

RunOK(b) == HeldOK(b) /\ ValueOK(b) /\ RecordedOK(b) /\ AnchoredOK(b) /\ TaggingOK(b)

Settled == settled => (\A b \in Backups : ~UnderWay(b))

(* What is guarded is tagged, and the life-cycle rule leaves it alone.     *)
Guarded == \A c \in guarded : Tagged(archives, c)

Alone ==
    /\ OneRun /\ Recorded /\ FreshNames /\ Settled /\ Recovered /\ Guarded
    /\ \A b \in Backups : RunOK(b)

IInv == TypeOK /\ Stamped /\ (~overlapped => Alone)

-----------------------------------------------------------------------------
(* Days, months, and the last of a set of either.                          *)
LEMMA NatMax ==
    ASSUME NEW n \in Nat, NEW S \in SUBSET (0 .. n), S # {}
    PROVE  \E x \in S : \A y \in S : y <= x
<1> DEFINE R == {ss \in Nat \X Nat : ss[1] < ss[2]}
<1> DEFINE T == {n - x : x \in S}
<1>1. IsWellFoundedOn(R, Nat)  BY NatLessThanWellFounded, Zenon DEF OpToRel
<1> HIDE DEF R
<1>2. \A x \in S : x \in Nat /\ n - x \in Nat  OBVIOUS
<1>3. T \in SUBSET Nat /\ T # {}  BY <1>2, Zenon
<1> HIDE DEF T
<1>4. PICK t \in T : \A y \in T : ~(<<y, t>> \in R)  BY <1>1, <1>3, WFMin
<1>5. \A y \in T : y < t => <<y, t>> \in R  BY <1>3 DEF R
<1>6. \A y \in T : ~(y < t)  BY <1>4, <1>5, Zenon
<1>7. \A y \in T : t <= y  BY <1>3, <1>6
<1>8. PICK x \in S : t = n - x  BY DEF T
<1>9. \A y \in S : n - y \in T  BY DEF T
<1>10. \A y \in S : n - x <= n - y  BY <1>7, <1>8, <1>9
<1> QED BY <1>2, <1>10

LEMMA NewestIsLast ==
    ASSUME NEW n \in Nat, NEW S \in SUBSET Values, S # {}, \A v \in S : v.completed <= n
    PROVE  Newest(S) \in S /\ NotBefore(S, Newest(S))
<1> DEFINE T == {v.completed : v \in S}
<1>1. T \in SUBSET (0 .. n) /\ T # {}  BY DEF Values
<1>2. PICK x \in T : \A y \in T : y <= x  BY <1>1, NatMax
<1>3. PICK v \in S : v.completed = x  OBVIOUS
<1>4. \A w \in S : w.completed <= v.completed  BY <1>2, <1>3
<1> QED BY <1>4 DEF Newest, NotBefore

LEMMA MonthsFollow ==
    /\ \A d \in Nat \ {0} : Month(d) \in Nat \ {0}
    /\ \A d, e \in Nat \ {0} : d <= e => Month(d) <= Month(e)
<1>1. MonthLength \in Nat \ {0}  BY BackupAssumption
<1>2. ASSUME NEW d \in Nat PROVE d \div MonthLength \in Nat
  BY <1>1
<1>3. \A d \in Nat : /\ MonthLength * (d \div MonthLength) <= d
                    /\ d < MonthLength * (d \div MonthLength) + MonthLength
  BY <1>1
<1>4. \A q, r \in Nat : q >= r + 1 => MonthLength * q >= MonthLength * (r + 1)  BY <1>1
<1>5. \A d, e \in Nat : d <= e => d \div MonthLength <= e \div MonthLength
  BY <1>1, <1>3, <1>4
<1> QED BY <1>2, <1>5 DEF Month

LEMMA Counted ==
    ASSUME NEW S, IsFiniteSet(S), NEW T \in SUBSET S
    PROVE  Cardinality(T) \in Nat /\ (T # {} => Cardinality(T) > 0)
<1>1. IsFiniteSet(T)  BY FS_Subset
<1>2. Cardinality(T) \in Nat  BY <1>1, FS_CardinalityType
<1>3. Cardinality(T) = 0 => T = {}  BY <1>1, FS_EmptySet
<1> QED BY <1>2, <1>3

-----------------------------------------------------------------------------
DataOK == data \in [Items -> Documents \cup {None}]

LEMMA HoldingOf ==
    ASSUME TypeOK, NEW b \in Backups
    PROVE  /\ backup[b].phase \in {"idle", "started", "leased", "recovered", "exported", "uploaded",
                                   "recorded", "published", "anchored", "reconciled", "tagging", "done"}
           /\ backup[b].phase \in {"started", "leased"} => backup[b] \in Begun
           /\ backup[b].phase = "recovered" => backup[b] \in Knowing
           /\ backup[b].phase \in {"exported", "uploaded", "recorded", "published", "anchored"} =>
                 backup[b] \in Valued
           /\ backup[b].phase = "reconciled" => backup[b] \in Keeping
           /\ backup[b].phase = "tagging" => backup[b] \in Tagging
BY DEF TypeOK, Holding, Plain, Begun, Knowing, Valued, Keeping, Tagging

LEMMA ContentType == ASSUME DataOK PROVE Content \in [Items -> Contents \cup {None}]
BY DEF DataOK, Content, Documents

LEMMA NewCandidate ==
    ASSUME TypeOK, Stamped, NEW m \in Nat, NEW hidden, Candidates(m, hidden) # {}
    PROVE  /\ Newest(Candidates(m, hidden)) \in Candidates(m, hidden)
           /\ Candidates(m, hidden) \subseteq runs
           /\ NotBefore(Candidates(m, hidden), Newest(Candidates(m, hidden)))
<1>1. Candidates(m, hidden) \subseteq runs  BY DEF Candidates, Anchor, Verified, Stamped
<1>2. Candidates(m, hidden) \in SUBSET Values /\ \A v \in Candidates(m, hidden) : v.completed <= clock
  BY <1>1 DEF TypeOK, Stamped
<1>3. clock \in Nat  BY DEF TypeOK
<1> QED BY <1>1, <1>2, <1>3, NewestIsLast

LEMMA HidesTypes ==
    ASSUME TypeOK, Stamped, NEW b \in Backups, NEW hidden, Hides(b, hidden)
    PROVE  /\ misreads' \in Nat /\ misreads' >= misreads /\ blinded' \subseteq Backups
           /\ hidden # {} => misreads' > misreads /\ b \in blinded'
           /\ hidden = {} => misreads' = misreads /\ blinded' = blinded
           /\ \A c \in Backups \ {b} : c \in blinded' <=> c \in blinded
<1>1. hidden \subseteq runs /\ IsFiniteSet(runs)  BY DEF Hides, Stamped
<1>2. Cardinality(hidden) \in Nat /\ (hidden # {} => Cardinality(hidden) > 0)
  BY <1>1, Counted
<1>3. misreads \in Nat /\ misreads' = misreads + Cardinality(hidden)  BY DEF Hides, TypeOK
<1>4. blinded' = IF hidden = {} THEN blinded ELSE blinded \cup {b}  BY DEF Hides
<1>5. hidden = {} => Cardinality(hidden) = 0  BY FS_EmptySet
<1> QED BY <1>2, <1>3, <1>4, <1>5 DEF TypeOK

-----------------------------------------------------------------------------
(* The types.                                                              *)
TypeStep == TypeOK' /\ Stamped'

LEMMA StartTypes ==
    ASSUME TypeOK, Stamped, NEW b \in Backups, NEW s \in BOOLEAN, NEW o \in BOOLEAN, Start(b, s, o)
    PROVE  TypeStep
<1>1. [phase |-> "started", scheduled |-> s, only |-> o] \in Holding  BY DEF Holding, Begun
<1> QED BY <1>1 DEF Start, TypeStep, TypeOK, Stamped, blobVars, ghostVars

LEMMA AcquireTypes ==
    ASSUME TypeOK, Stamped, NEW b \in Backups, Acquire(b)
    PROVE  TypeStep
<1>1. [backup[b] EXCEPT !.phase = "leased"] \in Holding /\ Ended \in Holding
  BY HoldingOf DEF Acquire, In, Holding, Plain, Begun, Ended
<1>2. \E x \in Holding : backup' = [backup EXCEPT ![b] = x] /\ x.phase \in {"leased", "done"}
  BY <1>1, HoldingOf DEF Acquire, Go, Ended, Begun, In
<1> QED BY <1>2 DEF Acquire, TypeStep, TypeOK, Stamped, blobVars

LEMMA RecoverLatestTypes ==
    ASSUME TypeOK, Stamped, NEW b \in Backups, NEW hidden, RecoverLatest(b, hidden)
    PROVE  TypeStep
<1> DEFINE candidates == (Uploaded \cup {v \in {latest} : Verified(v)}) \ hidden
           best == IF candidates = {} THEN None ELSE Newest(candidates)
           h == [phase |-> "recovered", scheduled |-> backup[b].scheduled, only |-> backup[b].only,
                 latest |-> IF best = None THEN None ELSE latest']
<1>1. candidates \in SUBSET Values /\ candidates \subseteq runs
      /\ \A v \in candidates : v.completed <= clock
  BY DEF TypeOK, Stamped, Uploaded
<1>2. clock \in Nat  BY DEF TypeOK
<1>3. best # None => best \in runs  BY <1>1, <1>2, NewestIsLast, Zenon
<1>4. latest' \in runs  BY <1>3 DEF RecoverLatest, Stamped
<1>5. h \in Holding
  <2>1. backup[b] \in Begun  BY HoldingOf DEF RecoverLatest, In
  <2>2. latest' \in Values  BY <1>4 DEF TypeOK
  <2> QED BY <2>1, <2>2 DEF Holding, Knowing, Begun
<1>6. backup' = [backup EXCEPT ![b] = h]  BY DEF RecoverLatest
<1> HIDE DEF h
<1>7. h.phase = "recovered"  BY DEF h
<1>8. misreads' \in Nat /\ blinded' \subseteq Backups  BY HidesTypes DEF RecoverLatest
<1> QED BY <1>4, <1>5, <1>6, <1>7, <1>8 DEF RecoverLatest, TypeStep, TypeOK, Stamped

LEMMA ExportTypes ==
    ASSUME TypeOK, Stamped, DataOK, NEW b \in Backups, Export(b)
    PROVE  TypeStep
<1> DEFINE held == backup[b].latest
           unchanged == held # None /\ held.content = Content /\ backup[b].only
           v == [id |-> b, path |-> IF unchanged THEN held.path ELSE b,
                 state |-> IF unchanged THEN "NO_CHANGE" ELSE "UPLOADED",
                 content |-> Content, completed |-> clock + 1, month |-> Month(day)]
           h == [phase |-> IF unchanged THEN "uploaded" ELSE "exported",
                 scheduled |-> backup[b].scheduled, value |-> v]
<1>1. backup[b] \in Knowing  BY HoldingOf DEF Export, In
<1>2. v \in Values
  <2>1. Month(day) \in Nat  BY MonthsFollow DEF TypeOK
  <2>2. clock + 1 \in Nat  BY DEF TypeOK
  <2>3. unchanged => held.path \in Backups  BY <1>1 DEF Knowing, Values
  <2> QED BY <2>1, <2>2, <2>3, ContentType DEF Values
<1>3. h \in Holding
  <2> HIDE DEF v
  <2>1. h \in Valued  BY <1>1, <1>2 DEF Knowing, Valued
  <2> QED BY <2>1 DEF Holding
<1>4. backup' = [backup EXCEPT ![b] = h]  BY Zenon DEF Export
<1>5. h.phase \in {"uploaded", "exported"} /\ h.value.completed = clock + 1  OBVIOUS
<1> HIDE DEF h
<1>6. backup' \in [Backups -> Holding]  BY <1>3, <1>4 DEF TypeOK
<1>7. clock' = clock + 1 /\ clock \in Nat  BY DEF Export, TypeOK
<1>8. TypeOK'  BY <1>6, <1>7 DEF Export, TypeOK, blobVars, ghostVars
<1>9. \A u \in runs : u.completed <= clock'
  BY <1>7 DEF Stamped, TypeOK, Values
<1>10. ASSUME NEW c \in Backups
       PROVE  /\ backup'[c].phase \in {"exported", "uploaded"} => backup'[c].value.completed <= clock'
              /\ backup'[c].phase \in {"recorded", "published", "anchored"} => backup'[c].value \in runs
  <2>1. CASE c = b  BY <2>1, <1>4, <1>5, <1>7 DEF TypeOK
  <2>2. CASE c # b
    <3>1. backup'[c] = backup[c]  BY <1>4, <2>2 DEF TypeOK
    <3>2. backup[c].phase \in {"exported", "uploaded"} => backup[c].value.completed \in Nat
      BY HoldingOf DEF Valued, Values
    <3> QED BY <3>1, <3>2, <1>7 DEF Stamped
  <2> QED BY <2>1, <2>2
<1> QED BY <1>8, <1>9, <1>10 DEF Export, TypeStep, Stamped, blobVars

(* A step of b that only moves it on, with the value it has.               *)
LEMMA Moves ==
    ASSUME TypeOK, NEW b \in Backups, NEW p, Go(b, p),
           backup[b] \in Valued, p \in {"uploaded", "recorded", "published", "anchored"}
    PROVE  /\ backup' \in [Backups -> Holding]
           /\ backup'[b].phase = p /\ backup'[b].value = backup[b].value
           /\ backup'[b].scheduled = backup[b].scheduled
           /\ \A c \in Backups \ {b} : backup'[c] = backup[c]
<1> DEFINE h == [backup[b] EXCEPT !.phase = p]
<1>1. h \in Holding /\ h.phase = p /\ h.value = backup[b].value /\ h.scheduled = backup[b].scheduled
  BY DEF Holding, Valued
<1>2. backup' = [backup EXCEPT ![b] = h]  BY DEF Go, TypeOK
<1> HIDE DEF h
<1> QED BY <1>1, <1>2 DEF TypeOK

LEMMA UploadTypes ==
    ASSUME TypeOK, Stamped, NEW b \in Backups, Upload(b)
    PROVE  TypeStep
<1>1. backup[b] \in Valued /\ Go(b, "uploaded")  BY HoldingOf DEF Upload, In
<1>2. [completed |-> Value(b).completed, day |-> day, tag |-> "daily"] \in Archives
  BY <1>1 DEF Valued, Values, Archives, Value, TypeOK
<1>3. DOMAIN archives' \subseteq Backups /\ archives' \in [DOMAIN archives' -> Archives]
  BY <1>2 DEF Upload, TypeOK
<1>4. backup[b].value.completed <= clock  BY DEF Upload, In, Stamped
<1> QED BY <1>1, <1>3, <1>4, Moves DEF Upload, TypeStep, TypeOK, Stamped, ghostVars

LEMMA WriteRunTypes ==
    ASSUME TypeOK, Stamped, NEW b \in Backups, WriteRun(b)
    PROVE  TypeStep
<1>1. backup[b] \in Valued  BY HoldingOf DEF WriteRun, In
<1>2. PICK p \in {"recorded", "anchored"} : Go(b, p)  BY DEF WriteRun
<1>3. backup[b].value \in Values /\ backup[b].value.completed <= clock
  BY <1>1 DEF WriteRun, In, Stamped, Valued
<1>4. IsFiniteSet(runs')  BY FS_AddElement DEF WriteRun, Stamped
<1> QED BY <1>1, <1>2, <1>3, <1>4, Moves DEF WriteRun, TypeStep, TypeOK, Stamped, ghostVars, Value

LEMMA UpdateLatestTypes ==
    ASSUME TypeOK, Stamped, NEW b \in Backups, UpdateLatest(b)
    PROVE  TypeStep
<1>1. backup[b] \in Valued /\ Go(b, "published")  BY HoldingOf DEF UpdateLatest, In
<1>2. backup[b].value \in runs  BY DEF UpdateLatest, In, Stamped
<1>3. latest' \in runs  BY <1>2 DEF UpdateLatest, Stamped, Value
<1> QED BY <1>1, <1>2, <1>3, Moves DEF UpdateLatest, TypeStep, TypeOK, Stamped, ghostVars

LEMMA AnchoredTypes ==
    ASSUME TypeOK, Stamped, NEW m \in Nat, NEW v \in runs, NEW as, as = Anchored(anchors, m, v)
    PROVE  /\ DOMAIN as = DOMAIN anchors \cup {m}
           /\ as = [n \in DOMAIN as |-> as[n]]
           /\ \A n \in DOMAIN as : as[n] \in runs
           /\ \A n \in DOMAIN as : n # m => (n \in DOMAIN anchors /\ as[n] = anchors[n])
           /\ \/ as[m] = v
              \/ m \in DOMAIN anchors /\ as[m] = anchors[m] /\ ~Later(v, anchors[m])
<1>1. CASE Later(v, Anchor(anchors, m))
  BY <1>1 DEF Anchored, Stamped
<1>2. CASE ~Later(v, Anchor(anchors, m))
  <2>1. m \in DOMAIN anchors /\ Anchor(anchors, m) = anchors[m]  BY <1>2 DEF Later, Anchor
  <2> QED BY <1>2, <2>1 DEF Anchored, Stamped, TypeOK
<1> QED BY <1>1, <1>2

LEMMA WriteMonthlyAnchorTypes ==
    ASSUME TypeOK, Stamped, NEW b \in Backups, WriteMonthlyAnchor(b)
    PROVE  TypeStep
<1>1. backup[b] \in Valued /\ Go(b, "anchored")  BY HoldingOf DEF WriteMonthlyAnchor, In
<1>2. backup[b].value \in runs  BY DEF WriteMonthlyAnchor, In, Stamped
<1>3. PICK m \in Nat : m = Month(day)  BY MonthsFollow DEF TypeOK
<1> DEFINE as == Anchored(anchors, m, Value(b))
<1>6. anchors' = as /\ Value(b) \in runs  BY <1>2, <1>3 DEF WriteMonthlyAnchor, Value
<1> HIDE DEF as
<1>7. as = Anchored(anchors, m, Value(b))  BY DEF as
<1>4. /\ DOMAIN anchors' \subseteq Nat /\ anchors' = [n \in DOMAIN anchors' |-> anchors'[n]]
      /\ \A n \in DOMAIN anchors' : anchors'[n] \in runs
  <2>1. /\ DOMAIN as = DOMAIN anchors \cup {m} /\ as = [n \in DOMAIN as |-> as[n]]
        /\ \A n \in DOMAIN as : as[n] \in runs
    BY ONLY TypeOK, Stamped, <1>6, <1>7, AnchoredTypes, Zenon
  <2>2. DOMAIN as \subseteq Nat  BY <2>1, <1>3 DEF TypeOK
  <2> QED BY <2>1, <2>2, <1>6
<1>5. anchors' \in [DOMAIN anchors' -> Values]  BY <1>4 DEF TypeOK
<1> QED BY <1>1, <1>2, <1>4, <1>5, Moves DEF WriteMonthlyAnchor, TypeStep, TypeOK, Stamped, ghostVars

Months(hidden) == {m \in 1 .. Month(LastDay) : Candidates(m, hidden) # {}}
Live(hidden) ==
    {m \in Months(hidden) : Cardinality({n \in Months(hidden) : n > m}) < KeepMonths}
NewestOf(m, hidden) == Newest(Candidates(m, hidden))
Kept(hidden) == {NewestOf(m, hidden).path : m \in Live(hidden)}

LEMMA LiveMonths ==
    ASSUME TypeOK, Stamped, NEW hidden
    PROVE  /\ Months(hidden) \subseteq 1 .. Month(LastDay) /\ Month(LastDay) \in Nat
           /\ Live(hidden) \subseteq Months(hidden) /\ Live(hidden) \subseteq Nat
           /\ \A m \in Live(hidden) :
                 /\ Candidates(m, hidden) # {} /\ NewestOf(m, hidden) \in runs
                 /\ NewestOf(m, hidden) \in Candidates(m, hidden)
                 /\ NotBefore(Candidates(m, hidden), NewestOf(m, hidden))
           /\ Kept(hidden) \subseteq Paths(runs) /\ Kept(hidden) \subseteq Backups
<1>1. Month(LastDay) \in Nat  BY MonthsFollow, BackupAssumption
<1>2. Months(hidden) \subseteq 1 .. Month(LastDay) /\ Live(hidden) \subseteq Months(hidden)
      /\ Live(hidden) \subseteq Nat
  BY <1>1 DEF Months, Live
<1>3. ASSUME NEW m \in Live(hidden)
      PROVE  /\ Candidates(m, hidden) # {} /\ NewestOf(m, hidden) \in runs
             /\ NewestOf(m, hidden) \in Candidates(m, hidden)
             /\ NotBefore(Candidates(m, hidden), NewestOf(m, hidden))
  <2>1. m \in Nat /\ Candidates(m, hidden) # {}  BY <1>2 DEF Live, Months
  <2> QED BY <2>1, NewCandidate DEF NewestOf
<1>4. Kept(hidden) \subseteq Paths(runs)  BY <1>3 DEF Kept, Paths
<1>5. Paths(runs) \subseteq Backups  BY DEF Paths, TypeOK, Values
<1> QED BY <1>1, <1>2, <1>3, <1>4, <1>5

LEMMA Reconciles ==
    ASSUME TypeOK, Stamped, NEW b \in Backups, NEW hidden, ReconcileAnchors(b, hidden)
    PROVE  /\ DOMAIN anchors' = Live(hidden) /\ anchors' = [m \in Live(hidden) |-> anchors'[m]]
           /\ \A m \in Live(hidden) :
                 \/ anchors'[m] = NewestOf(m, hidden)
                 \/ /\ m \in DOMAIN anchors /\ anchors'[m] = anchors[m]
                    /\ ~Later(NewestOf(m, hidden), anchors[m])
           /\ backup' = [backup EXCEPT ![b] = [phase |-> "reconciled", scheduled |-> backup[b].scheduled,
                                               value |-> backup[b].value, keep |-> Kept(hidden)]]
<1>1. anchors' = [m \in Live(hidden) |-> Anchored(anchors, m, NewestOf(m, hidden))[m]]
  BY Zenon DEF ReconcileAnchors, Live, Months, NewestOf
<1>2. backup' = [backup EXCEPT ![b] = [phase |-> "reconciled", scheduled |-> backup[b].scheduled,
                                       value |-> backup[b].value, keep |-> Kept(hidden)]]
  BY Zenon DEF ReconcileAnchors, Live, Months, Kept, NewestOf
<1>3. ASSUME NEW m \in Live(hidden)
      PROVE  \/ anchors'[m] = NewestOf(m, hidden)
             \/ /\ m \in DOMAIN anchors /\ anchors'[m] = anchors[m]
                /\ ~Later(NewestOf(m, hidden), anchors[m])
  <2>1. m \in Nat  BY LiveMonths
  <2>2. PICK v \in runs : v = NewestOf(m, hidden)  BY LiveMonths
  <2> DEFINE as == Anchored(anchors, m, v)
  <2>3. anchors'[m] = as[m]  BY <1>1, <2>2
  <2> HIDE DEF as
  <2>4. as = Anchored(anchors, m, v)  BY DEF as
  <2>5. \/ as[m] = v
        \/ m \in DOMAIN anchors /\ as[m] = anchors[m] /\ ~Later(v, anchors[m])
    BY ONLY TypeOK, Stamped, <2>1, <2>4, AnchoredTypes, Zenon
  <2> QED BY <2>2, <2>3, <2>5
<1> QED BY <1>1, <1>2, <1>3

LEMMA ReconcileAnchorsTypes ==
    ASSUME TypeOK, Stamped, NEW b \in Backups, NEW hidden, ReconcileAnchors(b, hidden)
    PROVE  TypeStep
<1> DEFINE h == [phase |-> "reconciled", scheduled |-> backup[b].scheduled,
                 value |-> backup[b].value, keep |-> Kept(hidden)]
<1>1. backup[b] \in Valued  BY HoldingOf DEF ReconcileAnchors, In
<1>2. h \in Holding /\ h.phase = "reconciled"  BY <1>1, LiveMonths DEF Valued, Keeping, Holding
<1>3. backup' = [backup EXCEPT ![b] = h]  BY Reconciles
<1> HIDE DEF h
<1>4. DOMAIN anchors' \subseteq Nat /\ anchors' = [m \in DOMAIN anchors' |-> anchors'[m]]
  BY Reconciles, LiveMonths
<1>5. \A m \in DOMAIN anchors' : anchors'[m] \in runs  BY Reconciles, LiveMonths DEF Stamped
<1>6. anchors' \in [DOMAIN anchors' -> Values]  BY <1>4, <1>5 DEF TypeOK
<1>7. misreads' \in Nat /\ blinded' \subseteq Backups  BY HidesTypes DEF ReconcileAnchors
<1>8. guarded' \subseteq Backups  BY DEF ReconcileAnchors, TypeOK
<1> QED
  BY <1>2, <1>3, <1>4, <1>5, <1>6, <1>7, <1>8 DEF ReconcileAnchors, TypeStep, TypeOK, Stamped

LEMMA ListArchivesTypes ==
    ASSUME TypeOK, Stamped, NEW b \in Backups, ListArchives(b)
    PROVE  TypeStep
<1> DEFINE t == [c \in DOMAIN archives |-> archives[c].completed]
           h == [phase |-> "tagging", scheduled |-> backup[b].scheduled, value |-> backup[b].value,
                 keep |-> backup[b].keep, todo |-> t]
<1>1. backup[b] \in Keeping  BY HoldingOf DEF ListArchives, In
<1>2. t \in Listings  BY DEF Listings, TypeOK, Archives
<1>3. backup' = [backup EXCEPT ![b] = h]  BY Zenon DEF ListArchives
<1> HIDE DEF t
<1>4. h \in Holding /\ h.phase = "tagging"  BY <1>1, <1>2 DEF Keeping, Tagging, Holding
<1> HIDE DEF h
<1> QED BY <1>3, <1>4 DEF ListArchives, TypeStep, TypeOK, Stamped, blobVars, ghostVars

(* One archive gets its tag, and is off the list.                          *)
LEMMA Tags ==
    ASSUME TypeOK, Stamped, NEW b \in Backups, NEW c, SetTag(b, c)
    PROVE  /\ backup[b] \in Tagging /\ c \in DOMAIN archives
           /\ \E h \in Tagging :
                 /\ backup' = [backup EXCEPT ![b] = h]
                 /\ h.keep = backup[b].keep /\ DOMAIN h.todo = DOMAIN backup[b].todo \ {c}
           /\ archives' \in [DOMAIN archives -> Archives] /\ DOMAIN archives' = DOMAIN archives
           /\ archives'[c].tag = IF c \in backup[b].keep THEN "monthly" ELSE "daily"
           /\ \A d \in DOMAIN archives \ {c} : archives'[d] = archives[d]
           /\ guarded' = IF c \in backup[b].keep THEN guarded \cup {c}
                         ELSE IF Named(c) THEN guarded ELSE guarded \ {c}
           /\ UNCHANGED <<lease, runs, latest, anchors, control, day, clock, settled, overlapped,
                          misreads, blinded>>
<1>1. backup[b] \in Tagging /\ c \in DOMAIN archives  BY HoldingOf DEF SetTag, Tag, In
<1>2. PICK g \in {"monthly", "daily"} :
         g = IF c \in backup[b].keep THEN "monthly" ELSE "daily"
  OBVIOUS
<1>3. Tag(b, c, g)  BY <1>2 DEF SetTag
<1>4. archives' = [archives EXCEPT ![c].tag = g]  BY <1>3 DEF Tag
<1>5. PICK a \in Archives : a = [archives[c] EXCEPT !.tag = g]
  BY <1>1 DEF TypeOK, Archives
<1>6. a.tag = g  BY <1>1, <1>5 DEF TypeOK, Archives
<1>7. archives' = [archives EXCEPT ![c] = a]  BY <1>4, <1>5
<1>8. PICK t : t = [d \in DOMAIN backup[b].todo \ {c} |-> backup[b].todo[d]]  OBVIOUS
<1>9. DOMAIN t = DOMAIN backup[b].todo \ {c}  BY <1>8
<1>10. t \in Listings
  <2>1. PICK S \in SUBSET Backups : backup[b].todo \in [S -> Nat]  BY <1>1 DEF Tagging, Listings
  <2>2. t \in [S \ {c} -> Nat]  BY <1>8, <2>1
  <2> QED BY <2>2 DEF Listings
<1>11. PICK h \in Tagging : h = [backup[b] EXCEPT !.todo = t]
  BY <1>1, <1>10 DEF Tagging
<1>12. h.keep = backup[b].keep /\ h.todo = t  BY <1>1, <1>11 DEF Tagging
<1>13. backup' = [backup EXCEPT ![b] = h]  BY <1>3, <1>8, <1>11 DEF Tag
<1>14. guarded' = IF c \in backup[b].keep THEN guarded \cup {c}
                  ELSE IF Named(c) THEN guarded ELSE guarded \ {c}
  BY <1>2, <1>3 DEF Tag
<1>15. archives' \in [DOMAIN archives -> Archives] /\ DOMAIN archives' = DOMAIN archives
       /\ archives'[c] = a /\ \A d \in DOMAIN archives \ {c} : archives'[d] = archives[d]
  BY <1>1, <1>7 DEF TypeOK
<1>16. UNCHANGED <<lease, runs, latest, anchors, control, day, clock, settled, overlapped,
                   misreads, blinded>>
  BY <1>3 DEF Tag
<1> QED BY <1>1, <1>2, <1>6, <1>9, <1>12, <1>13, <1>14, <1>15, <1>16

LEMMA SetTagTypes ==
    ASSUME TypeOK, Stamped, NEW b \in Backups, NEW c, SetTag(b, c)
    PROVE  TypeStep
<1>1. PICK h \in Tagging : backup' = [backup EXCEPT ![b] = h]  BY Tags
<1>2. h \in Holding /\ h.phase = "tagging"  BY DEF Holding, Tagging
<1>3. DOMAIN archives' \subseteq Backups /\ archives' \in [DOMAIN archives' -> Archives]
  BY Tags DEF TypeOK
<1>4. UNCHANGED <<lease, runs, latest, anchors, control, day, clock, settled, overlapped,
                  misreads, blinded>>
  BY Tags
<1>5. guarded' \subseteq Backups  BY Tags DEF TypeOK
<1> QED BY <1>1, <1>2, <1>3, <1>4, <1>5 DEF TypeStep, TypeOK, Stamped

LEMMA EndedTypes ==
    ASSUME TypeOK, NEW b \in Backups, backup' = [backup EXCEPT ![b] = Ended]
    PROVE  backup' \in [Backups -> Holding] /\ backup'[b] = Ended /\ Ended.phase = "done"
           /\ \A c \in Backups \ {b} : backup'[c] = backup[c]
BY DEF TypeOK, Holding, Plain, Ended

LEMMA EndTypes ==
    ASSUME TypeOK, Stamped, NEW b \in Backups, Finish(b) \/ Fail(b) \/ Crash(b)
    PROVE  TypeStep
<1>1. backup' = [backup EXCEPT ![b] = Ended]  BY DEF Finish, Fail, Crash
<1>2. lease' \in Backups \cup {None}  BY DEF Finish, Fail, Crash, TypeOK
<1>3. control' \subseteq Nat  BY DEF Finish, Fail, Crash, TypeOK, blobVars
<1>4. settled' \in BOOLEAN /\ blinded' \subseteq Backups
  BY DEF Finish, Fail, Crash, TypeOK
<1>5. UNCHANGED <<archives, runs, latest, anchors, day, clock, overlapped, misreads, guarded>>
  BY DEF Finish, Fail, Crash, blobVars
<1> QED BY <1>1, <1>2, <1>3, <1>4, <1>5, EndedTypes DEF TypeStep, TypeOK, Stamped

LEMMA LifecycleDeletesTypes ==
    ASSUME TypeOK, Stamped, NEW b \in Backups, LifecycleDeletes(b)
    PROVE  TypeStep
BY DEF LifecycleDeletes, TypeStep, TypeOK, Stamped, ghostVars

LEMMA RestTypes ==
    ASSUME TypeOK, Stamped, LeaseEnds \/ NextDay
    PROVE  TypeStep
<1>1. CASE LeaseEnds  BY <1>1 DEF LeaseEnds, TypeStep, TypeOK, Stamped, blobVars, ghostVars
<1>2. CASE NextDay
  <2>1. day' \in 1 .. LastDay  BY <1>2, BackupAssumption DEF NextDay, TypeOK
  <2> QED BY <1>2, <2>1 DEF NextDay, TypeStep, TypeOK, Stamped, blobVars, ghostVars
<1> QED BY <1>1, <1>2

LEMMA StepTypes ==
    ASSUME TypeOK, Stamped, DataOK, [BackupNext]_backupVars
    PROVE  TypeStep
<1>1. CASE UNCHANGED backupVars
  BY <1>1 DEF backupVars, blobVars, ghostVars, TypeStep, TypeOK, Stamped
<1>2. CASE LeaseEnds \/ NextDay  BY <1>2, RestTypes
<1>3. ASSUME NEW b \in Backups, BackupStep(b) PROVE TypeStep
  BY <1>3, StartTypes, AcquireTypes, RecoverLatestTypes, ExportTypes, UploadTypes, WriteRunTypes,
     UpdateLatestTypes, WriteMonthlyAnchorTypes, ReconcileAnchorsTypes, ListArchivesTypes, SetTagTypes,
     EndTypes, LifecycleDeletesTypes DEF BackupStep
<1> QED BY <1>1, <1>2, <1>3 DEF BackupNext

LEMMA InitTypes == DataOK /\ BackupInit => TypeOK /\ Stamped
<1> SUFFICES ASSUME DataOK, BackupInit PROVE TypeOK /\ Stamped  OBVIOUS
<1>1. Earlier \in Values /\ Earlier.completed = 0
  BY ContentType, BackupAssumption DEF Earlier, Values
<1>2. [completed |-> 0, day |-> 1, tag |-> "monthly"] \in Archives  BY DEF Archives
<1>3. backup \in [Backups -> Holding]  BY DEF BackupInit, Ended, Resting, Holding, Plain
<1>4. \A b \in Backups : backup[b].phase \in {"idle", "done"}  BY DEF BackupInit, Ended, Resting
<1>5. First \in Backups /\ 1 \in 1 .. LastDay  BY BackupAssumption
<1>6. TypeOK
  <2>1. DOMAIN archives = {First} /\ archives \in [DOMAIN archives -> Archives]
    <3> DEFINE a == [completed |-> 0, day |-> 1, tag |-> "monthly"]
    <3>1. archives = [b \in {First} |-> a] /\ a \in Archives  BY <1>2 DEF BackupInit
    <3> HIDE DEF a
    <3> QED BY <3>1
  <2>2. DOMAIN anchors = {1} /\ anchors \in [DOMAIN anchors -> Values]
    BY <1>1 DEF BackupInit
  <2>3. runs \subseteq Values /\ latest \in Values  BY <1>1 DEF BackupInit
  <2>4. lease = None /\ control = {} /\ day = 1 /\ clock = 0 /\ settled = TRUE
        /\ overlapped = FALSE /\ guarded = {First} /\ misreads = 0 /\ blinded = {}
    BY DEF BackupInit
  <2>5. DOMAIN archives \subseteq Backups /\ guarded \subseteq Backups  BY <1>5, <2>1, <2>4
  <2>6. DOMAIN anchors \subseteq Nat /\ clock \in Nat  BY <2>2, <2>4
  <2>7. day \in 1 .. LastDay /\ control \subseteq Nat /\ misreads \in Nat /\ blinded \subseteq Backups
    BY <1>5, <2>4
  <2> QED BY <1>3, <2>1, <2>2, <2>3, <2>4, <2>5, <2>6, <2>7, Zenon DEF TypeOK
<1>7. Stamped
  <2>1. IsFiniteSet({Earlier})  BY FS_Singleton
  <2> QED BY <1>1, <1>4, <2>1 DEF BackupInit, Stamped
<1> QED BY <1>6, <1>7

(* The backups' state keeps its types.                                     *)
THEOREM BackupsTyped == BackupSpec => []TypeOK
<1>1. TypeOK /\ Stamped /\ DataOK /\ [BackupNext]_backupVars => (TypeOK /\ Stamped)'
  BY StepTypes DEF TypeStep
<1> QED BY <1>1, InitTypes, PTL DEF BackupSpec, DataOK

(* latest.json is never replaced by an earlier archive, also when runs     *)
(* overlap, while the archive that it names is there and the run that      *)
(* recovers can read it.                                                   *)
THEOREM LatestOnward == BackupSpec => LatestNeverBack
<1> DEFINE Onward == latest # None /\ latest' # latest =>
                        \/ latest'.completed > latest.completed
                        \/ ~Verified(latest)
                        \/ misreads' > misreads
<1>1. ASSUME TypeOK, Stamped, NEW b \in Backups, BackupStep(b) PROVE Onward
  <2>1. ASSUME NEW hidden, RecoverLatest(b, hidden) PROVE Onward
    <3>1. CASE hidden # {}  BY <1>1, <2>1, <3>1, HidesTypes DEF RecoverLatest
    <3>2. CASE hidden = {}
      <4>1. (Uploaded \cup {v \in {latest} : Verified(v)}) \ hidden
              = Uploaded \cup {v \in {latest} : Verified(v)}
        BY <3>2
      <4>2. \/ latest' = latest
            \/ \E best : latest' = best /\ (~Verified(latest) \/ Later(best, latest))
        BY <2>1, <4>1 DEF RecoverLatest
      <4> QED BY <4>2 DEF Later
    <3> QED BY <3>1, <3>2
  <2>2. CASE UpdateLatest(b)  BY <2>2 DEF UpdateLatest, Later
  <2>3. CASE ~(\E hidden : RecoverLatest(b, hidden)) /\ ~UpdateLatest(b)
    <3>1. latest' = latest
      BY <1>1, <2>3 DEF BackupStep, Start, Acquire, Export, Upload, WriteRun, WriteMonthlyAnchor,
         ReconcileAnchors, ListArchives, SetTag, Tag, Finish, Fail, Crash, LifecycleDeletes, blobVars
    <3> QED BY <3>1
  <2> QED BY <2>1, <2>2, <2>3
<1>2. LeaseEnds \/ NextDay => Onward  BY DEF LeaseEnds, NextDay, blobVars
<1>3. TypeOK /\ Stamped /\ [BackupNext]_backupVars => [Onward]_<<latest, archives, misreads>>
  BY <1>1, <1>2 DEF BackupNext, backupVars, blobVars, ghostVars
<1>4. TypeOK /\ Stamped /\ DataOK /\ [BackupNext]_backupVars => (TypeOK /\ Stamped)'
  BY StepTypes DEF TypeStep
<1> QED BY <1>3, <1>4, InitTypes, PTL DEF BackupSpec, DataOK, LatestNeverBack

-----------------------------------------------------------------------------
(* A step of the run under way leaves the others at rest.                  *)
LEMMA AtRest ==
    ASSUME TypeOK, NEW b \in Backups, ~UnderWay(b)
    PROVE  RunOK(b)
<1>1. backup[b].phase \in {"idle", "started", "done"}  BY DEF UnderWay
<1> QED
  BY <1>1 DEF RunOK, In, HeldOK, ValueOK, RecordedOK, AnchoredOK, TaggingOK

LEMMA AtRestAfter ==
    ASSUME TypeOK', NEW b \in Backups, ~UnderWay(b)'
    PROVE  RunOK(b)'
<1>1. backup'[b].phase \in {"idle", "started", "done"}  BY DEF UnderWay
<1> QED
  BY <1>1 DEF RunOK, In, HeldOK, ValueOK, RecordedOK, AnchoredOK, TaggingOK

Others(b) == \A c \in Backups \ {b} : backup'[c] = backup[c]

LEMMA OthersRest ==
    ASSUME TypeOK, TypeOK', OneRun, NEW b \in Backups, UnderWay(b), Others(b)
    PROVE  OneRun' /\ \A c \in Backups \ {b} : ~UnderWay(c)' /\ RunOK(c)'
<1>1. ASSUME NEW c \in Backups \ {b}
      PROVE  ~UnderWay(c)' /\ RunOK(c)'
  <2>1. ~UnderWay(c)  BY DEF OneRun
  <2>2. ~UnderWay(c)'  BY <2>1 DEF Others, UnderWay
  <2> QED BY <2>2, AtRestAfter
<1> QED BY <1>1 DEF OneRun

LEMMA AloneAgain ==
    ASSUME TypeOK, TypeOK', Alone, NEW b \in Backups, UnderWay(b), Others(b), settled' = settled,
           Recorded', FreshNames', Guarded', RunOK(b)'
    PROVE  Alone'
<1>1. ~settled'  BY DEF Alone, Settled
<1>2. OneRun' /\ \A c \in Backups : RunOK(c)'  BY OthersRest DEF Alone
<1>3. Settled' /\ Recovered'  BY <1>1 DEF Settled, Recovered
<1> QED BY <1>2, <1>3 DEF Alone

LEMMA FreshStay ==
    ASSUME FreshNames, runs' = runs, NEW b \in Backups, Others(b), Unrecorded(b)' => Unrecorded(b)
    PROVE  FreshNames'
<1>1. ASSUME NEW c \in Backups, Unrecorded(c)' PROVE Unrecorded(c)
  BY <1>1 DEF Unrecorded, Others
<1> QED BY <1>1 DEF FreshNames, Paths

(* Every run keeps what it has while nothing it knows of changes.          *)
LEMMA AllAsBefore ==
    ASSUME Alone, UNCHANGED <<archives, runs, latest, anchors, day, clock, guarded, blinded>>,
           NEW b \in Backups, backup'[b] = backup[b]
    PROVE  RunOK(b)'
<1>1. HeldOK(b)' /\ ValueOK(b)' /\ RecordedOK(b)' /\ AnchoredOK(b)'
  BY DEF Alone, RunOK, HeldOK, ValueOK, RecordedOK, AnchoredOK, In, Sees
<1>2. TaggingOK(b)'
  BY DEF Alone, RunOK, TaggingOK, In, Sees, Named
<1> QED BY <1>1, <1>2 DEF RunOK

LEMMA StartAlone ==
    ASSUME TypeOK, TypeOK', Alone, NEW b \in Backups, NEW s \in BOOLEAN, NEW o \in BOOLEAN,
           Start(b, s, o)
    PROVE  Alone'
<1>1. UNCHANGED <<archives, runs, latest, anchors, day, clock, settled, overlapped, guarded, blinded>>
  BY DEF Start, blobVars, ghostVars
<1>2. backup'[b].phase = "started" /\ backup[b].phase = "idle" /\ Others(b)
  BY DEF Start, In, TypeOK, Others
<1>3. \A c \in Backups : UnderWay(c)' = UnderWay(c)  BY <1>2 DEF UnderWay, Others
<1>4. OneRun' /\ Settled'  BY <1>1, <1>3 DEF Alone, OneRun, Settled
<1>5. Recorded' /\ Recovered' /\ Guarded'
  BY <1>1 DEF Alone, Recorded, Recovered, Uploaded, Verified, Guarded, Named
<1>6. FreshNames'  BY <1>1, <1>2, FreshStay DEF Alone, Unrecorded
<1>7. ASSUME NEW c \in Backups PROVE RunOK(c)'
  <2>1. CASE c = b  BY <2>1, <1>2, AtRestAfter DEF UnderWay
  <2>2. CASE c # b  BY <2>2, <1>1, <1>2, AllAsBefore DEF Others
  <2> QED BY <2>1, <2>2
<1> QED BY <1>4, <1>5, <1>6, <1>7 DEF Alone

LEMMA AcquireAlone ==
    ASSUME TypeOK, TypeOK', Alone, NEW b \in Backups, Acquire(b), ~overlapped'
    PROVE  Alone'
<1>1. UNCHANGED <<archives, runs, latest, anchors, day, clock, guarded, blinded>>
  BY DEF Acquire, blobVars
<1>2. /\ backup[b].phase = "started" /\ Others(b)
      /\ \/ backup'[b].phase = "leased" /\ settled' = FALSE /\ \A c \in Backups : ~UnderWay(c)
         \/ backup'[b].phase = "done" /\ settled' = settled
  <2>1. backup[b].phase = "started" /\ Others(b)  BY DEF Acquire, In, TypeOK, Others, Go, Ended
  <2>2. CASE lease = None
    <3>1. backup'[b].phase = "leased" /\ settled' = FALSE
      BY <2>2, HoldingOf DEF Acquire, In, TypeOK, Go, Begun
    <3>2. ~(overlapped \/ \E c \in Backups : UnderWay(c))  BY <2>2, Zenon DEF Acquire
    <3> QED BY <2>1, <3>1, <3>2
  <2>3. CASE lease # None
    <3>1. backup'[b].phase = "done" /\ settled' = settled
      BY <2>3 DEF Acquire, TypeOK, Ended
    <3> QED BY <2>1, <3>1
  <2> QED BY <2>2, <2>3
<1>3. ASSUME NEW c \in Backups, c # b PROVE UnderWay(c)' = UnderWay(c)
  BY <1>2, <1>3 DEF UnderWay, Others
<1>4. OneRun' /\ Settled'  BY <1>2, <1>3 DEF Alone, OneRun, Settled, UnderWay
<1>5. Recorded' /\ Guarded'  BY <1>1, <1>2 DEF Alone, Recorded, Guarded
<1>6. FreshNames'  BY <1>1, <1>2, FreshStay DEF Alone, Unrecorded
<1>7. ASSUME NEW c \in Backups PROVE RunOK(c)'
  <2>1. CASE c = b
    <3>1. backup'[b].phase \in {"leased", "done"}  BY <1>2
    <3> QED
      BY <2>1, <3>1
      DEF RunOK, In, HeldOK, ValueOK, RecordedOK, AnchoredOK, TaggingOK
  <2>2. CASE c # b  BY <2>2, <1>1, <1>2, AllAsBefore DEF Others
  <2> QED BY <2>1, <2>2
<1>8. Recovered'
  BY <1>1, <1>2 DEF Alone, Recovered, Uploaded, Verified, Acquire, Named
<1> QED BY <1>4, <1>5, <1>6, <1>7, <1>8 DEF Alone

(* What recover_latest finds when it can read everything is the newest     *)
(* archive on record.                                                      *)
LEMMA RecoverLatestAlone ==
    ASSUME TypeOK, Stamped, TypeOK', Stamped', Alone, NEW b \in Backups, NEW hidden,
           RecoverLatest(b, hidden)
    PROVE  Alone'
<1> DEFINE seen == Uploaded \ hidden
           best == IF seen = {} THEN None ELSE Newest(seen)
<1>1. UNCHANGED <<archives, runs, anchors, day, clock, settled, overlapped, guarded>>
  BY DEF RecoverLatest
<1>2. (Uploaded \cup {v \in {latest} : Verified(v)}) \ hidden = seen
  BY DEF Uploaded, Alone, Recorded, Stamped
<1>3. latest' = IF best # None /\ (latest \notin seen \/ Later(best, latest)) THEN best ELSE latest
  BY <1>2 DEF RecoverLatest
<1>4. /\ Others(b) /\ backup[b].phase = "leased" /\ backup'[b].phase = "recovered"
      /\ backup'[b].latest = IF best = None THEN None ELSE latest'
  BY <1>2 DEF RecoverLatest, Others, TypeOK, In
<1>5. Uploaded = Readable(archives, runs)
  BY NoneAssumption DEF Uploaded, Readable, Verified, TypeOK
<1>6. seen # {} => best \in seen /\ best # None /\ NotBefore(seen, best)
  <2>1. seen \in SUBSET Values /\ (\A v \in seen : v.completed <= clock) /\ clock \in Nat
    BY DEF Uploaded, TypeOK, Stamped
  <2> QED BY <2>1, NewestIsLast, NoneAssumption
<1>8. seen = {} => best = None /\ latest' = latest  BY <1>3
<1> HIDE DEF best
<1>7. seen # {} => latest' \in seen /\ NotBefore(seen, latest')
  <2>1. CASE seen # {} /\ latest' = best  BY <1>6, <2>1
  <2>2. CASE seen # {} /\ latest' # best
    <3>1. latest' = latest /\ latest \in seen /\ ~Later(best, latest)  BY <1>3, <1>6, <2>2
    <3>4. \A u \in seen : u \in Values  BY DEF Uploaded, TypeOK
    <3>3. best.completed <= latest.completed /\ best \in Values /\ latest \in Values
      <4>1. best \in Values /\ latest \in Values  BY <3>1, <3>4, <2>2, <1>6
      <4>2. best.completed \in Nat /\ latest.completed \in Nat  BY <4>1 DEF Values
      <4> QED BY <4>1, <4>2, <3>1 DEF Later
    <3> QED BY <3>1, <3>3, <3>4, <1>6, <2>2 DEF NotBefore, Values
  <2> QED BY <2>1, <2>2, Zenon
<1>9. Recorded'
  <2>1. latest'.state = "UPLOADED"  BY <1>7, <1>8 DEF Uploaded, Alone, Recorded
  <2> QED BY <2>1, <1>1 DEF Alone, Recorded
<1>10. FreshNames' /\ Guarded'
  BY <1>1, <1>4, FreshStay DEF Alone, Unrecorded, Guarded
<1>11. RunOK(b)'
  <2>1. HeldOK(b)'
    <3>1. SUFFICES ASSUME b \notin blinded'
                   PROVE  IF backup'[b].latest = None THEN Readable(archives, runs) = {}
                          ELSE NotBefore(Readable(archives, runs), latest')
      BY <1>1, <1>4 DEF HeldOK, Sees, Readable
    <3>2. hidden = {}  BY <3>1, HidesTypes DEF RecoverLatest
    <3>3. seen = Readable(archives, runs)  BY <3>2, <1>5
    <3>4. CASE seen = {}  BY <3>3, <3>4, <1>4, <1>8
    <3>5. CASE seen # {}
      <4>1. backup'[b].latest = latest' /\ latest' # None
        BY <3>5, <1>4, <1>6, NoneAssumption DEF TypeOK
      <4> QED BY <4>1, <3>3, <3>5, <1>7
    <3> QED BY <3>4, <3>5
  <2> QED BY <2>1, <1>4 DEF RunOK, In, ValueOK, RecordedOK, AnchoredOK, TaggingOK
<1>12. UnderWay(b)  BY <1>4 DEF UnderWay
<1> QED BY <1>1, <1>4, <1>9, <1>10, <1>11, <1>12, AloneAgain

LEMMA ExportAlone ==
    ASSUME TypeOK, Stamped, TypeOK', Alone, NEW b \in Backups, Export(b)
    PROVE  Alone'
<1> DEFINE held == backup[b].latest
           unchanged == held # None /\ held.content = Content /\ backup[b].only
<1>1. UNCHANGED <<archives, runs, latest, anchors, day, settled, overlapped, guarded, blinded>>
      /\ clock' = clock + 1
  BY DEF Export, blobVars, ghostVars
<1>2. /\ Others(b) /\ backup[b].phase = "recovered"
      /\ backup'[b].phase = IF unchanged THEN "uploaded" ELSE "exported"
      /\ backup'[b].value = [id |-> b, path |-> IF unchanged THEN held.path ELSE b,
                 state |-> IF unchanged THEN "NO_CHANGE" ELSE "UPLOADED",
                 content |-> Content, completed |-> clock + 1, month |-> Month(day)]
  BY DEF Export, Others, TypeOK, In
<1>3. unchanged => /\ held = latest /\ held.path \in Paths(runs)
                   /\ Sees(b) => NotBefore(Readable(archives, runs), latest)
  BY <1>2 DEF Alone, RunOK, HeldOK, In, Stamped, Paths
<1>4. UnderWay(b)  BY <1>2 DEF UnderWay
<1>5. Recorded' /\ FreshNames' /\ Guarded'
  BY <1>1, <1>2, FreshStay DEF Alone, Recorded, Unrecorded, Guarded
<1>6. \A u \in runs : u.completed < clock'
  BY <1>1 DEF Stamped, TypeOK, Values
<1>7. RunOK(b)'
  <2>1. ValueOK(b)'  BY <1>1, <1>2, <1>3, <1>6 DEF ValueOK, In, Sees
  <2> QED BY <2>1, <1>2 DEF RunOK, In, HeldOK, RecordedOK, AnchoredOK, TaggingOK
<1> QED BY <1>1, <1>2, <1>4, <1>5, <1>7, AloneAgain

LEMMA UploadAlone ==
    ASSUME TypeOK, Stamped, TypeOK', Alone, NEW b \in Backups, Upload(b)
    PROVE  Alone'
<1>1. UNCHANGED <<runs, latest, anchors, day, clock, settled, overlapped, guarded, blinded>>
  BY DEF Upload, ghostVars
<1>2. backup[b].phase = "exported" /\ backup[b] \in Valued  BY HoldingOf DEF Upload, In
<1>3. Others(b) /\ backup'[b].phase = "uploaded" /\ backup'[b].value = backup[b].value
  BY <1>2, Moves DEF Upload, Others
<1>4. UnderWay(b)  BY <1>2 DEF UnderWay
<1>5. b \notin Paths(runs)  BY <1>2 DEF Alone, FreshNames, Unrecorded
<1>6. \A u \in runs : /\ u.path \in DOMAIN archives' <=> u.path \in DOMAIN archives
                      /\ u.path \in DOMAIN archives => archives'[u.path] = archives[u.path]
  BY <1>5 DEF Upload, Paths
<1>7. Readable(archives', runs) = Readable(archives, runs)  BY <1>6 DEF Readable
<1>8. Recorded' /\ FreshNames' /\ Guarded'
  <2>1. Recorded'  BY <1>1 DEF Alone, Recorded
  <2>2. Guarded'
    <3>1. \A c \in guarded : c # b  BY <1>5 DEF Alone, Recorded
    <3> QED BY <1>1, <3>1 DEF Alone, Guarded, Tagged, Upload
  <2>3. FreshNames'  BY <1>1, <1>2, <1>3, FreshStay DEF Alone, Unrecorded
  <2> QED BY <2>1, <2>2, <2>3
<1>9. RunOK(b)'
  <2>1. ValueOK(b)
    BY DEF Alone, RunOK
  <2>2. ValueOK(b)'  BY <2>1, <1>1, <1>2, <1>3, <1>7 DEF ValueOK, In, Sees
  <2> QED BY <2>2, <1>3 DEF RunOK, In, HeldOK, RecordedOK, AnchoredOK, TaggingOK
<1> QED BY <1>1, <1>3, <1>4, <1>8, <1>9, AloneAgain

LEMMA WriteRunAlone ==
    ASSUME TypeOK, Stamped, TypeOK', Alone, NEW b \in Backups, WriteRun(b)
    PROVE  Alone'
<1>1. UNCHANGED <<archives, latest, anchors, day, clock, settled, overlapped, guarded, blinded>>
  BY DEF WriteRun, ghostVars
<1>2. backup[b].phase = "uploaded" /\ backup[b] \in Valued  BY HoldingOf DEF WriteRun, In
<1>3. PICK v \in Values : v = backup[b].value  BY <1>2 DEF Valued
<1>4. /\ Others(b) /\ backup'[b].value = v
      /\ backup'[b].phase = IF v.state = "UPLOADED" THEN "recorded" ELSE "anchored"
  <2>1. PICK p : p = IF v.state = "UPLOADED" THEN "recorded" ELSE "anchored"  OBVIOUS
  <2>2. Go(b, p)  BY <2>1, <1>3 DEF WriteRun, Value
  <2> QED BY <1>2, <1>3, <2>1, <2>2, Moves DEF Others
<1>5. UnderWay(b) /\ runs' = runs \cup {v}  BY <1>2, <1>3 DEF UnderWay, WriteRun, Value
<1>6. /\ v.month = Month(day) /\ v.completed = clock /\ \A u \in runs : u.completed < clock
      /\ v.state = "UPLOADED" => v.path = b
      /\ v.state = "NO_CHANGE" /\ Sees(b) =>
            v.path = latest.path /\ NotBefore(Readable(archives, runs), latest)
  BY <1>2, <1>3 DEF Alone, RunOK, ValueOK
<1>7. v.state \in {"UPLOADED", "NO_CHANGE"} /\ clock \in Nat /\ Month(day) \in Nat
      /\ v.path \in Backups
      /\ \A u \in runs : u.completed \in Nat /\ u.month \in Nat
  BY MonthsFollow DEF TypeOK, Values
<1>8. Recorded'
  <2>1. \A u \in runs : u.month \in 1 .. Month(day)  BY DEF Alone, Recorded
  <2>2. Month(day) \in 1 .. Month(day)  BY MonthsFollow DEF TypeOK
  <2>3. \A u \in runs' : u.month \in 1 .. Month(day)  BY <2>1, <2>2, <1>5, <1>6
  <2>4. \A u, w \in runs : /\ u.completed = w.completed => u = w
                           /\ u.month < w.month => u.completed < w.completed
    BY DEF Alone, Recorded
  <2>5. \A u \in runs : /\ u.completed < v.completed /\ ~(v.completed < u.completed)
                        /\ u.completed # v.completed /\ ~(v.month < u.month)
    BY <2>1, <1>6, <1>7
  <2>6. \A u, w \in runs' : /\ u.completed = w.completed => u = w
                            /\ u.month < w.month => u.completed < w.completed
    BY <2>4, <2>5, <1>5, <1>6, <1>7
  <2>7. guarded \subseteq Paths(runs)'  BY <1>5 DEF Alone, Recorded, Paths
  <2> QED BY <1>1, <2>3, <2>6, <2>7 DEF Alone, Recorded
<1>9. Guarded'  BY <1>1 DEF Alone, Guarded
<1>10. FreshNames'
  <2>1. SUFFICES ASSUME NEW c \in Backups, Unrecorded(c)' PROVE c \notin Paths(runs')
    BY DEF FreshNames
  <2>2. c # b  BY <2>1, <1>4 DEF Unrecorded
  <2>3. c \notin Paths(runs)  BY <2>1, <2>2, <1>4 DEF Alone, FreshNames, Unrecorded, Others
  <2>4. c # v.path
    <3>1. CASE v.state = "UPLOADED"  BY <3>1, <2>2, <1>6
    <3>2. CASE v.state = "NO_CHANGE"
      <4>1. v.path \in Paths(runs)  BY <1>2, <1>3, <3>2 DEF Alone, RunOK, ValueOK
      <4> QED BY <2>3, <4>1
    <3> QED BY <3>1, <3>2, <1>7
  <2> QED BY <2>3, <2>4, <1>5 DEF Paths
<1>11. NotBefore(runs', v)  BY <1>5, <1>6, <1>7 DEF NotBefore
<1>12. RunOK(b)'
  <2>1. CASE v.state = "UPLOADED"
    <3>1. RecordedOK(b)'  BY <2>1, <1>1, <1>4, <1>6, <1>11 DEF RecordedOK, In
    <3> QED BY <3>1, <2>1, <1>4 DEF RunOK, In, HeldOK, ValueOK, AnchoredOK, TaggingOK
  <2>2. CASE v.state = "NO_CHANGE"
    <3>1. Readable(archives, runs') = Readable(archives, runs)  BY <2>2, <1>5 DEF Readable
    <3>2. AnchoredOK(b)'
      BY <2>2, <3>1, <1>1, <1>4, <1>6, <1>11 DEF AnchoredOK, In, Sees
    <3> QED BY <3>2, <2>2, <1>4 DEF RunOK, In, HeldOK, ValueOK, RecordedOK, TaggingOK
  <2> QED BY <2>1, <2>2, <1>7
<1> QED BY <1>1, <1>4, <1>5, <1>8, <1>9, <1>10, <1>12, AloneAgain

LEMMA UpdateLatestAlone ==
    ASSUME TypeOK, Stamped, TypeOK', Alone, NEW b \in Backups, UpdateLatest(b)
    PROVE  Alone'
<1>1. UNCHANGED <<archives, runs, anchors, day, clock, settled, overlapped, guarded, blinded>>
  BY DEF UpdateLatest, ghostVars
<1>2. backup[b].phase = "recorded" /\ backup[b] \in Valued  BY HoldingOf DEF UpdateLatest, In
<1>3. PICK v \in runs : v = backup[b].value  BY <1>2 DEF Stamped
<1>4. /\ Others(b) /\ backup'[b].value = v /\ backup'[b].phase = "published" /\ UnderWay(b)
  BY <1>2, <1>3, Moves DEF UpdateLatest, Others, UnderWay
<1>5. NotBefore(runs, v) /\ v.state = "UPLOADED" /\ v.path = b /\ v.month = Month(day)
  BY <1>2, <1>3 DEF Alone, RunOK, RecordedOK
<1>6. latest' = v
  <2>1. latest \in runs /\ latest.completed <= v.completed  BY <1>5 DEF Stamped, NotBefore
  <2>2. latest.completed \in Nat /\ v.completed \in Nat  BY <2>1 DEF TypeOK, Values
  <2>3. ~Later(v, latest) => latest = v  BY <2>1, <2>2 DEF Later, Alone, Recorded
  <2> QED BY <2>3, <1>3 DEF UpdateLatest, Value
<1>7. Recorded' /\ FreshNames' /\ Guarded'
  BY <1>1, <1>2, <1>4, <1>5, <1>6, FreshStay DEF Alone, Recorded, Unrecorded, Guarded
<1>8. RunOK(b)'
  <2>1. RecordedOK(b)'  BY <1>1, <1>4, <1>5, <1>6 DEF RecordedOK, In
  <2> QED BY <2>1, <1>4 DEF RunOK, In, HeldOK, ValueOK, AnchoredOK, TaggingOK
<1> QED BY <1>1, <1>4, <1>7, <1>8, AloneAgain

LEMMA WriteMonthlyAnchorAlone ==
    ASSUME TypeOK, Stamped, TypeOK', Alone, NEW b \in Backups, WriteMonthlyAnchor(b)
    PROVE  Alone'
<1>1. UNCHANGED <<archives, runs, latest, day, clock, settled, overlapped, guarded, blinded>>
  BY DEF WriteMonthlyAnchor, ghostVars
<1>2. backup[b].phase = "published" /\ backup[b] \in Valued
  BY HoldingOf DEF WriteMonthlyAnchor, In
<1>3. PICK v \in runs : v = backup[b].value  BY <1>2 DEF Stamped
<1>4. /\ Others(b) /\ backup'[b].value = v /\ backup'[b].phase = "anchored" /\ UnderWay(b)
  BY <1>2, <1>3, Moves DEF WriteMonthlyAnchor, Others, UnderWay
<1>5. NotBefore(runs, v) /\ v.state = "UPLOADED" /\ v.month = Month(day) /\ latest = v
  BY <1>2, <1>3 DEF Alone, RunOK, RecordedOK, In
<1>6. PICK m \in Nat : m = Month(day)  BY MonthsFollow DEF TypeOK
<1>7. PICK as : as = Anchored(anchors, m, v)  OBVIOUS
<1>8. anchors' = as  BY <1>3, <1>6, <1>7 DEF WriteMonthlyAnchor, Value
<1>9. /\ DOMAIN as = DOMAIN anchors \cup {m}
      /\ \A n \in DOMAIN as : n # m => (n \in DOMAIN anchors /\ as[n] = anchors[n])
      /\ \/ as[m] = v
         \/ m \in DOMAIN anchors /\ as[m] = anchors[m]
  <2>1. /\ DOMAIN as = DOMAIN anchors \cup {m}
        /\ \A n \in DOMAIN as : n # m => (n \in DOMAIN anchors /\ as[n] = anchors[n])
        /\ \/ as[m] = v
           \/ m \in DOMAIN anchors /\ as[m] = anchors[m] /\ ~Later(v, anchors[m])
    BY ONLY TypeOK, Stamped, as = Anchored(anchors, m, v), m \in Nat, v \in runs, AnchoredTypes
  <2> QED BY <2>1
<1>10. \A n \in DOMAIN anchors' : \/ n = m /\ anchors'[n] = v
                                  \/ n \in DOMAIN anchors /\ anchors'[n] = anchors[n]
  BY <1>8, <1>9
<1>11. Recorded' /\ FreshNames' /\ Guarded'
  <2>1. Recorded'  BY <1>1, <1>5, <1>6, <1>10 DEF Alone, Recorded
  <2> QED BY <2>1, <1>1, <1>2, <1>4, FreshStay DEF Alone, Unrecorded, Guarded
<1>12. RunOK(b)'
  <2>1. NotBefore(Readable(archives, runs), latest)  BY <1>5 DEF NotBefore, Readable
  <2>2. AnchoredOK(b)'  BY <2>1, <1>1, <1>4, <1>5 DEF AnchoredOK, In
  <2> QED BY <2>2, <1>4 DEF RunOK, In, HeldOK, ValueOK, RecordedOK, TaggingOK
<1> QED BY <1>1, <1>4, <1>11, <1>12, AloneAgain

-----------------------------------------------------------------------------
(* reconcile_monthly_anchors.                                              *)

(* The anchors that are left name what is kept, or as before a later       *)
(* archive that is gone or could not be read.                              *)
LEMMA ReconciledAnchors ==
    ASSUME TypeOK, Stamped, Alone, NEW b \in Backups, NEW hidden, ReconcileAnchors(b, hidden),
           NEW m \in DOMAIN anchors'
    PROVE  /\ m \in Live(hidden) /\ anchors'[m].month = m /\ anchors'[m] \in runs
           /\ \/ anchors'[m] = NewestOf(m, hidden) /\ anchors'[m].path \in Kept(hidden)
              \/ /\ m \in DOMAIN anchors /\ anchors'[m] = anchors[m]
                 /\ anchors[m].path \notin DOMAIN archives \/ anchors[m] \in hidden
                 /\ anchors[m].completed >= NewestOf(m, hidden).completed
<1>1. m \in Live(hidden)  BY Reconciles
<1>2. PICK v \in runs : v = NewestOf(m, hidden)  BY <1>1, LiveMonths
<1>3. v \in Candidates(m, hidden) /\ NotBefore(Candidates(m, hidden), v) /\ v.path \in Kept(hidden)
  BY <1>1, <1>2, LiveMonths DEF Kept
<1>4. v.month = m  BY <1>3 DEF Candidates, Anchor, Verified, Alone, Recorded
<1>5. CASE anchors'[m] = v  BY <1>1, <1>2, <1>3, <1>4, <1>5
<1>6. CASE anchors'[m] # v
  <2>1. m \in DOMAIN anchors /\ anchors'[m] = anchors[m] /\ ~Later(v, anchors[m])
    BY <1>1, <1>2, <1>6, Reconciles
  <2>2. anchors[m] \in runs /\ anchors[m].month = m  BY <2>1 DEF Stamped, Alone, Recorded
  <2>3. v.completed \in Nat /\ anchors[m].completed \in Nat  BY <2>2 DEF TypeOK, Values
  <2>4. anchors[m].completed >= v.completed  BY <2>1, <2>3 DEF Later
  <2>5. ASSUME anchors[m].path \in DOMAIN archives, anchors[m] \notin hidden PROVE FALSE
    <3>1. anchors[m] \in Candidates(m, hidden)
      BY <2>2, <2>5, NoneAssumption DEF Candidates, Verified, TypeOK
    <3>2. anchors[m].completed <= v.completed  BY <3>1, <1>3 DEF NotBefore
    <3>3. anchors[m].completed = v.completed  BY <2>3, <2>4, <3>2
    <3>4. anchors[m] = v  BY <3>3, <2>2 DEF Alone, Recorded
    <3> QED BY <3>4, <2>1, <1>6
  <2> QED BY <1>1, <1>2, <2>1, <2>2, <2>4, <2>5
<1> QED BY <1>5, <1>6

LEMMA ReconcileAnchorsAlone ==
    ASSUME TypeOK, Stamped, TypeOK', Alone, NEW b \in Backups, NEW hidden,
           ReconcileAnchors(b, hidden)
    PROVE  Alone'
<1>1. UNCHANGED <<archives, runs, latest, day, clock, settled, overlapped>>
  BY DEF ReconcileAnchors
<1>2. backup[b].phase = "anchored" /\ backup[b] \in Valued  BY HoldingOf DEF ReconcileAnchors, In
<1>3. PICK v \in runs : v = backup[b].value  BY <1>2 DEF Stamped
<1>4. Others(b) /\ backup'[b].phase = "reconciled" /\ backup'[b].keep = Kept(hidden) /\ UnderWay(b)
  BY <1>2, Reconciles DEF Others, UnderWay, TypeOK
<1>5. /\ NotBefore(runs, v) /\ v.month = Month(day)
      /\ Sees(b) => v.path = latest.path /\ NotBefore(Readable(archives, runs), latest)
  BY <1>2, <1>3 DEF Alone, RunOK, AnchoredOK, In
<1>6. guarded' \subseteq guarded /\ \A w \in hidden : w.path \notin guarded'
  BY DEF ReconcileAnchors
<1>7. Recorded'
  <2>1. \A m \in DOMAIN anchors' : anchors'[m].month = m  BY ReconciledAnchors
  <2> QED BY <2>1, <1>1, <1>6 DEF Alone, Recorded
<1>8. FreshNames' /\ Guarded'
  BY <1>1, <1>2, <1>4, <1>6, FreshStay DEF Alone, Unrecorded, Guarded
<1>9. b \notin blinded' => hidden = {} /\ Sees(b)
  BY HidesTypes DEF ReconcileAnchors, Sees
<1>10. ASSUME hidden = {}, v.path \in DOMAIN archives
       PROVE  \E m \in DOMAIN anchors' : anchors'[m].path = v.path
  <2>1. PICK m \in Nat : m = v.month  BY DEF TypeOK, Values
  <2>2. v \in Candidates(m, hidden)
    BY <1>10, <2>1, NoneAssumption DEF Candidates, Verified, TypeOK
  <2>3. m \in 1 .. Month(LastDay)
    <3>1. m \in 1 .. Month(day) /\ Month(day) <= Month(LastDay)
      BY <2>1, MonthsFollow, BackupAssumption DEF Alone, Recorded, TypeOK
    <3> QED BY <3>1, MonthsFollow, BackupAssumption DEF TypeOK
  <2>4. m \in Months(hidden)  BY <2>2, <2>3 DEF Months
  <2>5. \A n \in Months(hidden) : ~(n > m)
    <3>1. ASSUME NEW n \in Months(hidden) PROVE ~(n > m)
      <4>1. n \in Nat  BY LiveMonths
      <4>2. PICK w \in Candidates(n, hidden) : TRUE  BY DEF Months
      <4>3. w \in runs /\ w.month = n
        BY <4>2 DEF Candidates, Anchor, Verified, Alone, Recorded, Stamped
      <4>4. n \in 1 .. Month(day)  BY <4>3 DEF Alone, Recorded
      <4> QED BY <4>1, <4>4, <1>5, <2>1
    <3> QED BY <3>1
  <2>6. m \in Live(hidden)
    <3>1. {n \in Months(hidden) : n > m} = {}  BY <2>5
    <3>2. Cardinality({n \in Months(hidden) : n > m}) = 0  BY <3>1, FS_EmptySet, Zenon
    <3>3. 0 < KeepMonths  BY BackupAssumption
    <3> QED BY <2>4, <3>2, <3>3 DEF Live
  <2>7. PICK w \in runs : w = NewestOf(m, hidden)  BY <2>6, LiveMonths
  <2>8. v.completed <= w.completed /\ w.completed <= v.completed
    BY <1>5, <2>2, <2>6, <2>7, LiveMonths DEF NotBefore
  <2>9. w = v
    <3>1. v.completed \in Nat /\ w.completed \in Nat  BY DEF TypeOK, Values
    <3>2. v.completed = w.completed  BY <2>8, <3>1
    <3> QED BY <3>2 DEF Alone, Recorded
  <2>10. m \in DOMAIN anchors'  BY <2>6, Reconciles
  <2>11. anchors'[m] = v
    <3>1. CASE anchors'[m] = NewestOf(m, hidden)  BY <3>1, <2>7, <2>9
    <3>2. CASE anchors'[m] # NewestOf(m, hidden)
      <4>1. anchors'[m] \in runs /\ anchors'[m].completed >= v.completed
        BY <3>2, <2>7, <2>9, <2>10, ReconciledAnchors
      <4>2. anchors'[m].completed <= v.completed
        BY <4>1, <1>5 DEF NotBefore
      <4>3. v.completed \in Nat /\ anchors'[m].completed \in Nat  BY <4>1 DEF TypeOK, Values
      <4>4. anchors'[m].completed = v.completed  BY <4>1, <4>2, <4>3
      <4> QED BY <4>1, <4>4 DEF Alone, Recorded
    <3> QED BY <3>1, <3>2
  <2> QED BY <2>10, <2>11
<1>11. ASSUME NEW m \in DOMAIN anchors', anchors'[m].path \in DOMAIN archives,
              anchors'[m] \notin hidden
       PROVE  anchors'[m].path \in Kept(hidden)
  BY <1>11, ReconciledAnchors
<1>12. \A m \in DOMAIN anchors' : anchors'[m].path \in guarded' => anchors'[m].path \in Kept(hidden)
  BY <1>6, <1>11 DEF Alone, Guarded, Tagged
<1>13. TaggingOK(b)'
  <2>1. Kept(hidden) \subseteq Paths(runs)  BY LiveMonths
  <2>2. ASSUME b \notin blinded'
        PROVE  /\ NotBefore(Readable(archives, runs), latest)
               /\ latest.path \in DOMAIN archives => \E m \in DOMAIN anchors' : anchors'[m].path = latest.path
               /\ \A m \in DOMAIN anchors' :
                     anchors'[m].path \in DOMAIN archives => anchors'[m].path \in Kept(hidden)
    BY <2>2, <1>5, <1>9, <1>10, <1>11
  <2> QED BY <2>1, <2>2, <1>1, <1>4, <1>12 DEF TaggingOK, In, Sees, Named
<1>14. RunOK(b)'
  BY <1>4, <1>13 DEF RunOK, In, HeldOK, ValueOK, RecordedOK, AnchoredOK
<1> QED BY <1>1, <1>4, <1>7, <1>8, <1>14, AloneAgain

LEMMA ListArchivesAlone ==
    ASSUME TypeOK, Stamped, TypeOK', Alone, NEW b \in Backups, ListArchives(b)
    PROVE  Alone'
<1>1. UNCHANGED <<archives, runs, latest, anchors, day, clock, settled, overlapped, guarded, blinded>>
  BY DEF ListArchives, blobVars, ghostVars
<1>2. backup[b].phase = "reconciled"  BY DEF ListArchives, In
<1>3. PICK h : /\ backup' = [backup EXCEPT ![b] = h]
              /\ h.phase = "tagging" /\ h.keep = backup[b].keep /\ DOMAIN h.todo = DOMAIN archives
  <2> DEFINE h == [phase |-> "tagging", scheduled |-> backup[b].scheduled,
                   value |-> backup[b].value, keep |-> backup[b].keep,
                   todo |-> [c \in DOMAIN archives |-> archives[c].completed]]
  <2>1. backup' = [backup EXCEPT ![b] = h]  BY Zenon DEF ListArchives
  <2>2. h.phase = "tagging" /\ h.keep = backup[b].keep /\ DOMAIN h.todo = DOMAIN archives  OBVIOUS
  <2> HIDE DEF h
  <2> QED BY <2>1, <2>2
<1>4. Others(b) /\ backup'[b] = h /\ UnderWay(b)  BY <1>2, <1>3 DEF Others, TypeOK, UnderWay
<1>5. Recorded' /\ FreshNames' /\ Guarded'
  BY <1>1, <1>2, <1>3, <1>4, FreshStay DEF Alone, Recorded, Unrecorded, Guarded
<1>6. TaggingOK(b)  BY DEF Alone, RunOK
<1>7. TaggingOK(b)'
  BY <1>1, <1>2, <1>3, <1>4, <1>6 DEF TaggingOK, In, Sees, Named
<1>8. RunOK(b)'
  BY <1>3, <1>4, <1>7 DEF RunOK, In, HeldOK, ValueOK, RecordedOK, AnchoredOK
<1> QED BY <1>1, <1>4, <1>5, <1>8, AloneAgain

(* What is untagged is not to be kept, so that no anchor names it or it    *)
(* was not guarded.                                                        *)
LEMMA SetTagAlone ==
    ASSUME TypeOK, Stamped, TypeOK', Alone, NEW b \in Backups, NEW c, SetTag(b, c)
    PROVE  Alone'
<1>1. UNCHANGED <<runs, latest, anchors, day, clock, settled, overlapped, blinded>>
  BY Tags
<1>2. backup[b].phase = "tagging" /\ c \in DOMAIN archives  BY Tags DEF Tagging
<1>3. PICK keep : keep = backup[b].keep  OBVIOUS
<1>4. /\ Others(b) /\ backup'[b].phase = "tagging" /\ backup'[b].keep = keep /\ UnderWay(b)
      /\ DOMAIN backup'[b].todo = DOMAIN backup[b].todo \ {c}
  <2>1. PICK h \in Tagging : /\ backup' = [backup EXCEPT ![b] = h]
                             /\ h.keep = keep /\ DOMAIN h.todo = DOMAIN backup[b].todo \ {c}
    BY <1>3, Tags
  <2>2. h.phase = "tagging"  BY DEF Tagging
  <2> QED BY <1>2, <2>1, <2>2 DEF Others, UnderWay, TypeOK
<1>5. /\ DOMAIN archives' = DOMAIN archives
      /\ archives'[c].tag = IF c \in keep THEN "monthly" ELSE "daily"
      /\ \A d \in DOMAIN archives \ {c} : archives'[d] = archives[d]
  BY <1>3, Tags
<1>6. guarded' = IF c \in keep THEN guarded \cup {c}
                 ELSE IF Named(c) THEN guarded ELSE guarded \ {c}
  BY <1>3, Tags
<1>7. /\ keep \subseteq Paths(runs)
      /\ \A m \in DOMAIN anchors : anchors[m].path \in guarded => anchors[m].path \in keep
      /\ Sees(b) =>
            /\ NotBefore(Readable(archives, runs), latest)
            /\ latest.path \in DOMAIN archives => Named(latest.path)
            /\ \A m \in DOMAIN anchors :
                  anchors[m].path \in DOMAIN archives => anchors[m].path \in keep
      /\ \A d \in keep \cap DOMAIN archives : d \in DOMAIN backup[b].todo \/ Tagged(archives, d)
  BY <1>2, <1>3 DEF Alone, RunOK, TaggingOK, In
<1>8. Readable(archives', runs) = Readable(archives, runs)  BY <1>5 DEF Readable
<1>9. c \notin keep => c \notin guarded'  BY <1>6, <1>7 DEF Named
<1>10. \A d \in guarded' : d = c \/ d \in guarded  BY <1>6
<1>11. Recorded'
  <2>1. guarded' \subseteq Paths(runs)
    BY <1>7, <1>9, <1>10 DEF Alone, Recorded
  <2> QED BY <2>1, <1>1 DEF Alone, Recorded
<1>12. Guarded'
  <2>1. ASSUME NEW d \in guarded' PROVE Tagged(archives', d)
    <3>1. CASE d = c  BY <3>1, <2>1, <1>2, <1>5, <1>9 DEF Tagged
    <3>2. CASE d # c
      <4>1. Tagged(archives, d)  BY <3>2, <1>10 DEF Alone, Guarded
      <4> QED BY <3>2, <4>1, <1>5 DEF Tagged
    <3> QED BY <3>1, <3>2
  <2> QED BY <2>1 DEF Guarded
<1>13. FreshNames'  BY <1>1, <1>2, <1>4, FreshStay DEF Alone, Unrecorded
<1>14. TaggingOK(b)'
  <2>1. ASSUME NEW d \in keep \cap DOMAIN archives'
        PROVE  d \in DOMAIN backup'[b].todo \/ Tagged(archives', d)
    <3>1. CASE d = c  BY <3>1, <2>1, <1>5 DEF Tagged
    <3>2. CASE d # c  BY <3>2, <2>1, <1>4, <1>5, <1>7 DEF Tagged
    <3> QED BY <3>1, <3>2
  <2>2. \A m \in DOMAIN anchors : anchors[m].path \in guarded' => anchors[m].path \in keep
    BY <1>7, <1>9, <1>10
  <2>3. Named(latest.path)' <=> Named(latest.path)  BY <1>1 DEF Named
  <2>4. Sees(b)' <=> Sees(b)  BY <1>1 DEF Sees
  <2> QED BY <2>1, <2>2, <2>3, <2>4, <1>1, <1>4, <1>5, <1>7, <1>8 DEF TaggingOK, In
<1>15. RunOK(b)'
  BY <1>4, <1>14 DEF RunOK, In, HeldOK, ValueOK, RecordedOK, AnchoredOK
<1> QED BY <1>1, <1>4, <1>11, <1>12, <1>13, <1>15, AloneAgain

LEMMA EndAlone ==
    ASSUME TypeOK, Stamped, TypeOK', Alone, NEW b \in Backups, Finish(b) \/ Fail(b) \/ Crash(b)
    PROVE  Alone'
<1>1. UNCHANGED <<archives, runs, latest, anchors, day, clock, overlapped, guarded>>
  BY DEF Finish, Fail, Crash, blobVars
<1>2. Others(b) /\ backup'[b].phase = "done" /\ UnderWay(b)
  BY EndedTypes DEF Finish, Fail, Crash, Others, UnderWay, In
<1>3. OneRun' /\ \A c \in Backups : ~UnderWay(c)'
  BY <1>2, OthersRest DEF Alone, UnderWay
<1>4. \A c \in Backups : RunOK(c)'  BY <1>3, AtRestAfter
<1>5. Recorded' /\ Guarded'  BY <1>1 DEF Alone, Recorded, Guarded
<1>6. FreshNames'  BY <1>1, <1>2, FreshStay DEF Alone, Unrecorded
<1>7. Recovered'
  <2>1. CASE Finish(b)
    <3>1. /\ backup[b].phase = "tagging" /\ DOMAIN backup[b].todo = {}
          /\ settled' = (b \notin blinded)
      BY <2>1 DEF Finish, In
    <3>2. SUFFICES ASSUME b \notin blinded PROVE Recovered'
      BY <3>1 DEF Recovered
    <3>3. /\ NotBefore(Readable(archives, runs), latest)
          /\ latest.path \in DOMAIN archives => Named(latest.path)
          /\ \A m \in DOMAIN anchors :
                anchors[m].path \in DOMAIN archives => anchors[m].path \in backup[b].keep
          /\ \A c \in backup[b].keep \cap DOMAIN archives : Tagged(archives, c)
      BY <3>1, <3>2 DEF Alone, RunOK, TaggingOK, In, Sees
    <3>4. latest # None  BY NoneAssumption DEF TypeOK
    <3>5. Uploaded \subseteq Readable(archives, runs)  BY DEF Uploaded, Readable, Verified
    <3>6. Verified(latest) =>
             /\ \A u \in Uploaded : u.completed <= latest.completed
             /\ Named(latest.path)
      BY <3>3, <3>5 DEF Verified, NotBefore
    <3>7. \A m \in DOMAIN anchors : Verified(anchors[m]) => archives[anchors[m].path].tag = "monthly"
      BY <3>3 DEF Verified, Tagged
    <3> QED BY <1>1, <3>4, <3>6, <3>7 DEF Recovered, Uploaded, Verified, Named
  <2>2. CASE Fail(b) \/ Crash(b)
    <3>1. settled' = settled  BY <2>2 DEF Fail, Crash
    <3>2. ~settled'  BY <3>1, <1>2 DEF Alone, Settled
    <3> QED BY <3>2 DEF Recovered
  <2> QED BY <2>1, <2>2
<1>8. Settled'  BY <1>3 DEF Settled
<1> QED BY <1>3, <1>4, <1>5, <1>6, <1>7, <1>8 DEF Alone

(* The rule takes only archives that are not tagged.                       *)
LEMMA LifecycleDeletesAlone ==
    ASSUME TypeOK, Stamped, TypeOK', Alone, NEW b \in Backups, LifecycleDeletes(b)
    PROVE  Alone'
<1>1. UNCHANGED <<backup, runs, latest, anchors, day, clock, settled, overlapped, guarded, blinded>>
  BY DEF LifecycleDeletes, ghostVars
<1>2. /\ DOMAIN archives' \subseteq DOMAIN archives
      /\ \A c \in DOMAIN archives' : archives'[c] = archives[c]
      /\ \A c \in DOMAIN archives : archives[c].tag = "monthly" => c \in DOMAIN archives'
  BY DEF LifecycleDeletes
<1>3. Readable(archives', runs) \subseteq Readable(archives, runs)  BY <1>2 DEF Readable
<1>5. \A p : Tagged(archives', p) <=> Tagged(archives, p)  BY <1>2 DEF Tagged
<1>6. OneRun' /\ Settled' /\ Recorded' /\ FreshNames' /\ Guarded'
  BY <1>1, <1>5 DEF Alone, OneRun, Settled, Recorded, FreshNames, UnderWay, Unrecorded, Guarded
<1>8. Recovered'
  <2>1. SUFFICES ASSUME settled, ~overlapped PROVE Recovered'  BY <1>1 DEF Recovered
  <2>2. Recovered  BY DEF Alone
  <2>3. /\ latest # None
        /\ Verified(latest) =>
              /\ \A u \in Uploaded : u.completed <= latest.completed
              /\ Named(latest.path)
        /\ \A m \in DOMAIN anchors : Verified(anchors[m]) => archives[anchors[m].path].tag = "monthly"
    BY <2>1, <2>2 DEF Recovered
  <2>4. Uploaded' \subseteq Uploaded /\ (Verified(latest)' => Verified(latest))
    BY <1>1, <1>2 DEF Uploaded, Verified
  <2>5. Named(latest.path)' <=> Named(latest.path)  BY <1>1 DEF Named
  <2>6. ASSUME NEW m \in DOMAIN anchors, Verified(anchors[m])'
        PROVE  archives'[anchors[m].path].tag = "monthly"
    <3>1. anchors[m].path \in DOMAIN archives' /\ Verified(anchors[m])
      BY <1>1, <1>2, <2>6 DEF Verified
    <3> QED BY <3>1, <1>2, <2>3
  <2> QED BY <1>1, <2>3, <2>4, <2>5, <2>6 DEF Recovered
<1>9. ASSUME NEW c \in Backups PROVE RunOK(c)'
  <2>1. HeldOK(c) /\ ValueOK(c) /\ RecordedOK(c) /\ AnchoredOK(c) /\ TaggingOK(c)
    BY DEF Alone, RunOK
  <2>2. HeldOK(c)' /\ ValueOK(c)'
    BY <2>1, <1>1, <1>3 DEF HeldOK, ValueOK, In, NotBefore, Sees
  <2>3. RecordedOK(c)' /\ AnchoredOK(c)'
    BY <2>1, <1>1, <1>3 DEF RecordedOK, AnchoredOK, In, NotBefore, Sees
  <2>4. TaggingOK(c)'
    BY <2>1, <1>1, <1>2, <1>3, <1>5 DEF TaggingOK, In, NotBefore, Sees, Named
  <2> QED BY <2>2, <2>3, <2>4 DEF RunOK
<1> QED BY <1>6, <1>8, <1>9 DEF Alone

LEMMA RestAlone ==
    ASSUME TypeOK, Stamped, TypeOK', Alone, LeaseEnds \/ NextDay
    PROVE  Alone'
<1>1. UNCHANGED <<backup, archives, runs, latest, anchors, clock, settled, overlapped, guarded, blinded>>
  BY DEF LeaseEnds, NextDay, blobVars, ghostVars
<1>2. OneRun' /\ Settled' /\ FreshNames' /\ Guarded'
  BY <1>1 DEF Alone, OneRun, Settled, FreshNames, UnderWay, Unrecorded, Guarded
<1>3. Recovered'  BY <1>1 DEF Alone, Recovered, Uploaded, Verified, Named
<1>4. Recorded'
  <2>1. Month(day) \in Nat /\ Month(day') \in Nat /\ Month(day) <= Month(day')
    <3>1. day \in Nat \ {0} /\ day' \in Nat \ {0} /\ day <= day'
      BY BackupAssumption DEF TypeOK, LeaseEnds, NextDay
    <3> QED BY <3>1, MonthsFollow
  <2>2. \A u \in runs : u.month \in 1 .. Month(day')  BY <2>1 DEF Alone, Recorded
  <2> QED BY <1>1, <2>2 DEF Alone, Recorded
<1>5. ASSUME NEW c \in Backups PROVE RunOK(c)'
  <2>1. CASE LeaseEnds
    <3>1. day' = day  BY <2>1 DEF LeaseEnds
    <3> QED BY <1>1, <3>1, AllAsBefore
  <2>2. CASE NextDay
    <3>1. ~UnderWay(c)'  BY <1>1, <2>2 DEF NextDay, UnderWay
    <3> QED BY <3>1, AtRestAfter
  <2> QED BY <2>1, <2>2
<1> QED BY <1>2, <1>3, <1>4, <1>5 DEF Alone

-----------------------------------------------------------------------------
LEMMA InitAlone == DataOK /\ BackupInit => Alone
<1> SUFFICES ASSUME DataOK, BackupInit PROVE Alone  OBVIOUS
<1>1. TypeOK  BY InitTypes
<1>2. PICK e \in Values : e = Earlier  BY <1>1 DEF BackupInit, TypeOK
<1>3. e.path = First /\ e.state = "UPLOADED" /\ e.completed = 0 /\ e.month = 1
  BY <1>2 DEF Earlier
<1>4. /\ runs = {e} /\ latest = e /\ anchors = [m \in {1} |-> e] /\ day = 1 /\ guarded = {First}
      /\ settled /\ ~overlapped
  BY <1>2 DEF BackupInit
<1>5. DOMAIN archives = {First} /\ archives[First].tag = "monthly"  BY DEF BackupInit
<1>6. \A b \in Backups : backup[b].phase = IF b = First THEN "done" ELSE "idle"
  BY DEF BackupInit, Ended, Resting
<1>7. \A b \in Backups : ~UnderWay(b)  BY <1>6 DEF UnderWay
<1>8. OneRun /\ Settled  BY <1>7 DEF OneRun, Settled
<1>9. Recorded
  <2>1. 1 \in 1 .. Month(day)  BY <1>4, MonthsFollow
  <2> QED BY <2>1, <1>3, <1>4 DEF Recorded, Paths
<1>11. FreshNames  BY <1>3, <1>4, <1>6 DEF FreshNames, Unrecorded, Paths
<1>12. Recovered
  <2>1. latest # None  BY <1>1, NoneAssumption DEF TypeOK
  <2>2. \A u \in Uploaded : u.completed <= latest.completed  BY <1>3, <1>4 DEF Uploaded
  <2>3. Named(latest.path)  BY <1>4 DEF Named
  <2>4. \A m \in DOMAIN anchors : archives[anchors[m].path].tag = "monthly"  BY <1>3, <1>4, <1>5
  <2> QED BY <2>1, <2>2, <2>3, <2>4 DEF Recovered
<1>13. \A b \in Backups : RunOK(b)  BY <1>1, <1>7, AtRest
<1>14. Guarded  BY <1>4, <1>5 DEF Guarded, Tagged
<1> QED BY <1>8, <1>9, <1>11, <1>12, <1>13, <1>14 DEF Alone

LEMMA StepAlone ==
    ASSUME TypeOK, Stamped, Alone, DataOK, BackupNext, ~overlapped'
    PROVE  Alone'
<1>1. TypeOK' /\ Stamped'  BY StepTypes DEF TypeStep
<1>2. CASE LeaseEnds \/ NextDay  BY <1>1, <1>2, RestAlone
<1>3. ASSUME NEW b \in Backups, BackupStep(b)
      PROVE  Alone'
  <2>1. CASE \E s, o \in BOOLEAN : Start(b, s, o)  BY <1>1, <2>1, StartAlone
  <2>2. CASE Acquire(b)  BY <1>1, <2>2, AcquireAlone
  <2>3. CASE \E hidden \in SUBSET runs : RecoverLatest(b, hidden)
    BY <1>1, <2>3, RecoverLatestAlone
  <2>4. CASE Export(b)  BY <1>1, <2>4, ExportAlone
  <2>5. CASE Upload(b)  BY <1>1, <2>5, UploadAlone
  <2>6. CASE WriteRun(b)  BY <1>1, <2>6, WriteRunAlone
  <2>7. CASE UpdateLatest(b)  BY <1>1, <2>7, UpdateLatestAlone
  <2>8. CASE WriteMonthlyAnchor(b)  BY <1>1, <2>8, WriteMonthlyAnchorAlone
  <2>9. CASE \E hidden \in SUBSET runs : ReconcileAnchors(b, hidden)
    BY <1>1, <2>9, ReconcileAnchorsAlone
  <2>10. CASE ListArchives(b)  BY <1>1, <2>10, ListArchivesAlone
  <2>11. CASE \E c \in Backups : SetTag(b, c)  BY <1>1, <2>11, SetTagAlone
  <2>12. CASE Finish(b) \/ Fail(b) \/ Crash(b)  BY <1>1, <2>12, EndAlone
  <2>13. CASE LifecycleDeletes(b)  BY <1>1, <2>13, LifecycleDeletesAlone
  <2> QED
    BY <1>3, <2>1, <2>2, <2>3, <2>4, <2>5, <2>6, <2>7, <2>8, <2>9, <2>10, <2>11, <2>12, <2>13
    DEF BackupStep
<1> QED BY <1>2, <1>3 DEF BackupNext

(* Whether runs overlapped is never forgotten.                             *)
LEMMA NeverForgotten ==
    ASSUME BackupNext
    PROVE  overlapped => overlapped'
<1>1. CASE LeaseEnds \/ NextDay  BY <1>1 DEF LeaseEnds, NextDay, ghostVars
<1>2. ASSUME NEW b \in Backups, BackupStep(b)
      PROVE  overlapped => overlapped'
  <2>1. CASE Acquire(b)
    <3>2. CASE lease = None
      <4>1. overlapped' = (overlapped \/ \E c \in Backups : UnderWay(c))
        BY <2>1, <3>2 DEF Acquire
      <4> QED BY <4>1, Zenon
    <3>3. CASE lease # None  BY <2>1, <3>3 DEF Acquire
    <3> QED BY <3>2, <3>3
  <2>2. CASE ~Acquire(b)
    <3>1. overlapped' = overlapped
      BY <1>2, <2>2 DEF BackupStep, Start, RecoverLatest, Export, Upload, WriteRun, UpdateLatest,
         WriteMonthlyAnchor, ReconcileAnchors, ListArchives, SetTag, Tag, Finish, Fail, Crash,
         LifecycleDeletes, ghostVars
    <3> QED BY <3>1
  <2> QED BY <2>1, <2>2
<1> QED BY <1>1, <1>2 DEF BackupNext

LEMMA IInvStep == IInv /\ DataOK /\ [BackupNext]_backupVars => IInv'
<1> SUFFICES ASSUME IInv, DataOK, [BackupNext]_backupVars PROVE IInv'  OBVIOUS
<1>1. TypeOK' /\ Stamped'  BY StepTypes DEF IInv, TypeStep
<1>2. CASE UNCHANGED backupVars
  <2>1. UNCHANGED <<backup, archives, runs, latest, anchors, day, clock, settled, overlapped, guarded,
                    blinded>>
    BY <1>2 DEF backupVars, blobVars, ghostVars
  <2>2. ASSUME Alone PROVE Alone'
    <3>1. \A b \in Backups : RunOK(b)'  BY <2>1, <2>2, AllAsBefore
    <3>2. OneRun' /\ Settled' /\ FreshNames' /\ Guarded'
      BY <2>1, <2>2 DEF Alone, OneRun, Settled, FreshNames, UnderWay, Unrecorded, Guarded
    <3>3. Recorded' /\ Recovered'
      BY <2>1, <2>2 DEF Alone, Recorded, Recovered, Uploaded, Verified, Named
    <3> QED BY <3>1, <3>2, <3>3 DEF Alone
  <2> QED BY <1>1, <2>1, <2>2 DEF IInv
<1>3. CASE BackupNext
  <2>1. overlapped => overlapped'  BY <1>3, NeverForgotten
  <2>2. ~overlapped' => Alone'  BY <1>3, <2>1, StepAlone DEF IInv
  <2> QED BY <1>1, <2>2 DEF IInv
<1> QED BY <1>2, <1>3

(* What the invariant says of a state: what was guarded is tagged, hence   *)
(* there.                                                                  *)
LEMMA IInvProtects == IInv => ArchivesProtected
<1> SUFFICES ASSUME IInv PROVE AnchorsStand /\ Recovered  BY DEF ArchivesProtected
<1>1. Recovered
  <2>1. CASE overlapped  BY <2>1 DEF Recovered
  <2>2. CASE ~overlapped  BY <2>2 DEF IInv, Alone
  <2> QED BY <2>1, <2>2
<1>2. AnchorsStand
  <2>1. SUFFICES ASSUME ~overlapped, NEW m \in DOMAIN anchors, anchors[m].path \in guarded
                 PROVE  Verified(anchors[m])
    BY DEF AnchorsStand
  <2>2. Tagged(archives, anchors[m].path)  BY <2>1 DEF IInv, Alone, Guarded
  <2>3. anchors[m] # None  BY NoneAssumption DEF IInv, TypeOK
  <2> QED BY <2>2, <2>3 DEF Tagged, Verified
<1> QED BY <1>1, <1>2

(* While runs follow one another, every archive that was tagged for an     *)
(* anchor is there for as long as an anchor names it, whatever runs left   *)
(* undone, unless a run could not read it; and a run that could read       *)
(* everything and ends well has repaired pointer, anchors and tags.        *)
THEOREM ProtectionHolds == BackupSpec => []ArchivesProtected
<1>1. DataOK /\ BackupInit => IInv  BY InitTypes, InitAlone DEF IInv
<1>2. IInv /\ DataOK /\ [BackupNext]_backupVars => IInv'  BY IInvStep
<1> QED BY <1>1, <1>2, IInvProtects, PTL DEF BackupSpec, DataOK

-----------------------------------------------------------------------------
(* Imports. *)

vars == <<dataVars, importVars>>

-----------------------------------------------------------------------------
Phases ==
    {"idle", "locking", "locked", "applying", "creating", "created", "compensating", "deleting",
     "releasing", "done"}

Plans == [Items -> {"CREATE", "SKIP_IDENTICAL", "SKIP_CONFLICT", "CONFLICT_REQUIRES_CHOICE"}]

Held ==
    [phase : Phases, skip : BOOLEAN, plan : Plans \cup {<<>>}, todo : SUBSET Items,
     held : Documents \cup {None}, errors : BOOLEAN]

Journals ==
    [state : {None, "PREPARED", "APPLYING", "COMPLETED", "ROLLED_BACK",
              "PARTIAL_REQUIRES_ATTENTION"},
     planned : SUBSET Items, created : SUBSET Items]

ImportTypeOK ==
    /\ data \in [Items -> {None} \cup Documents]
    /\ edits \in 0 .. MaxEdits
    /\ import \in [Imports -> Held]
    /\ journal \in [Imports -> Journals]
    /\ lock \in Imports \cup {None}
    /\ expired \in BOOLEAN

(* Nothing that r created is left.                                         *)
Clean(r, d) == \A i \in Items : d[i] # None => d[i].by # r

(* It cannot have been anybody else who created these.                     *)
Own(r, d, S) == \A i \in S : d[i] # None => d[i].by \in {r, None}

(* What r holds (m) and has on record (j) accounts for what it created:    *)
(* before the inventory nothing; then only what is planned; and nothing    *)
(* when the record says so.                                                *)
Accounted(r, m, j, d) ==
    /\ m.phase \in {"idle", "locking", "locked", "applying"} => Clean(r, d) /\ j.planned = {}
    /\ \A i \in Items : d[i] # None /\ d[i].by = r => i \in j.planned
    /\ m.phase \in {"creating", "created", "compensating", "deleting"} => m.todo \subseteq j.planned
    /\ j.state = "ROLLED_BACK" => m.phase \in {"idle", "releasing", "done"} /\ Clean(r, d)
    /\ m.phase = "deleting" => m.held # None /\ m.held.content = "archived"

(* While r works on documents under the lock, nobody else may create them. *)
Works(m, j) ==
    \/ m.phase \in {"locked", "applying", "creating", "created"}
    \/ m.phase \in {"compensating", "deleting"} /\ j.planned # {}

Plotted(m, j) ==
    IF m.phase = "applying" THEN {i \in Items : m.plan[i] = "CREATE"} ELSE j.planned

Apart(r, m, j, d, k) == Works(m, j) => k = r /\ Own(r, d, Plotted(m, j))

ImportIInv ==
    /\ ImportTypeOK
    /\ \A r \in Imports : Accounted(r, import[r], journal[r], data)
    /\ ~expired => \A r \in Imports : Apart(r, import[r], journal[r], data, lock)

-----------------------------------------------------------------------------
LEMMA PlanTyped ==
    ASSUME NEW skip \in BOOLEAN
    PROVE  Plan(skip) \in Plans
BY DEF Plan, Plans

LEMMA NobodyNone == \A r \in Imports : r # None
BY ImportAssumption

(* A step of one import, which touches no document: what it holds and has  *)
(* on record must account for its own documents, and others keep the lock. *)
LEMMA JournalKeeps ==
    ASSUME ImportIInv, NEW r \in Imports, UNCHANGED <<data, edits, expired>>,
           import' \in [Imports -> Held], journal' \in [Imports -> Journals],
           lock' \in Imports \cup {None},
           \A s \in Imports \ {r} : import'[s] = import[s] /\ journal'[s] = journal[s],
           \A s \in Imports \ {r} : lock = s => lock' = s,
           Accounted(r, import'[r], journal'[r], data),
           ~expired => Apart(r, import'[r], journal'[r], data, lock')
    PROVE  ImportIInv'
<1>1. ImportTypeOK'
  BY DEF ImportIInv, ImportTypeOK
<1>2. (\A s \in Imports : Accounted(s, import[s], journal[s], data))'
  <2> SUFFICES ASSUME NEW s \in Imports
               PROVE  Accounted(s, import'[s], journal'[s], data')
    OBVIOUS
  <2>1. CASE s = r
    BY <2>1
  <2>2. CASE s # r
    <3>1. Accounted(s, import[s], journal[s], data)
      BY DEF ImportIInv
    <3>2. import'[s] = import[s] /\ journal'[s] = journal[s] /\ data' = data
      BY <2>2
    <3> QED BY <3>1, <3>2
  <2> QED BY <2>1, <2>2
<1>3. (~expired => \A s \in Imports : Apart(s, import[s], journal[s], data, lock))'
  <2> SUFFICES ASSUME ~expired, NEW s \in Imports
               PROVE  Apart(s, import'[s], journal'[s], data', lock')
    OBVIOUS
  <2>1. CASE s = r
    BY <2>1
  <2>2. CASE s # r
    <3>1. Apart(s, import[s], journal[s], data, lock)
      BY DEF ImportIInv
    <3>2. /\ import'[s] = import[s] /\ journal'[s] = journal[s] /\ data' = data
          /\ lock = s => lock' = s
      BY <2>2
    <3> QED BY <3>1, <3>2 DEF Apart
  <2> QED BY <2>1, <2>2
<1> QED BY <1>1, <1>2, <1>3 DEF ImportIInv

LEMMA CallFailsKeeps ==
    ASSUME ImportIInv, NEW r \in Imports, CallFails(r), UNCHANGED dataVars
    PROVE  ImportIInv'
<1>1. /\ ImportTypeOK
      /\ Accounted(r, import[r], journal[r], data)
      /\ ~expired => Apart(r, import[r], journal[r], data, lock)
  BY DEF ImportIInv
<1>2. /\ import[r] \in Held /\ journal[r] \in Journals
      /\ DOMAIN import = Imports /\ DOMAIN journal = Imports
  BY <1>1 DEF ImportTypeOK
<1>3. /\ UNCHANGED <<data, edits, expired>>
      /\ import' \in [Imports -> Held] /\ journal' \in [Imports -> Journals]
      /\ lock' \in Imports \cup {None}
      /\ \A s \in Imports \ {r} : import'[s] = import[s] /\ journal'[s] = journal[s]
      /\ \A s \in Imports \ {r} : lock = s => lock' = s
  BY <1>1, <1>2, NobodyNone DEF CallFails, Raise, Compensating, Idle, ImportTypeOK, Held, Journals, Phases, dataVars
<1>4. Accounted(r, import'[r], journal'[r], data)
  BY <1>1, <1>2 DEF CallFails, Raise, Compensating, Idle, Accounted, Held, Journals
<1>5. ~expired => Apart(r, import'[r], journal'[r], data, lock')
  BY <1>1, <1>2 DEF CallFails, Raise, Compensating, Idle, Accounted, Apart, Works, Plotted, Own, Held, Journals
<1> QED BY <1>3, <1>4, <1>5, JournalKeeps

LEMMA ApplyKeeps ==
    ASSUME ImportIInv, NEW r \in Imports, NEW skip \in BOOLEAN, Apply(r, skip), UNCHANGED dataVars
    PROVE  ImportIInv'
<1>1. /\ ImportTypeOK
      /\ Accounted(r, import[r], journal[r], data)
      /\ ~expired => Apart(r, import[r], journal[r], data, lock)
  BY DEF ImportIInv
<1>2. /\ import[r] \in Held /\ journal[r] \in Journals
      /\ DOMAIN import = Imports /\ DOMAIN journal = Imports
  BY <1>1 DEF ImportTypeOK
<1>3. /\ UNCHANGED <<data, edits, expired>>
      /\ import' \in [Imports -> Held] /\ journal' \in [Imports -> Journals]
      /\ lock' \in Imports \cup {None}
      /\ \A s \in Imports \ {r} : import'[s] = import[s] /\ journal'[s] = journal[s]
      /\ \A s \in Imports \ {r} : lock = s => lock' = s
  BY <1>1, <1>2, NobodyNone, PlanTyped DEF Apply, At, ImportTypeOK, Held, Journals, Phases, dataVars
<1>4. Accounted(r, import'[r], journal'[r], data)
  BY <1>1, <1>2 DEF Apply, At, Accounted, Held, Journals
<1>5. ~expired => Apart(r, import'[r], journal'[r], data, lock')
  BY <1>1, <1>2 DEF Apply, At, Accounted, Apart, Works, Plotted, Own, Held, Journals
<1> QED BY <1>3, <1>4, <1>5, JournalKeeps

LEMMA AcquireKeeps ==
    ASSUME ImportIInv, NEW r \in Imports, AcquireLock(r), UNCHANGED dataVars
    PROVE  ImportIInv'
<1>a. CASE ~(lock = None)
  <2>1. At(r, "locking") /\ Raise(r) /\ UNCHANGED <<journal, lock, expired>>
    BY <1>a DEF AcquireLock
  <2>2. CallFails(r)
    BY <2>1 DEF CallFails, At
  <2> QED BY <2>2, CallFailsKeeps
<1>b. CASE lock = None
  <2>0. /\ At(r, "locking") /\ UNCHANGED <<journal, expired>>
          /\ lock' = r /\ import' = [import EXCEPT ![r].phase = "locked"]
    BY <1>b DEF AcquireLock, Move
  <2>1. /\ ImportTypeOK
        /\ Accounted(r, import[r], journal[r], data)
        /\ ~expired => Apart(r, import[r], journal[r], data, lock)
    BY DEF ImportIInv
  <2>2. /\ import[r] \in Held /\ journal[r] \in Journals
        /\ DOMAIN import = Imports /\ DOMAIN journal = Imports
    BY <2>1 DEF ImportTypeOK
  <2>3. /\ UNCHANGED <<data, edits, expired>>
        /\ import' \in [Imports -> Held] /\ journal' \in [Imports -> Journals]
        /\ lock' \in Imports \cup {None}
        /\ \A s \in Imports \ {r} : import'[s] = import[s] /\ journal'[s] = journal[s]
        /\ \A s \in Imports \ {r} : lock = s => lock' = s
    BY <1>b, <2>1, <2>2, <2>0, NobodyNone DEF At, ImportTypeOK, Held, Journals, Phases, dataVars
  <2>4. Accounted(r, import'[r], journal'[r], data)
    BY <2>1, <2>2, <2>0 DEF At, Accounted, Held, Journals
  <2>5. ~expired => Apart(r, import'[r], journal'[r], data, lock')
    BY <2>1, <2>2, <2>0 DEF At, Accounted, Apart, Works, Plotted, Own, Held, Journals
  <2> QED BY <2>3, <2>4, <2>5, JournalKeeps
<1> QED BY <1>a, <1>b

LEMMA RecheckKeeps ==
    ASSUME ImportIInv, NEW r \in Imports, Recheck(r), UNCHANGED dataVars
    PROVE  ImportIInv'
<1>a. CASE ~(Plan(import[r].skip) = import[r].plan)
  <2>1. At(r, "locked") /\ Raise(r) /\ UNCHANGED <<journal, lock, expired>>
    BY <1>a DEF Recheck
  <2>2. CallFails(r)
    BY <2>1 DEF CallFails, At
  <2> QED BY <2>2, CallFailsKeeps
<1>b. CASE Plan(import[r].skip) = import[r].plan
  <2>0. /\ At(r, "locked") /\ UNCHANGED <<lock, expired>>
          /\ import' = [import EXCEPT ![r].phase = "applying"]
          /\ journal' = [journal EXCEPT ![r].state = "APPLYING"]
          /\ \A i \in Items : import[r].plan[i] = "CREATE" => data[i] = None
    BY <1>b DEF Recheck, Move, Plan
  <2>1. /\ ImportTypeOK
        /\ Accounted(r, import[r], journal[r], data)
        /\ ~expired => Apart(r, import[r], journal[r], data, lock)
    BY DEF ImportIInv
  <2>2. /\ import[r] \in Held /\ journal[r] \in Journals
        /\ DOMAIN import = Imports /\ DOMAIN journal = Imports
    BY <2>1 DEF ImportTypeOK
  <2>3. /\ UNCHANGED <<data, edits, expired>>
        /\ import' \in [Imports -> Held] /\ journal' \in [Imports -> Journals]
        /\ lock' \in Imports \cup {None}
        /\ \A s \in Imports \ {r} : import'[s] = import[s] /\ journal'[s] = journal[s]
        /\ \A s \in Imports \ {r} : lock = s => lock' = s
    BY <2>1, <2>2, <2>0, NobodyNone DEF At, ImportTypeOK, Held, Journals, Phases, dataVars
  <2>4. Accounted(r, import'[r], journal'[r], data)
    BY <2>1, <2>2, <2>0 DEF At, Accounted, Held, Journals
  <2>5. ~expired => Apart(r, import'[r], journal'[r], data, lock')
    BY <2>1, <2>2, <2>0 DEF At, Accounted, Apart, Works, Plotted, Own, Held, Journals
  <2> QED BY <2>3, <2>4, <2>5, JournalKeeps
<1> QED BY <1>a, <1>b

LEMMA InventoryKeeps ==
    ASSUME ImportIInv, NEW r \in Imports, PrepareInventory(r), UNCHANGED dataVars
    PROVE  ImportIInv'
<1>1. /\ ImportTypeOK
      /\ Accounted(r, import[r], journal[r], data)
      /\ ~expired => Apart(r, import[r], journal[r], data, lock)
  BY DEF ImportIInv
<1>2. /\ import[r] \in Held /\ journal[r] \in Journals
      /\ DOMAIN import = Imports /\ DOMAIN journal = Imports
  BY <1>1 DEF ImportTypeOK
<1>3. /\ UNCHANGED <<data, edits, expired>>
      /\ import' \in [Imports -> Held] /\ journal' \in [Imports -> Journals]
      /\ lock' \in Imports \cup {None}
      /\ \A s \in Imports \ {r} : import'[s] = import[s] /\ journal'[s] = journal[s]
      /\ \A s \in Imports \ {r} : lock = s => lock' = s
  BY <1>1, <1>2, NobodyNone DEF PrepareInventory, At, Creates, ImportTypeOK, Held, Journals, Phases, dataVars
<1>4. Accounted(r, import'[r], journal'[r], data)
  BY <1>1, <1>2 DEF PrepareInventory, At, Creates, Accounted, Held, Journals
<1>5. ~expired => Apart(r, import'[r], journal'[r], data, lock')
  BY <1>1, <1>2 DEF PrepareInventory, At, Creates, Accounted, Apart, Works, Plotted, Own, Held, Journals
<1> QED BY <1>3, <1>4, <1>5, JournalKeeps

LEMMA ConflictKeeps ==
    ASSUME ImportIInv, NEW r \in Imports, NEW i \in Items, CreateConflicts(r, i), UNCHANGED dataVars
    PROVE  ImportIInv'
<1>1. /\ ImportTypeOK
      /\ Accounted(r, import[r], journal[r], data)
      /\ ~expired => Apart(r, import[r], journal[r], data, lock)
  BY DEF ImportIInv
<1>2. /\ import[r] \in Held /\ journal[r] \in Journals
      /\ DOMAIN import = Imports /\ DOMAIN journal = Imports
  BY <1>1 DEF ImportTypeOK
<1>3. /\ UNCHANGED <<data, edits, expired>>
      /\ import' \in [Imports -> Held] /\ journal' \in [Imports -> Journals]
      /\ lock' \in Imports \cup {None}
      /\ \A s \in Imports \ {r} : import'[s] = import[s] /\ journal'[s] = journal[s]
      /\ \A s \in Imports \ {r} : lock = s => lock' = s
  BY <1>1, <1>2, NobodyNone DEF CreateConflicts, Creating, At, Raise, Compensating, Idle, ImportTypeOK, Held, Journals, Phases, dataVars
<1>4. Accounted(r, import'[r], journal'[r], data)
  BY <1>1, <1>2 DEF CreateConflicts, Creating, At, Raise, Compensating, Idle, Accounted, Held, Journals
<1>5. ~expired => Apart(r, import'[r], journal'[r], data, lock')
  BY <1>1, <1>2 DEF CreateConflicts, Creating, At, Raise, Compensating, Idle, Accounted, Apart, Works, Plotted, Own, Held, Journals
<1> QED BY <1>3, <1>4, <1>5, JournalKeeps

LEMMA TransitionKeeps ==
    ASSUME ImportIInv, NEW r \in Imports, NEW i \in Items, TransitionItem(r, i), UNCHANGED dataVars
    PROVE  ImportIInv'
<1>1. /\ ImportTypeOK
      /\ Accounted(r, import[r], journal[r], data)
      /\ ~expired => Apart(r, import[r], journal[r], data, lock)
  BY DEF ImportIInv
<1>2. /\ import[r] \in Held /\ journal[r] \in Journals
      /\ DOMAIN import = Imports /\ DOMAIN journal = Imports
  BY <1>1 DEF ImportTypeOK
<1>3. /\ UNCHANGED <<data, edits, expired>>
      /\ import' \in [Imports -> Held] /\ journal' \in [Imports -> Journals]
      /\ lock' \in Imports \cup {None}
      /\ \A s \in Imports \ {r} : import'[s] = import[s] /\ journal'[s] = journal[s]
      /\ \A s \in Imports \ {r} : lock = s => lock' = s
  BY <1>1, <1>2, NobodyNone DEF TransitionItem, At, ImportTypeOK, Held, Journals, Phases, dataVars
<1>4. Accounted(r, import'[r], journal'[r], data)
  BY <1>1, <1>2 DEF TransitionItem, At, Accounted, Held, Journals
<1>5. ~expired => Apart(r, import'[r], journal'[r], data, lock')
  BY <1>1, <1>2 DEF TransitionItem, At, Accounted, Apart, Works, Plotted, Own, Held, Journals
<1> QED BY <1>3, <1>4, <1>5, JournalKeeps

LEMMA PostflightKeeps ==
    ASSUME ImportIInv, NEW r \in Imports, Postflight(r), UNCHANGED dataVars
    PROVE  ImportIInv'
<1>a. CASE ~(LET plan == Plan(import[r].skip)
             IN  Valid(plan) /\ \A i \in Items : plan[i] # "CREATE")
  <2>1. At(r, "creating") /\ Raise(r) /\ UNCHANGED <<journal, lock, expired>>
    BY <1>a DEF Postflight
  <2>2. CallFails(r)
    BY <2>1 DEF CallFails, At
  <2> QED BY <2>2, CallFailsKeeps
<1>b. CASE LET plan == Plan(import[r].skip)
             IN  Valid(plan) /\ \A i \in Items : plan[i] # "CREATE"
  <2>0. /\ At(r, "creating") /\ UNCHANGED <<lock, expired>>
          /\ import' = [import EXCEPT ![r] = [Idle EXCEPT !.phase = "releasing"]]
          /\ journal' = [journal EXCEPT ![r].state = "COMPLETED"]
    BY <1>b DEF Postflight, Release
  <2>1. /\ ImportTypeOK
        /\ Accounted(r, import[r], journal[r], data)
        /\ ~expired => Apart(r, import[r], journal[r], data, lock)
    BY DEF ImportIInv
  <2>2. /\ import[r] \in Held /\ journal[r] \in Journals
        /\ DOMAIN import = Imports /\ DOMAIN journal = Imports
    BY <2>1 DEF ImportTypeOK
  <2>3. /\ UNCHANGED <<data, edits, expired>>
        /\ import' \in [Imports -> Held] /\ journal' \in [Imports -> Journals]
        /\ lock' \in Imports \cup {None}
        /\ \A s \in Imports \ {r} : import'[s] = import[s] /\ journal'[s] = journal[s]
        /\ \A s \in Imports \ {r} : lock = s => lock' = s
    BY <2>1, <2>2, <2>0, NobodyNone DEF At, Idle, ImportTypeOK, Held, Journals, Phases, dataVars
  <2>4. Accounted(r, import'[r], journal'[r], data)
    BY <2>1, <2>2, <2>0 DEF At, Idle, Accounted, Held, Journals
  <2>5. ~expired => Apart(r, import'[r], journal'[r], data, lock')
    BY <2>1, <2>2, <2>0 DEF At, Idle, Accounted, Apart, Works, Plotted, Own, Held, Journals
  <2> QED BY <2>3, <2>4, <2>5, JournalKeeps
<1> QED BY <1>a, <1>b

UndoneWith(r, i, e) ==
    import' = [import EXCEPT ![r].phase = "compensating", ![r].todo = @ \ {i},
                  ![r].held = None, ![r].errors = e]

LEMMA UndoneTyped ==
    ASSUME ImportTypeOK, NEW r \in Imports, NEW i \in Items, NEW failed \in BOOLEAN,
           NextUndo(r, i, failed)
    PROVE  \E e \in BOOLEAN : UndoneWith(r, i, e)
<1>1. (import[r].errors \/ failed) \in BOOLEAN
  OBVIOUS
<1>2. UndoneWith(r, i, import[r].errors \/ failed)
  BY Zenon DEF NextUndo, UndoneWith
<1> QED BY <1>1, <1>2, Zenon

LEMMA SkipKeeps ==
    ASSUME ImportIInv, NEW r \in Imports, NEW i \in Items, SkipItem(r, i), UNCHANGED dataVars
    PROVE  ImportIInv'
<1>1. /\ ImportTypeOK
      /\ Accounted(r, import[r], journal[r], data)
      /\ ~expired => Apart(r, import[r], journal[r], data, lock)
  BY DEF ImportIInv
<1>2. /\ import[r] \in Held /\ journal[r] \in Journals
      /\ DOMAIN import = Imports /\ DOMAIN journal = Imports
  BY <1>1 DEF ImportTypeOK
<1>a. PICK failed \in BOOLEAN : NextUndo(r, i, failed)
  BY DEF SkipItem
<1>b. PICK e \in BOOLEAN : UndoneWith(r, i, e)
  BY <1>1, <1>a, UndoneTyped
<1>3. /\ UNCHANGED <<data, edits, expired>>
      /\ import' \in [Imports -> Held] /\ journal' \in [Imports -> Journals]
      /\ lock' \in Imports \cup {None}
      /\ \A s \in Imports \ {r} : import'[s] = import[s] /\ journal'[s] = journal[s]
      /\ \A s \in Imports \ {r} : lock = s => lock' = s
  BY <1>1, <1>2, <1>b, NobodyNone DEF SkipItem, Undoing, At, UndoneWith, ImportTypeOK, Held, Journals, Phases, dataVars
<1>4. Accounted(r, import'[r], journal'[r], data)
  BY <1>1, <1>2, <1>b DEF SkipItem, Undoing, At, UndoneWith, Accounted, Held, Journals
<1>5. ~expired => Apart(r, import'[r], journal'[r], data, lock')
  BY <1>1, <1>2, <1>b DEF SkipItem, Undoing, At, UndoneWith, Accounted, Apart, Works, Plotted, Own, Held, Journals
<1> QED BY <1>3, <1>4, <1>5, JournalKeeps

LEMMA CheckKeeps ==
    ASSUME ImportIInv, NEW r \in Imports, NEW i \in Items, CheckItem(r, i), UNCHANGED dataVars
    PROVE  ImportIInv'
<1>1. /\ ImportTypeOK
      /\ Accounted(r, import[r], journal[r], data)
      /\ ~expired => Apart(r, import[r], journal[r], data, lock)
  BY DEF ImportIInv
<1>2. /\ import[r] \in Held /\ journal[r] \in Journals
      /\ DOMAIN import = Imports /\ DOMAIN journal = Imports
  BY <1>1 DEF ImportTypeOK
<1>3. /\ UNCHANGED <<data, edits, expired>>
      /\ import' \in [Imports -> Held] /\ journal' \in [Imports -> Journals]
      /\ lock' \in Imports \cup {None}
      /\ \A s \in Imports \ {r} : import'[s] = import[s] /\ journal'[s] = journal[s]
      /\ \A s \in Imports \ {r} : lock = s => lock' = s
  BY <1>1, <1>2, NobodyNone DEF CheckItem, Undoing, At, ImportTypeOK, Held, Journals, Phases, dataVars
<1>4. Accounted(r, import'[r], journal'[r], data)
  BY <1>1, <1>2 DEF CheckItem, Undoing, At, Accounted, Held, Journals
<1>5. ~expired => Apart(r, import'[r], journal'[r], data, lock')
  BY <1>1, <1>2 DEF CheckItem, Undoing, At, Accounted, Apart, Works, Plotted, Own, Held, Journals
<1> QED BY <1>3, <1>4, <1>5, JournalKeeps

LEMMA EndKeeps ==
    ASSUME ImportIInv, NEW r \in Imports, EndCompensation(r), UNCHANGED dataVars
    PROVE  ImportIInv'
<1>1. /\ ImportTypeOK
      /\ Accounted(r, import[r], journal[r], data)
      /\ ~expired => Apart(r, import[r], journal[r], data, lock)
  BY DEF ImportIInv
<1>2. /\ import[r] \in Held /\ journal[r] \in Journals
      /\ DOMAIN import = Imports /\ DOMAIN journal = Imports
  BY <1>1 DEF ImportTypeOK
<1>3. /\ UNCHANGED <<data, edits, expired>>
      /\ import' \in [Imports -> Held] /\ journal' \in [Imports -> Journals]
      /\ lock' \in Imports \cup {None}
      /\ \A s \in Imports \ {r} : import'[s] = import[s] /\ journal'[s] = journal[s]
      /\ \A s \in Imports \ {r} : lock = s => lock' = s
  BY <1>1, <1>2, NobodyNone DEF EndCompensation, At, Release, Idle, Clean, ImportTypeOK, Held, Journals, Phases, dataVars
<1>4. Accounted(r, import'[r], journal'[r], data)
  BY <1>1, <1>2 DEF EndCompensation, At, Release, Idle, Clean, Accounted, Held, Journals
<1>5. ~expired => Apart(r, import'[r], journal'[r], data, lock')
  BY <1>1, <1>2 DEF EndCompensation, At, Release, Idle, Clean, Accounted, Apart, Works, Plotted, Own, Held, Journals
<1> QED BY <1>3, <1>4, <1>5, JournalKeeps

LEMMA CompensationFailsKeeps ==
    ASSUME ImportIInv, NEW r \in Imports, CompensationFails(r), UNCHANGED dataVars
    PROVE  ImportIInv'
<1>1. /\ ImportTypeOK
      /\ Accounted(r, import[r], journal[r], data)
      /\ ~expired => Apart(r, import[r], journal[r], data, lock)
  BY DEF ImportIInv
<1>2. /\ import[r] \in Held /\ journal[r] \in Journals
      /\ DOMAIN import = Imports /\ DOMAIN journal = Imports
  BY <1>1 DEF ImportTypeOK
<1>3. /\ UNCHANGED <<data, edits, expired>>
      /\ import' \in [Imports -> Held] /\ journal' \in [Imports -> Journals]
      /\ lock' \in Imports \cup {None}
      /\ \A s \in Imports \ {r} : import'[s] = import[s] /\ journal'[s] = journal[s]
      /\ \A s \in Imports \ {r} : lock = s => lock' = s
  BY <1>1, <1>2, NobodyNone DEF CompensationFails, At, Release, Idle, ImportTypeOK, Held, Journals, Phases, dataVars
<1>4. Accounted(r, import'[r], journal'[r], data)
  BY <1>1, <1>2 DEF CompensationFails, At, Release, Idle, Accounted, Held, Journals
<1>5. ~expired => Apart(r, import'[r], journal'[r], data, lock')
  BY <1>1, <1>2 DEF CompensationFails, At, Release, Idle, Accounted, Apart, Works, Plotted, Own, Held, Journals
<1> QED BY <1>3, <1>4, <1>5, JournalKeeps

LEMMA ReleaseKeeps ==
    ASSUME ImportIInv, NEW r \in Imports, ReleaseLock(r), UNCHANGED dataVars
    PROVE  ImportIInv'
<1>1. /\ ImportTypeOK
      /\ Accounted(r, import[r], journal[r], data)
      /\ ~expired => Apart(r, import[r], journal[r], data, lock)
  BY DEF ImportIInv
<1>2. /\ import[r] \in Held /\ journal[r] \in Journals
      /\ DOMAIN import = Imports /\ DOMAIN journal = Imports
  BY <1>1 DEF ImportTypeOK
<1>3. /\ UNCHANGED <<data, edits, expired>>
      /\ import' \in [Imports -> Held] /\ journal' \in [Imports -> Journals]
      /\ lock' \in Imports \cup {None}
      /\ \A s \in Imports \ {r} : import'[s] = import[s] /\ journal'[s] = journal[s]
      /\ \A s \in Imports \ {r} : lock = s => lock' = s
  BY <1>1, <1>2, NobodyNone DEF ReleaseLock, At, Return, Idle, ImportTypeOK, Held, Journals, Phases, dataVars
<1>4. Accounted(r, import'[r], journal'[r], data)
  BY <1>1, <1>2 DEF ReleaseLock, At, Return, Idle, Accounted, Held, Journals
<1>5. ~expired => Apart(r, import'[r], journal'[r], data, lock')
  BY <1>1, <1>2 DEF ReleaseLock, At, Return, Idle, Accounted, Apart, Works, Plotted, Own, Held, Journals
<1> QED BY <1>3, <1>4, <1>5, JournalKeeps

LEMMA CrashKeeps ==
    ASSUME ImportIInv, NEW r \in Imports, ImportCrash(r), UNCHANGED dataVars
    PROVE  ImportIInv'
<1>1. /\ ImportTypeOK
      /\ Accounted(r, import[r], journal[r], data)
      /\ ~expired => Apart(r, import[r], journal[r], data, lock)
  BY DEF ImportIInv
<1>2. /\ import[r] \in Held /\ journal[r] \in Journals
      /\ DOMAIN import = Imports /\ DOMAIN journal = Imports
  BY <1>1 DEF ImportTypeOK
<1>3. /\ UNCHANGED <<data, edits, expired>>
      /\ import' \in [Imports -> Held] /\ journal' \in [Imports -> Journals]
      /\ lock' \in Imports \cup {None}
      /\ \A s \in Imports \ {r} : import'[s] = import[s] /\ journal'[s] = journal[s]
      /\ \A s \in Imports \ {r} : lock = s => lock' = s
  BY <1>1, <1>2, NobodyNone DEF ImportCrash, Return, Idle, ImportTypeOK, Held, Journals, Phases, dataVars
<1>4. Accounted(r, import'[r], journal'[r], data)
  BY <1>1, <1>2 DEF ImportCrash, Return, Idle, Accounted, Held, Journals
<1>5. ~expired => Apart(r, import'[r], journal'[r], data, lock')
  BY <1>1, <1>2 DEF ImportCrash, Return, Idle, Accounted, Apart, Works, Plotted, Own, Held, Journals
<1> QED BY <1>3, <1>4, <1>5, JournalKeeps

-----------------------------------------------------------------------------
(* The document that an import creates is planned and its own; the others  *)
(* hold no lock.                                                           *)
LEMMA CreateKeeps ==
    ASSUME ImportIInv, NEW r \in Imports, NEW i \in import[r].todo, CreateItem(r, i)
    PROVE  ImportIInv'
<1>1. /\ ImportTypeOK
      /\ \A s \in Imports : Accounted(s, import[s], journal[s], data)
      /\ ~expired => \A s \in Imports : Apart(s, import[s], journal[s], data, lock)
  BY DEF ImportIInv
<1>2. import[r] \in Held /\ journal[r] \in Journals
  BY <1>1 DEF ImportTypeOK
<1>3. /\ At(r, "creating") /\ i \in Items /\ i \in journal[r].planned /\ data[i] = None
      /\ UNCHANGED <<journal, lock, expired, edits>>
  BY <1>1, <1>2 DEF CreateItem, Creating, At, Accounted, Held
<1>4. PICK doc \in Documents :
         doc.by = r /\ data' = [data EXCEPT ![i] = doc]
  <2>1. Document("archived", r, edits) \in Documents /\ Document("archived", r, edits).by = r
    BY <1>1, ImportAssumption DEF ImportTypeOK, Document, Documents, Contents
  <2> QED BY <2>1 DEF CreateItem
<1>5. /\ import' \in [Imports -> Held]
      /\ \A s \in Imports \ {r} : import'[s] = import[s]
      /\ import'[r].phase \in {"created", "compensating"}
      /\ import'[r].todo \subseteq journal[r].planned
  <2>1. CASE Move(r, "created")
    BY <1>1, <1>2, <1>3, <2>1 DEF Move, ImportTypeOK, Held, Phases, At, Accounted
  <2>2. CASE Raise(r)
    BY <1>1, <1>2, <1>3, <2>2
       DEF Raise, Compensating, Idle, ImportTypeOK, Held, Phases, At, Accounted, Journals
  <2> QED BY <2>1, <2>2 DEF CreateItem
<1>6. data' \in [Items -> {None} \cup Documents] /\ None \notin Documents
  BY <1>1, <1>3, <1>4, ImportAssumption DEF ImportTypeOK
<1>7. ImportTypeOK'
  BY <1>1, <1>3, <1>5, <1>6 DEF ImportTypeOK
<1>8. journal[r].state # "ROLLED_BACK"
  BY <1>1, <1>3 DEF Accounted, At
<1>9. (\A s \in Imports : Accounted(s, import[s], journal[s], data))'
  <2> SUFFICES ASSUME NEW s \in Imports
               PROVE  Accounted(s, import'[s], journal'[s], data')
    OBVIOUS
  <2>1. Accounted(s, import[s], journal[s], data)
    BY <1>1
  <2>2. \A k \in Items : data'[k] = IF k = i THEN doc ELSE data[k]
    BY <1>1, <1>4 DEF ImportTypeOK
  <2>3. CASE s = r
    BY <1>3, <1>5, <1>8, <2>1, <2>2, <2>3 DEF Accounted
  <2>4. CASE s # r
    <3>1. import'[s] = import[s] /\ journal'[s] = journal[s]
      BY <1>3, <1>5, <2>4
    <3>2. \A k \in Items : data'[k] # None /\ data'[k].by = s => data[k] # None /\ data[k].by = s
      BY <1>4, <2>2, <2>4
    <3>3. Clean(s, data) => Clean(s, data')
      BY <3>2 DEF Clean
    <3> QED BY <2>1, <3>1, <3>2, <3>3 DEF Accounted
  <2> QED BY <2>3, <2>4
<1>10. (~expired => \A s \in Imports : Apart(s, import[s], journal[s], data, lock))'
  <2> SUFFICES ASSUME ~expired', NEW s \in Imports
               PROVE  Apart(s, import'[s], journal'[s], data', lock')
    OBVIOUS
  <2>1. Apart(s, import[s], journal[s], data, lock) /\ Apart(r, import[r], journal[r], data, lock)
    BY <1>1, <1>3
  <2>2. lock = r
    BY <1>3, <2>1 DEF Apart, Works, At
  <2>3. \A k \in Items : data'[k] = IF k = i THEN doc ELSE data[k]
    BY <1>1, <1>4 DEF ImportTypeOK
  <2>4. CASE s = r
    <3>1. Own(r, data, journal[r].planned)
      BY <1>3, <2>1 DEF Apart, Works, Plotted, At
    <3>2. journal[r].planned \subseteq Items
      BY <1>2 DEF Journals
    <3>3. Own(r, data', journal[r].planned)
      BY <1>4, <2>3, <3>1, <3>2 DEF Own
    <3> QED BY <1>3, <1>5, <2>2, <2>4, <3>3 DEF Apart, Plotted
  <2>5. CASE s # r
    BY <1>3, <1>5, <2>1, <2>2, <2>5 DEF Apart
  <2> QED BY <2>4, <2>5
<1> QED BY <1>7, <1>9, <1>10 DEF ImportIInv

(* Taking documents away, whoever does it, leaves less to account for.     *)
LEMMA LessToAccount ==
    ASSUME NEW r \in Imports, NEW m, NEW j \in Journals, NEW k, NEW d, NEW e,
           \A i \in Items : e[i] # None => (d[i] # None /\ e[i].by = d[i].by) \/ e[i].by = None
    PROVE  /\ Accounted(r, m, j, d) => Accounted(r, m, j, e)
           /\ Apart(r, m, j, d, k) => Apart(r, m, j, e, k)
<1>1. \A i \in Items : e[i] # None /\ e[i].by = r => d[i] # None /\ d[i].by = r
  BY NobodyNone
<1>2. Clean(r, d) => Clean(r, e)
  BY <1>1 DEF Clean
<1>3. Accounted(r, m, j, d) => Accounted(r, m, j, e)
  BY <1>1, <1>2 DEF Accounted
<1>4. Plotted(m, j) \subseteq Items
  BY DEF Plotted, Journals
<1>5. Own(r, d, Plotted(m, j)) => Own(r, e, Plotted(m, j))
  BY <1>4 DEF Own
<1> QED BY <1>3, <1>5 DEF Apart

LEMMA DeleteKeeps ==
    ASSUME ImportIInv, NEW r \in Imports, NEW i \in import[r].todo, DeleteItem(r, i)
    PROVE  ImportIInv'
<1>1. /\ ImportTypeOK
      /\ \A s \in Imports : Accounted(s, import[s], journal[s], data)
      /\ ~expired => \A s \in Imports : Apart(s, import[s], journal[s], data, lock)
  BY DEF ImportIInv
<1>2. import[r] \in Held /\ journal[r] \in Journals
  BY <1>1 DEF ImportTypeOK
<1>3. At(r, "deleting") /\ i \in Items /\ UNCHANGED <<journal, lock, expired, edits>>
  BY <1>2 DEF DeleteItem, Held
<1>4. PICK failed \in BOOLEAN : NextUndo(r, i, failed)
  BY DEF DeleteItem
<1>5. PICK e \in BOOLEAN : UndoneWith(r, i, e)
  BY <1>1, <1>3, <1>4, UndoneTyped
<1>6. /\ import' \in [Imports -> Held]
      /\ \A s \in Imports \ {r} : import'[s] = import[s]
      /\ import'[r].phase = "compensating" /\ import'[r].todo \subseteq import[r].todo
  BY <1>1, <1>2, <1>5 DEF UndoneWith, ImportTypeOK, Held, Phases
<1>7. /\ data' \in [Items -> {None} \cup Documents]
      /\ \A k \in Items : data'[k] # None => data[k] # None /\ data'[k].by = data[k].by
  <2>1. data' = data \/ data' = [data EXCEPT ![i] = None]
    BY DEF DeleteItem
  <2> QED BY <1>1, <2>1 DEF ImportTypeOK
<1>8. ImportTypeOK'
  BY <1>1, <1>3, <1>6, <1>7 DEF ImportTypeOK
<1>9. /\ Accounted(r, import'[r], journal[r], data)
      /\ ~expired => Apart(r, import'[r], journal[r], data, lock)
  BY <1>1, <1>3, <1>6 DEF At, Accounted, Apart, Works, Plotted
<1>10. \A s \in Imports :
          /\ Accounted(s, import'[s], journal[s], data)
          /\ ~expired => Apart(s, import'[s], journal[s], data, lock)
  <2> TAKE s \in Imports
  <2>1. CASE s = r
    BY <1>9, <2>1
  <2>2. CASE s # r
    <3>1. import'[s] = import[s]
      BY <1>6, <2>2
    <3> QED BY <1>1, <3>1
  <2> QED BY <2>1, <2>2
<1>11. \A s \in Imports :
          /\ Accounted(s, import'[s], journal[s], data')
          /\ ~expired => Apart(s, import'[s], journal[s], data', lock)
  <2> TAKE s \in Imports
  <2>1. journal[s] \in Journals
    BY <1>1 DEF ImportTypeOK
  <2>2. /\ Accounted(s, import'[s], journal[s], data) => Accounted(s, import'[s], journal[s], data')
        /\ Apart(s, import'[s], journal[s], data, lock)
              => Apart(s, import'[s], journal[s], data', lock)
    BY <1>7, <2>1, LessToAccount
  <2> QED BY <1>10, <2>2
<1>12. (\A s \in Imports : Accounted(s, import[s], journal[s], data))'
  BY <1>3, <1>11
<1>13. (~expired => \A s \in Imports : Apart(s, import[s], journal[s], data, lock))'
  BY <1>3, <1>11
<1> QED BY <1>8, <1>12, <1>13 DEF ImportIInv

(* A lock that goes when its owner is done protected nothing any more.     *)
LEMMA ExpiryKeeps ==
    ASSUME ImportIInv, LockExpires, UNCHANGED dataVars
    PROVE  ImportIInv'
<1>1. /\ ImportTypeOK
      /\ \A s \in Imports : Accounted(s, import[s], journal[s], data)
      /\ ~expired => \A s \in Imports : Apart(s, import[s], journal[s], data, lock)
  BY DEF ImportIInv
<1>2. /\ lock \in Imports /\ lock' = None /\ UNCHANGED <<import, journal, data, edits>>
      /\ expired' = (expired \/ import[lock].phase # "done")
  BY <1>1 DEF LockExpires, ImportTypeOK, dataVars
<1>3. expired' \in BOOLEAN
  BY <1>2, Zenon
<1>4. ImportTypeOK'
  BY <1>1, <1>2, <1>3 DEF ImportTypeOK
<1>5. ASSUME ~expired', NEW s \in Imports
      PROVE  Apart(s, import'[s], journal'[s], data', lock')
  <2>1. ~expired /\ import[lock].phase = "done"
    BY <1>2, <1>5, Zenon
  <2>2. Apart(s, import[s], journal[s], data, lock)
    BY <1>1, <2>1
  <2>3. ~Works(import[s], journal[s])
    BY <1>2, <2>1, <2>2 DEF Apart, Works
  <2> QED BY <1>2, <2>3 DEF Apart
<1>6. (\A s \in Imports : Accounted(s, import[s], journal[s], data))'
  BY <1>1, <1>2
<1>7. (~expired => \A s \in Imports : Apart(s, import[s], journal[s], data, lock))'
  BY <1>5
<1> QED BY <1>4, <1>6, <1>7 DEF ImportIInv

(* Users' writes keep who created a document.                              *)
LEMMA EditsKeep ==
    ASSUME ImportIInv, DataNext, UNCHANGED importVars
    PROVE  ImportIInv'
<1>1. /\ ImportTypeOK
      /\ \A s \in Imports : Accounted(s, import[s], journal[s], data)
      /\ ~expired => \A s \in Imports : Apart(s, import[s], journal[s], data, lock)
  BY DEF ImportIInv
<1>2. UNCHANGED <<import, journal, lock, expired>>
  BY DEF importVars
<1>3. edits' \in 0 .. MaxEdits
  BY <1>1, UserDataAssumption DEF DataNext, UserWrites, UserDeletes, MayEdit, ImportTypeOK
<1>4. /\ data' \in [Items -> {None} \cup Documents]
      /\ \A k \in Items :
            data'[k] # None => \/ data[k] # None /\ data'[k].by = data[k].by
                               \/ data'[k].by = None
  <2>1. ASSUME NEW i \in Items, NEW c \in Contents, UserWrites(i, c)
        PROVE  /\ data' \in [Items -> {None} \cup Documents]
               /\ \A k \in Items : data'[k] # None =>
                     (data[k] # None /\ data'[k].by = data[k].by) \/ data'[k].by = None
    <3>1. PICK by \in Makers \cup {None} : /\ by = IF data[i] = None THEN None ELSE data[i].by
                                           /\ data' = [data EXCEPT ![i] = Document(c, by, edits + 1)]
      BY <1>1, <2>1 DEF UserWrites, ImportTypeOK, Documents
    <3>2. PICK doc \in Documents : doc.by = by /\ data' = [data EXCEPT ![i] = doc]
      <4>1. edits + 1 \in 0 .. MaxEdits
        BY <1>1, <2>1, UserDataAssumption DEF UserWrites, MayEdit, ImportTypeOK
      <4>2. Document(c, by, edits + 1) \in Documents /\ Document(c, by, edits + 1).by = by
        BY <4>1 DEF Document, Documents
      <4> QED BY <3>1, <4>2
    <3> QED BY <1>1, <3>1, <3>2 DEF ImportTypeOK
  <2>2. ASSUME NEW i \in Items, UserDeletes(i)
        PROVE  /\ data' \in [Items -> {None} \cup Documents]
               /\ \A k \in Items : data'[k] # None =>
                     (data[k] # None /\ data'[k].by = data[k].by) \/ data'[k].by = None
    BY <1>1, <2>2 DEF UserDeletes, ImportTypeOK
  <2> QED BY <2>1, <2>2 DEF DataNext
<1>5. ImportTypeOK'
  BY <1>1, <1>2, <1>3, <1>4 DEF ImportTypeOK
<1>6. \A s \in Imports :
          /\ Accounted(s, import[s], journal[s], data')
          /\ ~expired => Apart(s, import[s], journal[s], data', lock)
  <2> TAKE s \in Imports
  <2>1. journal[s] \in Journals
    BY <1>1 DEF ImportTypeOK
  <2>2. /\ Accounted(s, import[s], journal[s], data) => Accounted(s, import[s], journal[s], data')
        /\ Apart(s, import[s], journal[s], data, lock)
              => Apart(s, import[s], journal[s], data', lock)
    BY <1>4, <2>1, LessToAccount
  <2> QED BY <1>1, <2>2
<1>7. (\A s \in Imports : Accounted(s, import[s], journal[s], data))'
  BY <1>2, <1>6
<1>8. (~expired => \A s \in Imports : Apart(s, import[s], journal[s], data, lock))'
  BY <1>2, <1>6
<1> QED BY <1>5, <1>7, <1>8 DEF ImportIInv

-----------------------------------------------------------------------------
LEMMA InitHolds == DataInit /\ ImportInit => ImportIInv
<1> SUFFICES ASSUME DataInit, ImportInit
             PROVE  ImportIInv
  OBVIOUS
<1>1. Idle \in Held /\ Empty \in Journals
  BY DEF Idle, Empty, Held, Journals, Phases
<1>2. data \in [Items -> {None} \cup Documents] /\ edits \in 0 .. MaxEdits
  <2>1. \A c \in Contents : Document(c, None, 0) \in Documents
    BY UserDataAssumption DEF Document, Documents
  <2> QED BY <2>1, UserDataAssumption DEF DataInit
<1>3. ImportTypeOK
  BY <1>1, <1>2 DEF ImportInit, ImportTypeOK
<1>4. \A i \in Items : data[i] # None => data[i].by = None
  BY DEF DataInit, Document
<1>5. ASSUME NEW r \in Imports
      PROVE  Accounted(r, import[r], journal[r], data) /\ Apart(r, import[r], journal[r], data, lock)
  <2>1. Clean(r, data) /\ \A i \in Items : ~(data[i] # None /\ data[i].by = r)
    BY <1>4, NobodyNone DEF Clean
  <2>2. import[r] = Idle /\ journal[r] = Empty
    BY DEF ImportInit
  <2>3. /\ Idle.phase = "idle"
        /\ Empty.planned = {} /\ Empty.state = None
    BY DEF Idle, Empty
  <2> QED BY <2>1, <2>2, <2>3 DEF Accounted, Apart, Works
<1> QED BY <1>3, <1>5 DEF ImportIInv

LEMMA StepHolds ==
    ASSUME ImportIInv, [ImportNext \/ (DataNext /\ UNCHANGED importVars)]_vars
    PROVE  ImportIInv'
<1>1. ASSUME NEW r \in Imports, JournalStep(r), UNCHANGED dataVars
      PROVE  ImportIInv'
  <2>1. import[r].todo \subseteq Items
    BY DEF ImportIInv, ImportTypeOK, Held
  <2>2. CASE \E skip \in BOOLEAN : Apply(r, skip)
    BY <1>1, <2>2, ApplyKeeps
  <2>3. CASE AcquireLock(r) \/ Recheck(r) \/ PrepareInventory(r)
    BY <1>1, <2>3, AcquireKeeps, RecheckKeeps, InventoryKeeps
  <2>4. CASE \E i \in import[r].todo : CreateConflicts(r, i) \/ TransitionItem(r, i)
    BY <1>1, <2>1, <2>4, ConflictKeeps, TransitionKeeps
  <2>5. CASE Postflight(r) \/ CallFails(r)
    BY <1>1, <2>5, PostflightKeeps, CallFailsKeeps
  <2>6. CASE \E i \in import[r].todo : SkipItem(r, i) \/ CheckItem(r, i)
    BY <1>1, <2>1, <2>6, SkipKeeps, CheckKeeps
  <2>7. CASE EndCompensation(r) \/ CompensationFails(r)
    BY <1>1, <2>7, EndKeeps, CompensationFailsKeeps
  <2>8. CASE ReleaseLock(r) \/ ImportCrash(r)
    BY <1>1, <2>8, ReleaseKeeps, CrashKeeps
  <2> QED BY <1>1, <2>2, <2>3, <2>4, <2>5, <2>6, <2>7, <2>8 DEF JournalStep
<1>2. CASE \E r \in Imports : \E i \in import[r].todo : CreateItem(r, i) \/ DeleteItem(r, i)
  BY <1>2, CreateKeeps, DeleteKeeps
<1>3. CASE LockExpires /\ UNCHANGED dataVars
  BY <1>3, ExpiryKeeps
<1>4. CASE DataNext /\ UNCHANGED importVars
  BY <1>4, EditsKeep
<1>5. CASE UNCHANGED vars
  BY <1>5 DEF vars, dataVars, importVars, ImportIInv, ImportTypeOK
<1> QED BY <1>1, <1>2, <1>3, <1>4, <1>5 DEF ImportNext

LEMMA Invariant == ImportSpec => []ImportIInv
BY InitHolds, StepHolds, PTL DEF ImportSpec, vars

(* Which step takes a document away: a user's, or the delete of one        *)
(* import, of a document that it planned to create.                        *)
LEMMA WhoTakesAway ==
    ASSUME ImportIInv, [ImportNext \/ (DataNext /\ UNCHANGED importVars)]_vars,
           NEW i \in Items, data[i] # None, data'[i] = None
    PROVE  \/ edits' # edits /\ UNCHANGED importVars
           \/ \E r \in Imports :
                 /\ At(r, "deleting") /\ i \in journal[r].planned
                 /\ i \notin Settings => data[i].content = "archived"
                 /\ \A s \in Imports \ {r} : import'[s] = import[s]
<1>1. ImportTypeOK /\ \A r \in Imports : Accounted(r, import[r], journal[r], data)
  BY DEF ImportIInv
<1>2. CASE DataNext /\ UNCHANGED importVars
  <2>1. edits' # edits
    BY <1>1, <1>2, UserDataAssumption
       DEF DataNext, UserWrites, UserDeletes, MayEdit, ImportTypeOK
  <2> QED BY <1>2, <2>1
<1>3. ASSUME NEW r \in Imports, NEW k \in import[r].todo, CreateItem(r, k)
      PROVE  FALSE
  <2>1. Document("archived", r, edits) # None
    <3>1. Document("archived", r, edits) \in Documents
      BY <1>1, ImportAssumption DEF ImportTypeOK, Document, Documents, Contents
    <3> QED BY <3>1, ImportAssumption
  <2> QED BY <1>1, <1>3, <2>1 DEF CreateItem, ImportTypeOK
<1>4. ASSUME NEW r \in Imports, NEW k \in import[r].todo, DeleteItem(r, k)
      PROVE  /\ At(r, "deleting") /\ i \in journal[r].planned
             /\ i \notin Settings => data[i].content = "archived"
             /\ \A s \in Imports \ {r} : import'[s] = import[s]
  <2>1. /\ At(r, "deleting") /\ Matches(r, k) /\ data' = [data EXCEPT ![k] = None]
        /\ \E failed \in BOOLEAN : NextUndo(r, k, failed)
    BY <1>4 DEF DeleteItem
  <2>2. i = k
    BY <1>1, <2>1 DEF ImportTypeOK
  <2>3. /\ import[r].todo \subseteq journal[r].planned
        /\ import[r].held.content = "archived"
    BY <1>1, <2>1 DEF Accounted, At
  <2>4. \A s \in Imports \ {r} : import'[s] = import[s]
    BY <1>1, <2>1 DEF NextUndo, ImportTypeOK
  <2> QED BY <2>1, <2>2, <2>3, <2>4 DEF Matches
<1>5. CASE UNCHANGED dataVars
  BY <1>5 DEF dataVars
<1>6. CASE UNCHANGED vars
  BY <1>6 DEF vars, dataVars
<1> QED BY <1>2, <1>3, <1>4, <1>5, <1>6 DEF ImportNext

-----------------------------------------------------------------------------
(* Every variable keeps its type whatever imports, users and jobs do.      *)
THEOREM ImportsTyped == ImportSpec => []ImportTypeOK
BY Invariant, PTL DEF ImportIInv

(* A journal that says ROLLED_BACK is right, whichever calls of _apply or  *)
(* _compensate failed or lost their answers: nothing is left of what the   *)
(* import created.                                                         *)
THEOREM RollbackIsRight == ImportSpec => []RolledBackIsClean
<1>1. ImportIInv => RolledBackIsClean
  BY DEF ImportIInv, Accounted, Clean, RolledBackIsClean
<1> QED BY Invariant, <1>1, PTL

(* _compensate deletes no document, but the settings, whose content is no  *)
(* longer the archive's, and, as long as no lock outlived its time to      *)
(* live, nothing that another import created.                              *)
THEOREM ForeignDataKept == ImportSpec => ForeignDataSurvives
<1> DEFINE Next == ImportNext \/ (DataNext /\ UNCHANGED importVars)
<1>1. ASSUME ImportIInv, [Next]_vars, edits' = edits, NEW i \in Items \ Settings,
             data[i] # None, data'[i] = None
      PROVE  data[i].content = "archived"
  BY <1>1, WhoTakesAway
<1>2. ImportIInv /\ [Next]_vars =>
        [edits' = edits =>
           \A i \in Items \ Settings :
              data[i] # None /\ data'[i] = None => data[i].content = "archived"]_<<data, edits>>
  BY <1>1
<1>3. ImportSpec => EditsSurvive
  BY Invariant, <1>2, PTL DEF ImportSpec, EditsSurvive, vars
<1>4. ASSUME ImportIInv, [Next]_vars, NEW i \in Items, ~expired, data[i] # None, data'[i] = None,
             NEW r \in Imports, At(r, "deleting"), import'[r] # import[r]
      PROVE  data[i].by \in {r, None}
  <2>1. ~UNCHANGED importVars
    BY <1>4 DEF importVars
  <2>2. PICK s \in Imports : /\ i \in journal[s].planned
                             /\ \A t \in Imports \ {s} : import'[t] = import[t]
    BY <1>4, <2>1, WhoTakesAway
  <2>3. i \in journal[r].planned
    BY <1>4, <2>2
  <2>4. Apart(r, import[r], journal[r], data, lock)
    BY <1>4 DEF ImportIInv
  <2>5. Own(r, data, journal[r].planned)
    BY <1>4, <2>3, <2>4 DEF Apart, Works, Plotted, At
  <2> QED BY <1>4, <2>3, <2>5 DEF Own
<1>5. ImportIInv /\ [Next]_vars =>
        [\A i \in Items :
           ~expired /\ data[i] # None /\ data'[i] = None =>
              \A r \in Imports :
                 At(r, "deleting") /\ import'[r] # import[r] => data[i].by \in {r, None}
        ]_<<data, importVars>>
  BY <1>4
<1>6. ImportSpec => ImportsKeepApart
  BY Invariant, <1>5, PTL DEF ImportSpec, ImportsKeepApart, vars
<1> QED BY <1>3, <1>6 DEF ForeignDataSurvives

=============================================================================
