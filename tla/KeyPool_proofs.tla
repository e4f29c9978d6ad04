--------------------------- MODULE KeyPool_proofs ---------------------------
(***************************************************************************)
(* The key pool and keys.json for any number of keys, any configuration    *)
(* of cooldown, thresholds and save interval, and any number of failing    *)
(* writes; and the rotation and the streaks of KeyPoolHistory.              *)
(***************************************************************************)
EXTENDS KeyPoolHistory, SequenceTheorems, FiniteSetTheorems, FunctionTheorems,
        TLAPS

LEMMA FreshType == Fresh \in KeyRecord
BY DEF Fresh, KeyRecord, Reasons

LEMMA EmptyPoolType ==
  /\ EmptyPool \in PoolImage /\ ~EmptyPool.torn /\ EmptyPool.order = <<>>
  /\ Torn \in PoolImage /\ Torn.torn /\ Torn.order = <<>>
<1>1. [k \in Keys |-> Fresh] \in [Keys -> KeyRecord] /\ <<>> \in Seq(Keys)
  BY FreshType
<1>2. EmptyPool \in PoolImage /\ ~EmptyPool.torn /\ EmptyPool.order = <<>>
  BY <1>1 DEF EmptyPool, Image, PoolImage
<1>3. QED
  BY <1>2 DEF Torn, PoolImage

LEMMA ImageType ==
  ASSUME NEW o \in Seq(Keys), NEW r \in [Keys -> KeyRecord]
  PROVE  /\ Image(o, r) \in PoolImage
         /\ Image(o, r).order = o /\ Image(o, r).rec = r
         /\ ~Image(o, r).torn
BY DEF Image, PoolImage

(* Appending a new element, or cutting one out, keeps a sequence without   *)
(* repetitions.                                                            *)
LEMMA AppendDistinct ==
  ASSUME NEW s \in Seq(Keys), Distinct(s), NEW k \in Keys,
         ~\E i \in 1 .. Len(s) : s[i] = k
  PROVE  Append(s, k) \in Seq(Keys) /\ Distinct(Append(s, k))
BY AppendProperties DEF Distinct

CutOut(s, i) == SubSeq(s, 1, i - 1) \o SubSeq(s, i + 1, Len(s))

LEMMA CutOutElements ==
  ASSUME NEW s \in Seq(Keys), NEW i \in 1 .. Len(s)
  PROVE  /\ CutOut(s, i) \in Seq(Keys)
         /\ Len(CutOut(s, i)) = Len(s) - 1
         /\ \A j \in 1 .. Len(s) - 1 :
              CutOut(s, i)[j] = IF j < i THEN s[j] ELSE s[j + 1]
<1>1. PICK a : a = SubSeq(s, 1, i - 1)
  OBVIOUS
<1>2. PICK b : b = SubSeq(s, i + 1, Len(s))
  OBVIOUS
<1>3. /\ a \in Seq(Keys) /\ Len(a) = i - 1
      /\ \A j \in 1 .. i - 1 : a[j] = s[j]
  BY <1>1, SubSeqProperties
<1>4. /\ b \in Seq(Keys) /\ Len(b) = Len(s) - i
      /\ \A j \in 1 .. Len(s) - i : b[j] = s[i + j]
  BY <1>2, SubSeqProperties
<1>5. PICK t : t = a \o b
  OBVIOUS
<1>6. /\ t \in Seq(Keys) /\ Len(t) = Len(s) - 1
      /\ \A j \in 1 .. Len(s) - 1 :
            t[j] = IF j <= i - 1 THEN a[j] ELSE b[j - (i - 1)]
  <2>1. /\ t \in Seq(Keys) /\ Len(t) = Len(a) + Len(b)
        /\ \A j \in 1 .. Len(a) + Len(b) :
              t[j] = IF j <= Len(a) THEN a[j] ELSE b[j - Len(a)]
    BY <1>3, <1>4, <1>5, ConcatProperties
  <2>2. Len(a) = i - 1 /\ Len(a) + Len(b) = Len(s) - 1
    BY <1>3, <1>4
  <2>3. QED
    BY <2>1, <2>2
<1>7. ASSUME NEW j \in 1 .. Len(s) - 1
      PROVE  t[j] = IF j < i THEN s[j] ELSE s[j + 1]
  <2>1. CASE j < i
    BY <1>3, <1>6, <2>1
  <2>2. CASE ~(j < i)
    <3>1. t[j] = b[j - (i - 1)] /\ j - (i - 1) \in 1 .. Len(s) - i
      BY <1>6, <2>2
    <3>2. b[j - (i - 1)] = s[i + (j - (i - 1))] /\ i + (j - (i - 1)) = j + 1
      BY <1>4, <3>1
    <3>3. QED
      BY <2>2, <3>1, <3>2
  <2>3. QED
    BY <2>1, <2>2
<1>8. CutOut(s, i) = t
  BY <1>1, <1>2, <1>5 DEF CutOut
<1>9. QED
  BY <1>6, <1>7, <1>8

LEMMA CutOutDistinct ==
  ASSUME NEW s \in Seq(Keys), Distinct(s), NEW i \in 1 .. Len(s)
  PROVE  CutOut(s, i) \in Seq(Keys) /\ Distinct(CutOut(s, i))
<1>1. PICK t : t = CutOut(s, i)
  OBVIOUS
<1>2. /\ t \in Seq(Keys) /\ Len(t) = Len(s) - 1
      /\ \A j \in 1 .. Len(s) - 1 : t[j] = IF j < i THEN s[j] ELSE s[j + 1]
  BY <1>1, CutOutElements
<1>3. ASSUME NEW j \in 1 .. Len(t), NEW l \in 1 .. Len(t), t[j] = t[l]
      PROVE  j = l
  <2>1. /\ j \in 1 .. Len(s) - 1 /\ l \in 1 .. Len(s) - 1
        /\ t[j] = IF j < i THEN s[j] ELSE s[j + 1]
        /\ t[l] = IF l < i THEN s[l] ELSE s[l + 1]
    BY <1>2, <1>3
  <2> DEFINE at(x) == IF x < i THEN x ELSE x + 1
  <2>2. /\ at(j) \in 1 .. Len(s) /\ at(l) \in 1 .. Len(s)
        /\ t[j] = s[at(j)] /\ t[l] = s[at(l)]
    BY <2>1
  <2>3. at(j) = at(l)
    <3> HIDE DEF at
    <3> QED
      BY <1>3, <2>2 DEF Distinct
  <2>4. QED
    BY <2>1, <2>3
<1>4. QED
  BY <1>1, <1>2, <1>3 DEF Distinct

(* What the file holds of the pool.                                        *)
SavedOK == CleanMeansSaved /\ EditsSurvive /\ LossIsRecent /\ lastSave <= now

LEMMA InitIInv == Init => IInv
<1> SUFFICES ASSUME Init PROVE IInv
  OBVIOUS
<1>1. TypeOK
  <2>1. rec \in [Keys -> KeyRecord] /\ order \in Seq(Keys)
    BY FreshType DEF Init
  <2>2. QED
    BY <2>1, EmptyPoolType DEF Init, TypeOK
<1>2. NoDuplicates
  BY EmptyPoolType DEF Init, NoDuplicates, Distinct
<1>3. Load(disk) = Image(order, rec) /\ ~disk.torn
  BY EmptyPoolType DEF Init, Load, EmptyPool
<1>4. SavedOK
  <2>1. CleanMeansSaved /\ EditsSurvive
    BY <1>1, <1>3, ImageType DEF CleanMeansSaved, EditsSurvive, TypeOK
  <2>2. LossIsRecent
    BY <1>1, <1>3, ImageType DEF LossIsRecent, TypeOK
  <2>3. QED
    BY <2>1, <2>2 DEF SavedOK, Init
<1>5. QED
  BY <1>1, <1>2, <1>3, <1>4 DEF IInv, SavedOK

PoolOK ==
  /\ order \in Seq(Keys) /\ Distinct(order)
  /\ rec \in [Keys -> KeyRecord]

StoreOK ==
  /\ dirty \in BOOLEAN /\ lastSave \in Nat
  /\ disk \in PoolImage /\ Distinct(disk.order)
  /\ failures \in Nat
  /\ failures = 0 => ~disk.torn

LEMMA Parts ==
  IInv <=> /\ PoolOK /\ StoreOK /\ SavedOK
           /\ index \in Nat /\ now \in Nat /\ picked \in Keys \cup {None}
BY DEF IInv, TypeOK, NoDuplicates, PoolOK, StoreOK, SavedOK

LEMMA FlushInv ==
  ASSUME StoreOK, SavedOK, PoolOK', now \in Nat, now' = now, NEW flag \in BOOLEAN,
         Flush(flag), flag \/ (flag = dirty /\ UNCHANGED <<order, rec>>)
  PROVE  StoreOK' /\ SavedOK'
<1>1. CASE /\ disk' = Image(order', rec') /\ lastSave' = now
           /\ dirty' = FALSE /\ UNCHANGED failures
  <2>1. /\ disk' \in PoolImage /\ disk'.order = order' /\ disk'.rec = rec'
        /\ ~disk'.torn
    BY <1>1, ImageType DEF PoolOK
  <2>2. Load(disk)' = Image(order, rec)'
    BY <1>1, <2>1 DEF Load
  <2>3. StoreOK' /\ CleanMeansSaved' /\ EditsSurvive'
    BY <1>1, <2>1, <2>2, ImageType
    DEF StoreOK, PoolOK, CleanMeansSaved, EditsSurvive
  <2>4. LossIsRecent'
    BY <2>1, <2>2, ImageType DEF PoolOK, LossIsRecent
  <2>5. QED
    BY <1>1, <2>3, <2>4 DEF SavedOK
<1>2. CASE /\ failures' = failures + 1 /\ disk' \in {disk, Torn}
           /\ dirty' = flag /\ UNCHANGED lastSave
  <2>1. failures' \in Nat /\ failures' # 0
    BY <1>2 DEF StoreOK
  <2>2. disk' \in PoolImage /\ Distinct(disk'.order)
    BY <1>2, EmptyPoolType DEF StoreOK, Distinct
  <2>3. CleanMeansSaved'
    <3>1. CASE flag
      BY <1>2, <3>1 DEF CleanMeansSaved
    <3>2. CASE disk' = Torn
      BY <3>2, EmptyPoolType DEF CleanMeansSaved
    <3>3. CASE disk' = disk /\ flag = dirty /\ UNCHANGED <<order, rec>>
      BY <1>2, <3>3 DEF SavedOK, CleanMeansSaved, Load, EmptyPool, Image
    <3>4. QED
      BY <1>2, <3>1, <3>2, <3>3
  <2>4. EditsSurvive' /\ LossIsRecent'
    BY <2>1 DEF EditsSurvive, LossIsRecent
  <2>5. QED
    BY <1>2, <2>1, <2>2, <2>3, <2>4 DEF StoreOK, SavedOK
<1>3. QED
  BY <1>1, <1>2 DEF Flush

(* What a verdict, which is no edit, may do to a key.                      *)
Judged(r, q) ==
  /\ q.enabled = r.enabled
  /\ q.until \in {0, r.until, now + CooldownSec}

(* A save keeps the file in step: at once after an edit, or after a        *)
(* verdict when the throttle allows it; a verdict it holds back is younger *)
(* than the interval.                                                      *)
LEMMA SaveInv ==
  ASSUME IInv, PoolOK', now' = now, NEW force \in BOOLEAN, Save(force),
         ~force => /\ order' = order
                   /\ \A k \in Keys : Judged(rec[k], rec'[k])
  PROVE  StoreOK' /\ SavedOK'
<1>1. CASE Flush(TRUE)
  BY <1>1, FlushInv, Parts
<1>2. CASE /\ ~force /\ now - lastSave < SaveInterval /\ dirty' = TRUE
           /\ UNCHANGED <<lastSave, disk, failures>>
  <2>1. Load(disk)' = Load(disk)
    BY <1>2 DEF Load, EmptyPool
  <2>2. StoreOK' /\ CleanMeansSaved' /\ EditsSurvive'
    BY <1>2, <2>1, Parts DEF StoreOK, SavedOK, CleanMeansSaved, EditsSurvive, Judged
  <2>3. LossIsRecent'
    <3> SUFFICES ASSUME failures = 0, NEW k \in Keys,
                        rec'[k].until \notin {0, Load(disk).rec[k].until}
                 PROVE  /\ lastSave <= rec'[k].until - CooldownSec
                        /\ rec'[k].until - CooldownSec < lastSave + SaveInterval
      BY <1>2, <2>1 DEF LossIsRecent
    <3>1. /\ lastSave \in Nat /\ now \in Nat /\ lastSave <= now
          /\ CooldownSec \in Nat /\ SaveInterval \in Nat
      BY Parts, PoolAssumption DEF StoreOK, SavedOK, PoolAssumption
    <3>2. rec'[k].until \in {0, rec[k].until, now + CooldownSec}
      BY <1>2 DEF Judged
    <3>3. CASE rec'[k].until = rec[k].until
      BY <3>3, Parts DEF SavedOK, LossIsRecent
    <3>4. CASE rec'[k].until = now + CooldownSec
      BY <1>2, <3>1, <3>4
    <3>5. QED
      BY <3>2, <3>3, <3>4
  <2>4. QED
    BY <1>2, <2>2, <2>3, Parts DEF SavedOK
<1>3. QED
  BY <1>1, <1>2 DEF Save

LEMMA DisabledCases ==
  ASSUME NEW r, NEW e,
         e = IF r.reason = "5h_quota" THEN r.escalation + 1 ELSE 1
  PROVE  \/ Disabled(r) = r
         \/ Disabled(r) = [r EXCEPT !.escalation = e, !.reason = "period_quota"]
         \/ /\ r.recovers >= Threshold
            /\ Disabled(r) = [r EXCEPT !.escalation = e, !.reason = "5h_quota"]
         \/ Disabled(r) = [r EXCEPT !.reason = "period_quota"]
BY Zenon DEF Disabled

LEMMA DisabledType ==
  ASSUME NEW r \in KeyRecord
  PROVE  /\ Disabled(r) \in KeyRecord /\ Disabled(r).enabled = r.enabled
         /\ Disabled(r).until = r.until
<1>1. PICK e \in Nat :
        e = IF r.reason = "5h_quota" THEN r.escalation + 1 ELSE 1
  BY DEF KeyRecord
<1>2. \/ Disabled(r) = r
      \/ Disabled(r) = [r EXCEPT !.escalation = e, !.reason = "period_quota"]
      \/ /\ r.recovers >= Threshold
         /\ Disabled(r) = [r EXCEPT !.escalation = e, !.reason = "5h_quota"]
      \/ Disabled(r) = [r EXCEPT !.reason = "period_quota"]
  BY <1>1, DisabledCases, Zenon
<1>3. QED
  BY <1>1, <1>2 DEF KeyRecord, Reasons

LEMMA ToggledType ==
  ASSUME NEW r \in KeyRecord
  PROVE  Toggled(r) \in KeyRecord
BY DEF Toggled, KeyRecord, Reasons

LEMMA UpdateInv ==
  ASSUME IInv, NEW k \in Keys, NEW r \in KeyRecord, NEW force \in BOOLEAN,
         Update(k, r, force), ~force => Judged(rec[k], r)
  PROVE  IInv'
<1>1. PoolOK'
  BY Parts DEF Update, PoolOK
<1>2. StoreOK' /\ SavedOK'
  <2>1. ~force => /\ order' = order
                  /\ \A l \in Keys : Judged(rec[l], rec'[l])
    BY Parts DEF Update, PoolOK, Judged
  <2>2. QED
    BY <1>1, <2>1, SaveInv DEF Update
<1>3. UNCHANGED <<index, now, picked>>
  BY DEF Update
<1>4. (PoolOK /\ StoreOK /\ SavedOK)' /\
      (index \in Nat /\ now \in Nat /\ picked \in Keys \cup {None})'
  BY <1>1, <1>2, <1>3, Parts
<1>5. QED
  BY <1>4 DEF IInv, TypeOK, NoDuplicates, PoolOK, StoreOK, SavedOK

LEMMA EditInv ==
  ASSUME IInv, NEW k \in Keys, AddKey(k) \/ RemoveKey(k)
  PROVE  IInv'
<1>1. PoolOK'
  <2>1. rec' \in [Keys -> KeyRecord]
    BY Parts, FreshType DEF PoolOK, AddKey, RemoveKey
  <2>2. CASE AddKey(k)
    BY <2>1, <2>2, Parts, AppendDistinct DEF AddKey, InPool, PoolOK
  <2>3. CASE RemoveKey(k)
    <3>1. PICK i \in 1 .. Len(order) : order' = CutOut(order, i)
      BY <2>3 DEF RemoveKey, CutOut
    <3>2. order' \in Seq(Keys) /\ Distinct(order')
      BY <3>1, Parts, CutOutDistinct DEF PoolOK
    <3>3. QED
      BY <2>1, <3>2 DEF PoolOK
  <2>4. QED
    BY <2>2, <2>3
<1>2. UNCHANGED <<index, now, picked>>
  BY DEF AddKey, RemoveKey
<1>3. StoreOK' /\ SavedOK'
  <2>1. Save(TRUE)
    BY DEF AddKey, RemoveKey
  <2>2. QED
    BY <1>1, <1>2, <2>1, SaveInv
<1>4. QED
  BY <1>1, <1>2, <1>3, Parts
  DEF IInv, TypeOK, NoDuplicates, PoolOK, StoreOK, SavedOK

(* The pool itself is not touched.                                         *)
LEMMA SamePool ==
  ASSUME IInv, UNCHANGED <<order, rec, saveVars>>,
         index' \in Nat, now' \in Nat, now <= now', picked' \in Keys \cup {None}
  PROVE  IInv'
<1>1. TypeOK' /\ NoDuplicates' /\ lastSave' <= now' /\ (failures = 0 => ~disk.torn)'
  BY DEF saveVars, IInv, TypeOK, NoDuplicates
<1>2. UNCHANGED <<order, rec, dirty, lastSave, disk, failures>>
  BY DEF saveVars
<1>3. CleanMeansSaved' /\ EditsSurvive' /\ LossIsRecent'
  BY <1>2 DEF IInv, CleanMeansSaved, EditsSurvive, LossIsRecent,
              Load, EmptyPool, Image
<1>4. QED
  BY <1>1, <1>3 DEF IInv

LEMMA GetNextInv == IInv /\ GetNext => IInv'
<1> SUFFICES ASSUME IInv, GetNext PROVE IInv'
  OBVIOUS
<1>1. UNCHANGED <<order, rec, saveVars>> /\ now' \in Nat /\ now <= now'
  BY Parts DEF GetNext
<1>2. IsFiniteSet(Available) /\ Cardinality(Available) \in Nat
  <2>1. IsFiniteSet(1 .. Len(order))
    BY Parts, FS_Interval DEF PoolOK
  <2>2. QED
    BY <2>1, FS_Subset, FS_CardinalityType DEF Available
<1>3. CASE Available = {}
  <2>1. picked' = None /\ index' = index
    BY <1>3 DEF GetNext
  <2>2. QED
    BY <1>1, <2>1, Parts, SamePool
<1>4. CASE Available # {}
  <2>1. Cardinality(Available) # 0
    BY <1>2, <1>4, FS_EmptySet
  <2>2. /\ index' = (index + 1) % Cardinality(Available)
        /\ \E i \in Available : picked' = order[i]
    BY <1>4 DEF GetNext
  <2>3. index' \in Nat
    BY <1>2, <2>1, <2>2, Parts
  <2>4. picked' \in Keys
    BY <2>2, Parts DEF Available, PoolOK
  <2>5. QED
    BY <1>1, <2>3, <2>4, SamePool
<1>5. QED
  BY <1>3, <1>4

LEMMA RestartInv == IInv /\ Restart => IInv'
<1> SUFFICES ASSUME IInv, Restart PROVE IInv'
  OBVIOUS
<1>1. /\ disk' = disk /\ now' = now /\ lastSave' = now /\ dirty' = FALSE
      /\ index' \in Nat /\ now' \in Nat /\ picked' \in Keys \cup {None}
  BY Parts DEF Restart
<1>2. CASE /\ order' = Load(disk).order /\ rec' = Load(disk).rec
           /\ UNCHANGED failures
  <2>1. PoolOK'
    <3>1. /\ Load(disk).order \in Seq(Keys) /\ Distinct(Load(disk).order)
          /\ Load(disk).rec \in [Keys -> KeyRecord]
      <4>1. CASE disk.torn
        BY <4>1, EmptyPoolType DEF Load, PoolImage, Distinct
      <4>2. CASE ~disk.torn
        BY <4>2, Parts DEF Load, StoreOK, PoolImage
      <4>3. QED
        BY <4>1, <4>2
    <3>2. QED
      BY <1>2, <3>1 DEF PoolOK
  <2>2. Load(disk)' = Image(order, rec)'
    <3>1. Load(disk) = Image(Load(disk).order, Load(disk).rec)
      <4>1. Load(disk) \in PoolImage /\ ~Load(disk).torn
        BY Parts, EmptyPoolType DEF Load, StoreOK, PoolImage
      <4>2. QED
        BY <4>1 DEF PoolImage, Image
    <3>2. QED
      BY <1>1, <1>2, <3>1 DEF Load, EmptyPool, Image
  <2>3. StoreOK'
    BY <1>1, <1>2, Parts DEF StoreOK
  <2>4. SavedOK'
    <3>1. /\ Image(order', rec').order = order'
          /\ Image(order', rec').rec = rec'
      BY <2>1, ImageType DEF PoolOK
    <3>2. Load(disk)' = Image(order', rec')
      BY <2>2
    <3>3. CleanMeansSaved' /\ EditsSurvive' /\ LossIsRecent'
      BY <3>1, <3>2 DEF CleanMeansSaved, EditsSurvive, LossIsRecent
    <3>4. QED
      BY <1>1, <3>3 DEF SavedOK
  <2>5. QED
    BY <1>1, <2>1, <2>3, <2>4
    DEF IInv, TypeOK, NoDuplicates, PoolOK, StoreOK, SavedOK
<1>3. CASE /\ failures' = failures + 1 /\ order' = <<>>
           /\ rec' = [k \in Keys |-> Fresh]
  <2>1. PoolOK'
    BY <1>3, FreshType DEF PoolOK, Distinct
  <2>2. failures' \in Nat /\ failures' # 0
    BY <1>3, Parts DEF StoreOK
  <2>3. StoreOK'
    BY <1>1, <2>2, Parts DEF StoreOK
  <2>4. CleanMeansSaved' /\ EditsSurvive' /\ LossIsRecent'
    BY <1>3, <2>2 DEF CleanMeansSaved, EditsSurvive, LossIsRecent
  <2>5. QED
    BY <1>1, <2>1, <2>3, <2>4
    DEF IInv, TypeOK, NoDuplicates, PoolOK, StoreOK, SavedOK
<1>4. QED
  BY <1>2, <1>3 DEF Restart

(* The verdict of a request updates its key and enables nothing.           *)
LEMMA VerdictRecord ==
  ASSUME IInv, NEW k \in Keys, MarkSuccess(k) \/ MarkError(k)
  PROVE  \E r \in KeyRecord : Judged(rec[k], r) /\ Update(k, r, FALSE)
<1> USE Parts
<1>1. CASE MarkSuccess(k)
  <2> DEFINE until == IF IsCooling(rec[k]) THEN 0 ELSE rec[k].until
             r == [rec[k] EXCEPT !.requests = rec[k].requests + 1,
                                 !.until = until, !.recovers = 0]
  <2>1. /\ rec[k] \in KeyRecord /\ rec[k].requests + 1 \in Nat
        /\ until \in Nat /\ until \in {0, rec[k].until}
    BY DEF PoolOK, KeyRecord
  <2>2. r \in KeyRecord /\ Judged(rec[k], r)
    <3>. HIDE DEF until
    <3>1. QED
      BY <2>1 DEF KeyRecord, Judged
  <2>3. Update(k, r, FALSE)
    BY <1>1 DEF MarkSuccess
  <2>4. QED
    BY <2>2, <2>3
<1>2. CASE MarkError(k)
  <2> DEFINE recovers == IF RecentlyRecovered(rec[k])
                           THEN rec[k].recovers + 1 ELSE 0
             r == [rec[k] EXCEPT !.errors = rec[k].errors + 1,
                                 !.until = now + CooldownSec,
                                 !.recovers = recovers]
  <2>a. rec[k] \in KeyRecord /\ now + CooldownSec \in Nat
    BY PoolAssumption DEF PoolAssumption, PoolOK
  <2>1. /\ rec[k] \in KeyRecord /\ rec[k].errors + 1 \in Nat
        /\ now + CooldownSec \in Nat /\ recovers \in Nat
    BY <2>a DEF KeyRecord
  <2>2. /\ r \in KeyRecord /\ r.enabled = rec[k].enabled
        /\ r.until = now + CooldownSec
    <3>. HIDE DEF recovers
    <3>1. QED
      BY <2>1 DEF KeyRecord
  <2>3. Disabled(r) \in KeyRecord /\ Judged(rec[k], Disabled(r))
    BY <2>2, DisabledType DEF Judged
  <2>4. Update(k, Disabled(r), FALSE)
    BY <1>2 DEF MarkError
  <2>5. QED
    BY <2>3, <2>4
<1>3. QED
  BY <1>1, <1>2

LEMMA NextInv == IInv /\ [Next]_vars => IInv'
<1> SUFFICES ASSUME IInv, [Next]_vars PROVE IInv'
  OBVIOUS
<1> USE Parts
<1>1. ASSUME NEW k \in Keys, AddKey(k) \/ RemoveKey(k) PROVE IInv'
  BY <1>1, EditInv
<1>2. ASSUME NEW k \in Keys, ToggleKey(k) PROVE IInv'
  BY <1>2, ToggledType, UpdateInv DEF ToggleKey, PoolOK
<1>3. ASSUME NEW k \in Keys,
             RestoreKey(k) \/ MarkDisabledByQuota(k, "5h_quota")
      PROVE  IInv'
  <2>1. PICK r \in KeyRecord : Update(k, r, TRUE)
    BY <1>3 DEF RestoreKey, MarkDisabledByQuota, PoolOK, KeyRecord, Reasons
  <2>2. QED
    BY <2>1, UpdateInv
<1>4. ASSUME NEW k \in Keys, MarkSuccess(k) \/ MarkError(k) PROVE IInv'
  BY <1>4, VerdictRecord, UpdateInv
<1>6. CASE GetNext
  BY <1>6, GetNextInv
<1>7. CASE Tick
  BY <1>7, SamePool DEF Tick
<1>8. CASE FlushPool
  <2>1. /\ PoolOK' /\ index' \in Nat /\ now' \in Nat /\ now' = now
        /\ picked' \in Keys \cup {None} /\ UNCHANGED <<order, rec>>
    BY <1>8 DEF FlushPool, PoolOK
  <2>2. StoreOK' /\ SavedOK'
    <3>1. dirty \in BOOLEAN /\ Flush(dirty)
      BY <1>8 DEF FlushPool, StoreOK
    <3>2. QED
      BY <2>1, <3>1, FlushInv
  <2>3. QED
    BY <2>1, <2>2 DEF IInv, TypeOK, NoDuplicates, PoolOK, StoreOK, SavedOK
<1>9. CASE Restart
  BY <1>9, RestartInv
<1>10. CASE UNCHANGED vars
  BY <1>10, SamePool DEF vars, saveVars
<1>11. QED
  BY <1>1, <1>2, <1>3, <1>4, <1>6, <1>7, <1>8, <1>9, <1>10 DEF Next

(* A key is in the pool once, so that removing it takes it out.            *)
LEMMA RemovedIsGone ==
  ASSUME order \in Seq(Keys), Distinct(order), NEW k \in Keys, RemoveKey(k), InPool(k)'
  PROVE  FALSE
<1>1. PICK i \in 1 .. Len(order) : order[i] = k /\ order' = CutOut(order, i)
  BY DEF RemoveKey, CutOut
<1>2. PICK j \in 1 .. Len(order) - 1 : order'[j] = k
  BY <1>1, CutOutElements DEF InPool
<1>3. order'[j] = IF j < i THEN order[j] ELSE order[j + 1]
  BY <1>1, <1>2, CutOutElements
<1>4. PICK n \in 1 .. Len(order) : n # i /\ order[n] = k
  <2>1. CASE j < i
    BY <1>2, <1>3, <2>1
  <2>2. CASE ~(j < i)
    <3>1. j + 1 \in 1 .. Len(order) /\ j + 1 # i /\ order[j + 1] = k
      BY <1>2, <1>3, <2>2
    <3>2. QED
      BY <3>1
  <2>3. QED
    BY <2>1, <2>2
<1>5. QED
  BY <1>1, <1>4 DEF Distinct

(* The invariant of the pool holds in every reachable state.               *)
THEOREM InvariantHolds == Spec => []IInv
BY InitIInv, NextInv, PTL DEF Spec

(* Every variable keeps its type.                                          *)
THEOREM TypeCorrect == Spec => []TypeOK
<1>1. IInv => TypeOK
  BY DEF IInv
<1>2. QED
  BY <1>1, InvariantHolds, PTL

(* No key is ever in the pool twice, whatever is added, removed, reloaded. *)
THEOREM KeysAreDistinct == Spec => []NoDuplicates
<1>1. IInv => NoDuplicates
  BY DEF IInv
<1>2. QED
  BY <1>1, InvariantHolds, PTL

(* While the dirty flag is down keys.json is no stale copy of the pool: it *)
(* is the pool, or cut off, or the pool is empty.                          *)
THEOREM CleanIsSaved == Spec => []CleanMeansSaved
<1>1. IInv => CleanMeansSaved
  BY DEF IInv
<1>2. QED
  BY <1>1, InvariantHolds, PTL

(* While no read or write has failed a crash loses no edit.                *)
THEOREM EditsSurviveCrashes == Spec => []EditsSurvive
<1>1. IInv => EditsSurvive
  BY DEF IInv
<1>2. QED
  BY <1>1, InvariantHolds, PTL

(* While no read or write has failed, the cooldowns a crash would lose are *)
(* those of one save interval, for any interval and any number of keys.    *)
THEOREM LossesAreRecent == Spec => []LossIsRecent
<1>1. IInv => LossIsRecent
  BY DEF IInv
<1>2. QED
  BY <1>1, InvariantHolds, PTL

(* A key the operator switched off stays off until the operator switches   *)
(* it on: no probe, scan, late verdict or throttled save does it, and a    *)
(* restart only once a read or write has failed.                           *)
THEOREM OnlyTheOperatorEnables == Spec => OffStaysOff
<1>1. ASSUME IInv, Next, NEW k \in Keys,
             InPool(k), ~rec[k].enabled, InPool(k)', rec'[k].enabled,
             ~ToggleKey(k), ~(Restart /\ failures > 0)
      PROVE  FALSE
  <2>1. rec[k] \in KeyRecord /\ order \in Seq(Keys) /\ Distinct(order)
        /\ rec \in [Keys -> KeyRecord]
    BY <1>1, Parts DEF PoolOK
  <2>2. rec'[k] # rec[k]
    BY <1>1
  <2>3. ASSUME NEW l \in Keys, AddKey(l) \/ RemoveKey(l) PROVE FALSE
    <3>1. l = k
      BY <2>1, <2>2, <2>3 DEF AddKey, RemoveKey
    <3>2. RemoveKey(k)
      BY <1>1, <2>3, <3>1 DEF AddKey
    <3>3. QED
      BY <1>1, <2>1, <3>2, RemovedIsGone
  <2>4. ASSUME NEW l \in Keys, NEW r, NEW force, Update(l, r, force),
               l = k => r.enabled = rec[k].enabled
        PROVE  FALSE
    <3>1. l # k
      BY <1>1, <2>1, <2>4 DEF Update
    <3>2. QED
      BY <2>1, <2>2, <2>4, <3>1 DEF Update
  <2>5. ASSUME NEW l \in Keys, ToggleKey(l) PROVE FALSE
    <3>1. l # k
      BY <1>1, <2>5
    <3>2. QED
      BY <2>4, <2>5, <3>1 DEF ToggleKey
  <2>6. ASSUME NEW l \in Keys,
               RestoreKey(l) \/ MarkDisabledByQuota(l, "5h_quota")
        PROVE  FALSE
    BY <2>1, <2>4, <2>6 DEF RestoreKey, MarkDisabledByQuota, KeyRecord
  <2>7. ASSUME NEW l \in Keys, MarkSuccess(l) \/ MarkError(l) PROVE FALSE
    BY <1>1, <2>4, <2>7, VerdictRecord DEF Judged
  <2>9. CASE Restart
    <3>1. failures = 0
      BY <1>1, <2>9, Parts DEF StoreOK
    <3>2. order' = Load(disk).order /\ rec' = Load(disk).rec
      BY <1>1, <2>9 DEF Restart, InPool
    <3>3. rec'[k].enabled = rec[k].enabled
      BY <1>1, <3>1, <3>2 DEF IInv, EditsSurvive
    <3>4. QED
      BY <1>1, <3>3
  <2>10. QED
    BY <1>1, <2>2, <2>3, <2>5, <2>6, <2>7, <2>9
    DEF Next, GetNext, Tick, FlushPool
<1>2. IInv /\ [Next]_vars =>
        [\A k \in Keys :
           InPool(k) /\ ~rec[k].enabled /\ InPool(k)' /\ rec'[k].enabled =>
             ToggleKey(k) \/ (Restart /\ failures > 0)]_vars
  BY <1>1 DEF vars
<1>3. QED
  BY <1>2, InvariantHolds, PTL DEF Spec, OffStaysOff
-----------------------------------------------------------------------------
(* Rotation.  Different positions hold different keys, so that keys can be *)
(* counted by their positions.                                             *)
LEMMA CountKeys ==
  ASSUME order \in Seq(Keys), Distinct(order), NEW S \in SUBSET (1 .. Len(order))
  PROVE  /\ IsFiniteSet({order[i] : i \in S})
         /\ Cardinality({order[i] : i \in S}) = Cardinality(S)
<1> DEFINE T == {order[i] : i \in S}
           f == [i \in S |-> order[i]]
<1>1. IsFiniteSet(S)
  <2>1. IsFiniteSet(1 .. Len(order))
    BY FS_Interval
  <2>2. QED
    BY <2>1, FS_Subset
<1>2. f \in [S -> T] /\ \A i \in S : f[i] = order[i]
  OBVIOUS
<1>3. \A i, j \in S : f[i] = f[j] => i = j
  BY <1>2 DEF Distinct
<1>4. \A t \in T : \E i \in S : f[i] = t
  BY <1>2
<1>5. f \in Bijection(S, T)
  BY <1>2, <1>3, <1>4 DEF Bijection, Injection, Surjection, IsInjective
<1>6. QED
  BY <1>1, <1>5, FS_Bijection DEF ExistsBijection

LEMMA AvailableCount ==
  ASSUME order \in Seq(Keys), Distinct(order)
  PROVE  /\ IsFiniteSet(AvailableKeys) /\ Cardinality(AvailableKeys) \in Nat
         /\ Cardinality(AvailableKeys) = Cardinality(Available)
         /\ AvailableKeys = {} <=> Available = {}
         /\ \A i \in Available :
              Rank(order[i]) = Cardinality({j \in Available : j < i})
<1>1. /\ IsFiniteSet(AvailableKeys)
      /\ Cardinality(AvailableKeys) = Cardinality(Available)
  BY CountKeys DEF AvailableKeys, Available
<1>2. ASSUME NEW i \in Available
      PROVE  Rank(order[i]) = Cardinality({j \in Available : j < i})
  <2> DEFINE S == {j \in Available : j < i}
  <2>1. S \in SUBSET (1 .. Len(order))
    BY DEF Available
  <2>2. {order[j] : j \in S} = {l \in AvailableKeys : Precedes(l, order[i])}
    BY DEF AvailableKeys, Available, Precedes, Distinct
  <2>3. QED
    BY <2>1, <2>2, CountKeys DEF Rank
<1>3. QED
  BY <1>1, <1>2, FS_CardinalityType DEF AvailableKeys

LEMMA RankGrows ==
  ASSUME order \in Seq(Keys), Distinct(order),
         NEW k \in AvailableKeys, NEW l \in AvailableKeys, Precedes(k, l)
  PROVE  Rank(k) < Rank(l)
<1> DEFINE before(m) == {n \in AvailableKeys : Precedes(n, m)}
<1>1. IsFiniteSet(before(l)) /\ Cardinality(before(l)) \in Nat
  BY AvailableCount, FS_Subset, FS_CardinalityType
<1>2. before(k) \subseteq before(l)
  BY DEF Precedes, Distinct
<1>3. k \in before(l) /\ k \notin before(k)
  BY DEF Precedes, Distinct
<1>4. /\ Cardinality(before(k)) \in Nat
      /\ Cardinality(before(k)) <= Cardinality(before(l))
      /\ Cardinality(before(k)) # Cardinality(before(l))
  <2> HIDE DEF before
  <2> QED
    BY <1>1, <1>2, <1>3, FS_Subset, FS_CardinalityType
<1>5. QED
  BY <1>1, <1>4 DEF Rank

(* Ranks number the available keys: from 0 on, each its own.               *)
LEMMA RankNumbers ==
  ASSUME order \in Seq(Keys), Distinct(order),
         NEW k \in AvailableKeys, NEW l \in AvailableKeys
  PROVE  /\ Rank(k) \in 0 .. Cardinality(AvailableKeys) - 1
         /\ Rank(k) = Rank(l) => k = l
<1> DEFINE before == {n \in AvailableKeys : Precedes(n, k)}
<1>1. /\ IsFiniteSet(AvailableKeys \ {k})
      /\ Cardinality(AvailableKeys \ {k}) = Cardinality(AvailableKeys) - 1
  BY AvailableCount, FS_RemoveElement
<1>2. before \subseteq AvailableKeys \ {k}
  BY DEF Precedes, Distinct
<1>3. /\ Cardinality(before) \in Nat
      /\ Cardinality(before) <= Cardinality(AvailableKeys) - 1
  <2> HIDE DEF before
  <2> QED
    BY <1>1, <1>2, FS_Subset, FS_CardinalityType
<1>4. Rank(k) \in 0 .. Cardinality(AvailableKeys) - 1
  BY <1>3, AvailableCount DEF Rank
<1>5. k = l \/ Precedes(k, l) \/ Precedes(l, k)
  BY DEF AvailableKeys, Available, Precedes
<1>6. Rank(k) \in Int /\ Rank(l) \in Int
  <2>1. \A n \in AvailableKeys : Rank(n) \in Int
    <3> TAKE n \in AvailableKeys
    <3>1. IsFiniteSet({m \in AvailableKeys : Precedes(m, n)})
      BY AvailableCount, FS_Subset
    <3>2. QED
      BY <3>1, FS_CardinalityType DEF Rank
  <2>2. QED
    BY <2>1
<1>7. QED
  BY <1>4, <1>5, <1>6, RankGrows

LEMMA Division ==
  ASSUME NEW c \in Nat \ {0}, NEW p \in Int, NEW q \in Int,
         NEW m \in 0 .. c - 1, NEW n \in 0 .. c - 1, c * p + m = c * q + n
  PROVE  m = n
<1>1. ASSUME NEW x \in Int, NEW y \in Int, x < y
      PROVE  c * x + c <= c * y
  <2>1. PICK d \in Nat : y = x + 1 + d
    <3>1. y - x - 1 \in Nat /\ y = x + 1 + (y - x - 1)
      BY <1>1
    <3>2. QED
      BY <3>1
  <2>2. c * y = c * x + c + c * d /\ c * d >= 0
    BY <2>1
  <2>3. c * x \in Int /\ c * d \in Int
    OBVIOUS
  <2>4. QED
    BY <2>2, <2>3
<1>2. c * p \in Int /\ c * q \in Int
  OBVIOUS
<1>3. p < q => c * p + c <= c * q
  BY <1>1
<1>4. q < p => c * q + c <= c * p
  BY <1>1
<1>5. p = q
  BY <1>2, <1>3, <1>4
<1>6. QED
  BY <1>2, <1>5

LEMMA Modulo ==
  ASSUME NEW a \in Nat, NEW c \in Nat \ {0}
  PROVE  /\ a % c \in 0 .. c - 1
         /\ a < c => a % c = a
         /\ (a + 1) % c = IF (a % c) + 1 = c THEN 0 ELSE (a % c) + 1
<1>1. PICK q \in Int, r \in 0 .. c - 1 : a % c = r /\ a = c * q + r
  <2>1. a \div c \in Int /\ a % c \in 0 .. c - 1
    OBVIOUS
  <2>2. a = c * (a \div c) + (a % c)
    OBVIOUS
  <2>3. QED
    BY <2>1, <2>2
<1>2. PICK p \in Int, m \in 0 .. c - 1 : (a + 1) % c = m /\ a + 1 = c * p + m
  <2>1. (a + 1) \div c \in Int /\ (a + 1) % c \in 0 .. c - 1
    OBVIOUS
  <2>2. a + 1 = c * ((a + 1) \div c) + ((a + 1) % c)
    OBVIOUS
  <2>3. QED
    BY <2>1, <2>2
<1>3. a < c => a % c = a
  OBVIOUS
<1>4. r + 1 = c => m = 0
  <2>1. c * (q + 1) = c * q + c /\ c * q \in Int /\ c * p \in Int
    OBVIOUS
  <2>2. r + 1 = c => c * p + m = c * (q + 1) + 0
    BY <1>1, <1>2, <2>1
  <2>3. QED
    BY <2>2, Division
<1>5. r + 1 # c => m = r + 1
  <2>1. c * q \in Int /\ c * p \in Int
    OBVIOUS
  <2>2. r + 1 # c => r + 1 \in 0 .. c - 1 /\ c * p + m = c * q + (r + 1)
    BY <1>1, <1>2, <2>1
  <2>3. QED
    BY <2>2, Division
<1>6. QED
  BY <1>1, <1>2, <1>3, <1>4, <1>5, Zenon

-----------------------------------------------------------------------------
(* Streaks.  What a step of the pool makes of the record r of a key.       *)
Counted(r, q) ==
  \/ q = Fresh
  \/ q.recovers = 0
  \/ q.recovers = r.recovers /\ q.errors = r.errors /\ q.requests = r.requests
  \/ q.recovers = r.recovers + 1 /\ q.errors = r.errors + 1

Counts(l) ==
  \/ AddKey(l) \/ RemoveKey(l) \/ ToggleKey(l)
  \/ RestoreKey(l) \/ MarkDisabledByQuota(l, "5h_quota")
  \/ MarkSuccess(l) \/ MarkError(l)

LEMMA DisabledCounts ==
  ASSUME NEW r \in KeyRecord
  PROVE  /\ Disabled(r).recovers = r.recovers /\ Disabled(r).errors = r.errors
         /\ Disabled(r).requests = r.requests
         /\ Disabled(r).reason = "5h_quota" /\ r.reason = "" =>
              r.recovers >= Threshold
<1>1. PICK e \in Nat :
        e = IF r.reason = "5h_quota" THEN r.escalation + 1 ELSE 1
  BY DEF KeyRecord
<1>2. \/ Disabled(r) = r
      \/ Disabled(r) = [r EXCEPT !.escalation = e, !.reason = "period_quota"]
      \/ /\ r.recovers >= Threshold
         /\ Disabled(r) = [r EXCEPT !.escalation = e, !.reason = "5h_quota"]
      \/ Disabled(r) = [r EXCEPT !.reason = "period_quota"]
  BY <1>1, DisabledCases, Zenon
<1>3. QED
  BY <1>1, <1>2 DEF KeyRecord

(* The record an error leaves.                                             *)
LEMMA ErrorRecord ==
  ASSUME IInv, NEW k \in Keys, MarkError(k)
  PROVE  /\ Counted(rec[k], rec'[k]) /\ rec'[k].errors = rec[k].errors + 1
         /\ \A l \in Keys \ {k} : rec'[l] = rec[l]
         /\ rec'[k].reason = "5h_quota" /\ rec[k].reason = "" =>
              rec'[k].recovers >= Threshold
<1> DEFINE recovers == IF RecentlyRecovered(rec[k])
                         THEN rec[k].recovers + 1 ELSE 0
           r == [rec[k] EXCEPT !.errors = rec[k].errors + 1,
                               !.until = now + CooldownSec,
                               !.recovers = recovers]
<1>1. /\ rec \in [Keys -> KeyRecord] /\ rec[k] \in KeyRecord
      /\ now + CooldownSec \in Nat
  BY Parts, PoolAssumption DEF PoolAssumption, PoolOK
<1>2. /\ rec[k].errors + 1 \in Nat /\ recovers \in Nat
      /\ recovers \in {0, rec[k].recovers + 1}
  BY <1>1 DEF KeyRecord
<1>3. /\ r \in KeyRecord /\ r.errors = rec[k].errors + 1
      /\ r.recovers = recovers /\ r.reason = rec[k].reason
  <2> HIDE DEF recovers
  <2> QED
    BY <1>1, <1>2 DEF KeyRecord
<1>4. rec' = [rec EXCEPT ![k] = Disabled(r)]
  BY DEF MarkError, Update
<1>5. rec'[k] = Disabled(r) /\ \A l \in Keys \ {k} : rec'[l] = rec[l]
  BY <1>1, <1>4
<1>6. QED
  <2> HIDE DEF r, recovers
  <2> QED
    BY <1>2, <1>3, <1>5, DisabledCounts DEF Counted

LEMMA StepCounts ==
  ASSUME IInv, (\E l \in Keys : Counts(l)) \/ Tick \/ FlushPool, NEW k \in Keys
  PROVE  Counted(rec[k], rec'[k])
<1>1. rec \in [Keys -> KeyRecord] /\ rec[k] \in KeyRecord
  BY Parts DEF PoolOK
<1>2. rec' = rec => Counted(rec[k], rec'[k])
  BY DEF Counted
<1>3. ASSUME NEW l \in Keys, AddKey(l) \/ RemoveKey(l)
      PROVE  Counted(rec[k], rec'[k])
  BY <1>1, <1>3 DEF AddKey, RemoveKey, Counted
<1>4. ASSUME NEW l \in Keys, NEW r, NEW force, Update(l, r, force),
             Counted(rec[l], r)
      PROVE  Counted(rec[k], rec'[k])
  BY <1>1, <1>4 DEF Update, Counted
<1>5. ASSUME NEW l \in Keys, ToggleKey(l) PROVE Counted(rec[k], rec'[k])
  <2>1. rec[l] \in KeyRecord
    BY <1>1
  <2>2. Counted(rec[l], Toggled(rec[l]))
    BY <2>1 DEF Toggled, Counted, KeyRecord
  <2>3. QED
    BY <1>4, <1>5, <2>2 DEF ToggleKey
<1>6. ASSUME NEW l \in Keys,
             RestoreKey(l) \/ MarkDisabledByQuota(l, "5h_quota")
      PROVE  Counted(rec[k], rec'[k])
  <2>1. rec[l] \in KeyRecord
    BY <1>1
  <2>2. /\ Counted(rec[l], [rec[l] EXCEPT !.reason = "", !.until = 0,
                                          !.recovers = 0])
        /\ Counted(rec[l], [rec[l] EXCEPT !.reason = "5h_quota"])
    BY <2>1 DEF Counted, KeyRecord
  <2>3. QED
    BY <1>4, <1>6, <2>2 DEF RestoreKey, MarkDisabledByQuota
<1>7. ASSUME NEW l \in Keys, MarkSuccess(l) PROVE Counted(rec[k], rec'[k])
  <2> DEFINE until == IF IsCooling(rec[l]) THEN 0 ELSE rec[l].until
             r == [rec[l] EXCEPT !.requests = rec[l].requests + 1,
                                 !.until = until, !.recovers = 0]
  <2>1. rec[l] \in KeyRecord
    BY <1>1
  <2>2. Counted(rec[l], r)
    <3> HIDE DEF until
    <3> QED
      BY <2>1 DEF Counted, KeyRecord
  <2>3. Update(l, r, FALSE)
    BY <1>7 DEF MarkSuccess
  <2>4. QED
    BY <1>4, <2>2, <2>3
<1>8. ASSUME NEW l \in Keys, MarkError(l) PROVE Counted(rec[k], rec'[k])
  <2>1. CASE k = l
    BY <1>8, <2>1, ErrorRecord
  <2>2. CASE k # l
    BY <1>8, <2>2, ErrorRecord DEF Counted
  <2>3. QED
    BY <2>1, <2>2
<1>9. QED
  BY <1>2, <1>3, <1>5, <1>6, <1>7, <1>8 DEF Counts, Tick, FlushPool

(* A step of the pool with its history is a step of the pool.              *)
LEMMA HistoryIsPool == [HistoryNext]_historyVars => [Next]_vars
BY DEF HistoryNext, historyVars, Next

LEMMA StreakStep ==
  ASSUME IInv, StreakInv, [HistoryNext]_historyVars
  PROVE  StreakInv'
<1>0. IInv' /\ rec' \in [Keys -> KeyRecord]
  <2>1. IInv'
    BY HistoryIsPool, NextInv
  <2>2. QED
    BY <2>1 DEF IInv, TypeOK
<1> SUFFICES ASSUME NEW k \in Keys
             PROVE  streak'[k] \in Nat /\ rec'[k].recovers <= streak'[k]
  BY DEF StreakInv
<1>1. /\ rec'[k] \in KeyRecord /\ rec[k] \in KeyRecord
      /\ streak[k] \in Nat /\ rec[k].recovers <= streak[k]
  BY <1>0, Parts DEF PoolOK, StreakInv
<1>2. CASE rec' = rec /\ streak' = streak
  BY <1>1, <1>2
<1>3. CASE streak' = [l \in Keys |-> rec'[l].recovers]
  BY <1>1, <1>3 DEF KeyRecord
<1>4. CASE Counted(rec[k], rec'[k]) /\ StreakNext
  <2>1. streak'[k] = IF rec'[k] = Fresh THEN 0
                     ELSE IF rec'[k].errors = rec[k].errors + 1 THEN streak[k] + 1
                     ELSE IF rec'[k].requests = rec[k].requests + 1 THEN 0
                     ELSE streak[k]
    BY <1>4 DEF StreakNext
  <2>2. Fresh.recovers = 0
    BY DEF Fresh
  <2>3. QED
    BY <1>1, <1>4, <2>1, <2>2 DEF Counted, KeyRecord
<1>5. QED
  BY <1>2, <1>3, <1>4, StepCounts
  DEF HistoryNext, historyVars, vars, GetNext, Restart, Counts

-----------------------------------------------------------------------------
(* A selection takes the available key whose rank the index points at.     *)
LEMMA PickedRank ==
  ASSUME IInv, GetNext, Available # {}
  PROVE  /\ picked' \in AvailableKeys /\ Cardinality(AvailableKeys) \in Nat \ {0}
         /\ Rank(picked') = index % Cardinality(AvailableKeys)
         /\ index' = (index + 1) % Cardinality(AvailableKeys)
<1>1. order \in Seq(Keys) /\ Distinct(order)
  BY Parts DEF PoolOK
<1>2. PICK i \in Available :
        /\ Cardinality({j \in Available : j < i}) = index % Cardinality(Available)
        /\ picked' = order[i] /\ index' = (index + 1) % Cardinality(Available)
  BY DEF GetNext
<1>3. Cardinality(AvailableKeys) \in Nat \ {0}
  BY <1>1, AvailableCount, FS_EmptySet
<1>4. QED
  BY <1>1, <1>2, <1>3, AvailableCount DEF AvailableKeys

(* The rank at the index is one that was not passed; passing it too leaves *)
(* none, or moves the index past it.                                       *)
LEMMA PassingOne ==
  ASSUME NEW c \in Nat \ {0}, index \in 0 .. c - 1, NEW s \in 0 .. c - 1, s # index,
         index' = IF index + 1 = c THEN 0 ELSE index + 1,
         NEW r \in 0 .. c - 1
  PROVE  /\ ~Passed(index, s)
         /\ s = index' => Passed(r, s) \/ r = index
         /\ s # index' => (Passed(r, s)' <=> Passed(r, s) \/ r = index)
BY DEF Passed

LEMMA NotPickedBefore ==
  ASSUME IInv, RotationInv, GetNext, Available # {}
  PROVE  picked' \notin served
<1> DEFINE c == Cardinality(AvailableKeys)
<1> SUFFICES ASSUME picked' \in served PROVE FALSE
  OBVIOUS
<1>1. /\ picked' \in AvailableKeys /\ c \in Nat \ {0}
      /\ Rank(picked') = index % c
  BY PickedRank
<1>2. PICK s \in 0 .. c - 1 :
        s # index /\ \A k \in AvailableKeys : k \in served <=> Passed(Rank(k), s)
  BY DEF RotationInv
<1>3. index \in 0 .. c - 1
  BY <1>1, Parts DEF RotationInv
<1>4. Rank(picked') = index
  <2>1. c \in Nat \ {0} /\ index \in Nat /\ index < c
    BY <1>1, <1>3
  <2>2. index % c = index
    <3> HIDE DEF c
    <3> QED
      BY <2>1, Modulo
  <2>3. QED
    BY <1>1, <2>2
<1>5. Passed(index, s)
  BY <1>1, <1>2, <1>4
<1>6. QED
  BY <1>2, <1>3, <1>5 DEF Passed

(* The selection itself changes no rank.                                   *)
LEMMA SelectionKeepsRanks ==
  ASSUME UNCHANGED <<order, rec, now>>
  PROVE  AvailableKeys' = AvailableKeys /\ \A k : Rank(k)' = Rank(k)
BY DEF AvailableKeys, Available, IsAvailable, IsCooling, Rank, Precedes

LEMMA SelectionRotates ==
  ASSUME IInv, RotationInv, GetNext,
         served' = IF AvailableKeys \subseteq served \cup {picked'}
                     THEN {} ELSE served \cup {picked'}
  PROVE  RotationInv'
<1> DEFINE c == Cardinality(AvailableKeys)
<1>0. order \in Seq(Keys) /\ Distinct(order) /\ index \in Nat
  BY Parts DEF PoolOK
<1>1. AvailableKeys' = AvailableKeys /\ \A k : Rank(k)' = Rank(k)
  BY SelectionKeepsRanks DEF GetNext
<1>2. CASE served' = {}
  BY <1>2 DEF RotationInv
<1>3. CASE served' # {}
  <2>1. served' = served \cup {picked'} /\ ~(AvailableKeys \subseteq served')
    BY <1>3
  <2>2. Available # {}
    BY <1>0, <2>1, AvailableCount
  <2>3. /\ picked' \in AvailableKeys /\ c \in Nat \ {0}
        /\ Rank(picked') = index % c /\ index' = (index + 1) % c
    BY <2>2, PickedRank
  <2>4. /\ index % c \in 0 .. c - 1
        /\ index < c => index % c = index
        /\ index' = IF (index % c) + 1 = c THEN 0 ELSE (index % c) + 1
    <3> HIDE DEF c
    <3> QED
      BY <1>0, <2>3, Modulo
  <2>5. \A k \in AvailableKeys : Rank(k) \in 0 .. c - 1
    BY <1>0, RankNumbers
  <2>6. \A k \in AvailableKeys : k = picked' <=> Rank(k) = Rank(picked')
    BY <1>0, <2>3, RankNumbers
  <2>7. served' \subseteq AvailableKeys /\ index' < c
    <3>1. served' \subseteq AvailableKeys
      BY <2>1, <2>3 DEF RotationInv
    <3>2. index' < c
      <4> HIDE DEF c
      <4> QED
        BY <2>3, <2>4
    <3>3. QED
      BY <3>1, <3>2
  <2>8. \E s \in 0 .. c - 1 :
          s # index' /\ \A k \in AvailableKeys : k \in served' <=> Passed(Rank(k), s)'
    <3>1. CASE served = {}
      <4>1. PICK k \in AvailableKeys : k # picked'
        BY <2>1
      <4>2. c # 1
        BY <2>3, <2>5, <2>6, <4>1
      <4>3. PICK s \in 0 .. c - 1 : s = index % c
        BY <2>4
      <4>4. /\ s # index'
            /\ \A r \in 0 .. c - 1 : Passed(r, s)' <=> r = s
        <5> HIDE DEF c
        <5> QED
          BY <2>3, <2>4, <4>2, <4>3 DEF Passed
      <4>5. \A l \in AvailableKeys : Passed(Rank(l), s)' <=> Rank(l) = s
        BY <1>1, <2>5, <4>4 DEF Passed
      <4>6. \A l \in AvailableKeys : Passed(Rank(l), s)' <=> l = picked'
        BY <2>3, <2>6, <4>3, <4>5
      <4>7. QED
        BY <2>1, <3>1, <4>4, <4>6
    <3>2. CASE served # {}
      <4>1. index < c
        BY <3>2 DEF RotationInv
      <4>2. PICK s \in 0 .. c - 1 :
              /\ s # index
              /\ \A k \in AvailableKeys : k \in served <=> Passed(Rank(k), s)
        BY <3>2 DEF RotationInv
      <4>3. /\ index \in 0 .. c - 1 /\ Rank(picked') = index
            /\ index' = IF index + 1 = c THEN 0 ELSE index + 1
        <5> HIDE DEF c
        <5> QED
          BY <1>0, <2>3, <2>4, <4>1
      <4>4. \A r \in 0 .. c - 1 :
              /\ s = index' => Passed(r, s) \/ r = index
              /\ s # index' => (Passed(r, s)' <=> Passed(r, s) \/ r = index)
        <5> HIDE DEF c
        <5> QED
          BY <2>3, <4>2, <4>3, PassingOne
      <4>5. \A k \in AvailableKeys :
              k \in served' <=> Passed(Rank(k), s) \/ Rank(k) = index
        BY <2>1, <2>6, <4>2, <4>3
      <4>6. s # index'
        BY <2>1, <2>5, <4>4, <4>5
      <4>7. \A k \in AvailableKeys :
              Passed(Rank(k), s)' <=> Passed(Rank(k), s) \/ Rank(k) = index
        BY <1>1, <2>5, <4>4, <4>6 DEF Passed
      <4>8. QED
        BY <4>2, <4>5, <4>6, <4>7
    <3>3. QED
      BY <3>1, <3>2
  <2>9. QED
    BY <1>1, <2>7, <2>8 DEF RotationInv
<1>4. QED
  BY <1>2, <1>3

(* An edit that leaves the available keys as they are leaves their order.  *)
LEMMA EditKeepsPrecedes ==
  ASSUME IInv, NEW k \in Keys, AddKey(k) \/ RemoveKey(k),
         AvailableKeys' = AvailableKeys,
         NEW a \in AvailableKeys, NEW b \in AvailableKeys
  PROVE  Precedes(a, b)' <=> Precedes(a, b)
<1>1. /\ order \in Seq(Keys) /\ Distinct(order) /\ now \in Nat
      /\ rec \in [Keys -> KeyRecord] /\ now' = now
  BY Parts DEF PoolOK, AddKey, RemoveKey
<1>2. CASE AddKey(k)
  <2>1. /\ order' = Append(order, k) /\ rec' = [rec EXCEPT ![k] = Fresh]
        /\ ~InPool(k)
    BY <1>2 DEF AddKey
  <2>2. /\ Len(order') = Len(order) + 1 /\ order'[Len(order) + 1] = k
        /\ \A i \in 1 .. Len(order) : order'[i] = order[i]
    BY <1>1, <2>1, AppendProperties
  <2>3. rec'[k] = Fresh
    BY <1>1, <2>1
  <2>4. PICK n : n = Len(order) + 1
    OBVIOUS
  <2>5. k \in AvailableKeys
    <3>1. IsAvailable(Fresh)'
      BY <1>1 DEF IsAvailable, IsCooling, Fresh
    <3>2. n \in 1 .. Len(order') /\ order'[n] = k
      BY <1>1, <2>2, <2>4
    <3>3. IsAvailable(rec[order[n]])'
      BY <2>3, <3>1, <3>2
    <3>4. k \in AvailableKeys'
      BY <3>2, <3>3 DEF AvailableKeys, Available
    <3>5. QED
      BY <3>4
  <2>6. QED
    BY <2>1, <2>5 DEF AvailableKeys, Available, InPool
<1>3. CASE RemoveKey(k)
  <2>1. PICK n \in 1 .. Len(order) : order[n] = k /\ order' = CutOut(order, n)
    BY <1>3 DEF RemoveKey, CutOut
  <2>2. /\ Len(order') = Len(order) - 1
        /\ \A j \in 1 .. Len(order) - 1 :
              order'[j] = IF j < n THEN order[j] ELSE order[j + 1]
    BY <1>1, <2>1, CutOutElements
  <2>3. k \notin AvailableKeys
    <3>1. ~InPool(k)'
      BY <1>1, <1>3, RemovedIsGone
    <3>2. QED
      BY <3>1 DEF AvailableKeys, Available, InPool
  <2>4. a # k /\ b # k
    BY <2>3
  <2> DEFINE was(i) == IF i < n THEN i ELSE i + 1
             is(i) == IF i < n THEN i ELSE i - 1
  <2>5. ASSUME NEW i \in 1 .. Len(order')
        PROVE  was(i) \in 1 .. Len(order) /\ order[was(i)] = order'[i]
    BY <1>1, <2>2
  <2>6. ASSUME NEW i \in 1 .. Len(order), i # n
        PROVE  is(i) \in 1 .. Len(order') /\ order'[is(i)] = order[i]
    BY <1>1, <2>2, <2>6
  <2>7. Precedes(a, b)' => Precedes(a, b)
    <3> SUFFICES ASSUME NEW i \in 1 .. Len(order'), NEW j \in 1 .. Len(order'),
                        i < j, order'[i] = a, order'[j] = b
                 PROVE  Precedes(a, b)
      BY DEF Precedes
    <3>1. was(i) < was(j)
      BY <1>1, <2>2
    <3>2. QED
      <4> HIDE DEF was
      <4> QED
        BY <2>5, <3>1 DEF Precedes
  <2>8. Precedes(a, b) => Precedes(a, b)'
    <3> SUFFICES ASSUME NEW i \in 1 .. Len(order), NEW j \in 1 .. Len(order),
                        i < j, order[i] = a, order[j] = b
                 PROVE  Precedes(a, b)'
      BY DEF Precedes
    <3>1. i # n /\ j # n
      BY <2>1, <2>4
    <3>2. is(i) < is(j)
      BY <1>1, <3>1
    <3>3. QED
      <4> HIDE DEF is
      <4> QED
        BY <2>6, <3>1, <3>2 DEF Precedes
  <2>9. QED
    BY <2>7, <2>8
<1>4. QED
  BY <1>2, <1>3

LEMMA KeepsOrder ==
  ASSUME (\E l \in Keys : Counts(l)) \/ Tick \/ FlushPool
  PROVE  /\ index' = index
         /\ order' = order \/ \E k \in Keys : AddKey(k) \/ RemoveKey(k)
<1>1. ASSUME NEW l \in Keys, AddKey(l) \/ RemoveKey(l) PROVE index' = index
  BY <1>1 DEF AddKey, RemoveKey
<1>2. ASSUME NEW l \in Keys, NEW r, NEW force, Update(l, r, force)
      PROVE  index' = index /\ order' = order
  BY <1>2 DEF Update
<1>3. ASSUME NEW l \in Keys,
             ToggleKey(l) \/ RestoreKey(l) \/ MarkDisabledByQuota(l, "5h_quota")
      PROVE  index' = index /\ order' = order
  BY <1>2, <1>3 DEF ToggleKey, RestoreKey, MarkDisabledByQuota
<1>4. ASSUME NEW l \in Keys, MarkSuccess(l) \/ MarkError(l)
      PROVE  index' = index /\ order' = order
  BY <1>2, <1>4 DEF MarkSuccess, MarkError
<1>5. CASE Tick \/ FlushPool
  BY <1>5 DEF Tick, FlushPool
<1>6. QED
  BY <1>1, <1>3, <1>4, <1>5 DEF Counts

LEMMA OthersRotate ==
  ASSUME IInv, RotationInv, (\E l \in Keys : Counts(l)) \/ Tick \/ FlushPool,
         served' = IF AvailableKeys' = AvailableKeys THEN served ELSE {}
  PROVE  RotationInv'
<1>1. CASE AvailableKeys' # AvailableKeys
  BY <1>1 DEF RotationInv
<1>2. CASE AvailableKeys' = AvailableKeys
  <2>1. \/ order' = order
        \/ \E k \in Keys : AddKey(k) \/ RemoveKey(k)
    BY KeepsOrder
  <2>2. index' = index
    BY KeepsOrder
  <2>3. ASSUME NEW a \in AvailableKeys, NEW b \in AvailableKeys
        PROVE  Precedes(a, b)' <=> Precedes(a, b)
    <3>1. CASE order' = order
      BY <3>1 DEF Precedes
    <3>2. QED
      BY <1>2, <2>1, <3>1, EditKeepsPrecedes
  <2>4. ASSUME NEW k \in AvailableKeys PROVE Rank(k)' = Rank(k)
    <3>1. {l \in AvailableKeys : Precedes(l, k)}'
            = {l \in AvailableKeys : Precedes(l, k)}
      BY <1>2, <2>3
    <3>2. QED
      BY <3>1 DEF Rank
  <2>5. \A s, r : Passed(r, s)' <=> Passed(r, s)
    BY <2>2 DEF Passed
  <2>6. \A s : \A k \in AvailableKeys : Passed(Rank(k), s)' <=> Passed(Rank(k), s)
    BY <2>2, <2>4 DEF Passed
  <2>7. QED
    BY <1>2, <2>2, <2>6 DEF RotationInv
<1>3. QED
  BY <1>1, <1>2

LEMMA RotationStep ==
  ASSUME IInv, RotationInv, [HistoryNext]_historyVars
  PROVE  RotationInv'
<1>1. CASE UNCHANGED historyVars
  <2>1. UNCHANGED <<order, rec, now>> /\ index' = index /\ served' = served
    BY <1>1 DEF historyVars, vars
  <2>2. AvailableKeys' = AvailableKeys /\ \A k : Rank(k)' = Rank(k)
    BY <2>1, SelectionKeepsRanks
  <2>3. \A k, s : Passed(Rank(k), s)' <=> Passed(Rank(k), s)
    BY <2>1, <2>2 DEF Passed
  <2>4. QED
    BY <2>1, <2>2, <2>3 DEF RotationInv
<1>2. CASE Restart /\ served' = {}
  BY <1>2 DEF RotationInv
<1>3. QED
  BY <1>1, <1>2, SelectionRotates, OthersRotate DEF HistoryNext, Counts

(* The invariant of the pool with its history.                             *)
THEOREM HistoryInvariant == HistorySpec => [](IInv /\ RotationInv /\ StreakInv)
<1> DEFINE HInv == IInv /\ RotationInv /\ StreakInv
<1>1. HistoryInit => HInv
  <2>1. HistoryInit => IInv
    BY InitIInv DEF HistoryInit
  <2>2. HistoryInit => RotationInv
    BY DEF HistoryInit, RotationInv
  <2>3. HistoryInit => StreakInv
    <3>1. Fresh.recovers = 0
      BY DEF Fresh
    <3>2. QED
      BY <3>1 DEF HistoryInit, Init, StreakInv
  <2>4. QED
    BY <2>1, <2>2, <2>3
<1>2. HInv /\ [HistoryNext]_historyVars => HInv'
  BY HistoryIsPool, NextInv, RotationStep, StreakStep
<1>3. QED
  BY <1>1, <1>2, PTL DEF HistorySpec

(* No key is handed out again before each of the other available ones was, *)
(* wherever the index stood and whatever was added, removed or disabled.   *)
THEOREM RotationIsFull == HistorySpec => FullRotation
<1>1. IInv /\ RotationInv /\ [HistoryNext]_historyVars =>
        [GetNext /\ Available # {} => picked' \notin served]_historyVars
  BY NotPickedBefore
<1>2. QED
  BY <1>1, HistoryInvariant, PTL DEF HistorySpec, FullRotation

LEMMA StreakCounts ==
  ASSUME IInv, StreakInv, [HistoryNext]_historyVars, NEW k \in Keys
  PROVE  rec'[k].recovers >= Threshold => streak'[k] >= Threshold
<1>1. rec'[k].recovers <= streak'[k] /\ streak'[k] \in Nat
  BY StreakStep DEF StreakInv
<1>2. rec'[k] \in KeyRecord
  BY HistoryIsPool, NextInv DEF IInv, TypeOK
<1>3. Threshold \in Int
  BY PoolAssumption DEF PoolAssumption, Threshold
<1>4. QED
  BY <1>1, <1>2, <1>3 DEF KeyRecord

(* A key is disabled for a short quota only after Threshold errors in a    *)
(* row, whatever restarts and edits come between.                          *)
THEOREM DisabledAfterStreak == HistorySpec => DisabledByStreak
<1> DEFINE Step == \A k \in Keys :
      MarkError(k) /\ rec'[k].reason = "5h_quota" /\ rec[k].reason = "" =>
        streak'[k] >= Threshold
<1>1. IInv /\ StreakInv /\ [HistoryNext]_historyVars => [Step]_historyVars
  BY StreakCounts, ErrorRecord
<1>2. QED
  BY <1>1, HistoryInvariant, PTL DEF HistorySpec, DisabledByStreak
=============================================================================
