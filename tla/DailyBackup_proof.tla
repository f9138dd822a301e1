-------------------------- MODULE DailyBackup_proof ----------------------------
(***************************************************************************)
(* The invariant of DailyBackup and what follows from it, for any number   *)
(* of runs, any retention of two or more, any clock and any writes.        *)
(***************************************************************************)
EXTENDS DailyBackup, FiniteSetTheorems, TLAPS

\* There are finitely many archives, as there are finitely many names.
LEMMA KeptFinite == ASSUME TypeOK PROVE IsFiniteSet(kept) /\ Cardinality(kept) \in Nat
<1>1. IsFiniteSet(1..MaxTime)
  BY FS_Interval, BackupAssumption
<1>2. IsFiniteSet(kept)
  BY <1>1, FS_Subset DEF TypeOK, Times
<1> QED
  BY <1>2, FS_CardinalityType

\* What rotation takes is not the newest archive: more than two are there.
LEMMA OldestIsNotNewest ==
  ASSUME TypeOK, Cardinality(kept) > Keep, NEW n, Oldest(n), NEW m \in Times, Newest(m)
  PROVE  n # m
<1> SUFFICES ASSUME n = m PROVE FALSE
  OBVIOUS
<1>1. \A x \in kept : x = n
  BY BackupAssumption DEF Oldest, Newest, TypeOK, Times
<1>2. kept = {n}
  BY <1>1 DEF Oldest
<1>3. Cardinality(kept) = 1
  BY <1>2, FS_Singleton
<1> QED
  BY <1>3, BackupAssumption

\* The script begins in a state of the invariant.
LEMMA InitInv == Init => Inv
<1> SUFFICES ASSUME Init PROVE Inv
  OBVIOUS
<1>1. TypeOK
  BY BackupAssumption DEF Init, TypeOK, Values, Times, Steps
<1>2. /\ Locked /\ done <= db /\ (\A n \in kept : n <= now)
      /\ LatestVerifies /\ LatestCurrent
  BY DEF Init, Locked, LatestVerifies, LatestCurrent
<1>3. \A p \in Procs : Placed(p)
  BY DEF Init, Placed, Steps
<1> QED
  BY <1>1, <1>2, <1>3 DEF Inv

\* While one run is under way every other one is idle.
LEMMA OthersIdle ==
  ASSUME Locked, NEW p \in Procs, pc[p] # "idle" \/ lock = {},
         NEW q \in Procs, q # p
  PROVE  pc[q] = "idle"
BY DEF Locked

\* A step of the clock or of the panel leaves the invariant true.
LEMMA OutsideInv == ASSUME Inv, Write \/ Tick PROVE Inv'
<1> USE BackupAssumption
<1>0. /\ TypeOK /\ db' \in Values /\ now' \in Nat /\ db <= db' /\ now <= now'
      /\ UNCHANGED <<pc, own, lock, partial, done, kept, holds, intact, summed, latest>>
  <2>1. CASE Write
    BY <2>1 DEF Inv, Write, files, TypeOK, Values
  <2>2. CASE Tick
    BY <2>2 DEF Inv, Tick, files, TypeOK, Values
  <2> QED
    BY <2>1, <2>2
<1>1. TypeOK'
  BY <1>0 DEF TypeOK
<1>2. Locked' /\ LatestVerifies' /\ LatestCurrent'
  BY <1>0 DEF Inv, Locked, LatestVerifies, LatestCurrent, Verified
<1>3. done' <= db' /\ \A n \in kept' : n <= now'
  <2>1. done \in Nat /\ db \in Nat /\ db' \in Nat /\ kept \subseteq Nat /\ now \in Nat
    BY <1>0 DEF TypeOK, Values, Times
  <2> QED
    BY <1>0, <2>1 DEF Inv
<1>4. ASSUME NEW p \in Procs PROVE Placed(p)'
  <2>1. /\ Placed(p) /\ own[p].start \in Nat /\ db \in Nat /\ db' \in Nat
        /\ own[p].name \in Nat /\ now \in Nat
    BY <1>0 DEF Inv, TypeOK, Values, Times
  <2> QED
    BY <1>0, <2>1 DEF Placed, Newest, Verified
<1> QED
  BY <1>1, <1>2, <1>3, <1>4 DEF Inv

\* A step of a run leaves the invariant true.
LEMMA RunInv == ASSUME Inv, NEW p \in Procs, Step(p) PROVE Inv'
<1> USE BackupAssumption DEF To
<1>1. TypeOK'
  <2>1. CASE Begin(p)
    BY <2>1 DEF Inv, TypeOK, Placed, Newest, Begin, files, Steps, Values, Times
  <2>2. CASE Copy(p)
    BY <2>2 DEF Inv, TypeOK, Placed, Newest, Copy, files, Steps, Values, Times
  <2>3. CASE Pack(p)
    BY <2>3 DEF Inv, TypeOK, Placed, Newest, Pack, files, Steps, Values, Times
  <2>4. CASE Move(p)
    BY <2>4 DEF Inv, TypeOK, Placed, Newest, Move, files, Steps, Values, Times
  <2>5. CASE Sum(p)
    BY <2>5 DEF Inv, TypeOK, Placed, Newest, Sum, files, Steps, Values, Times
  <2>6. CASE Verify(p)
    BY <2>6 DEF Inv, TypeOK, Placed, Newest, Verify, files, Steps, Values, Times
  <2>7. CASE Empty(p)
    BY <2>7 DEF Inv, TypeOK, Placed, Newest, Empty, files, Steps, Values, Times
  <2>8. CASE NameLatest(p)
    BY <2>8 DEF Inv, TypeOK, Placed, Newest, NameLatest, files, Steps, Values, Times
  <2>9. CASE Rotate(p)
    BY <2>9 DEF Inv, TypeOK, Placed, Newest, Rotate, files, Steps, Values, Times
  <2>10. CASE Succeed(p)
    BY <2>10 DEF Inv, TypeOK, Placed, Newest, Succeed, files, Steps, Values, Times
  <2>11. CASE Fail(p)
    BY <2>11 DEF Inv, TypeOK, Placed, Newest, Fail, files, Steps, Values, Times
  <2>12. CASE Kill(p)
    BY <2>12 DEF Inv, TypeOK, Placed, Newest, Kill, files, Steps, Values, Times
  <2> QED
    BY <2>1, <2>2, <2>3, <2>4, <2>5, <2>6, <2>7, <2>8, <2>9, <2>10, <2>11, <2>12 DEF Step
<1>2. \A q \in Procs : q # p => pc[q] = "idle" /\ pc'[q] = "idle" /\ own'[q] = own[q]
  <2>1. pc[p] # "idle" \/ lock = {}
    BY DEF Step, Begin, Copy, Pack, Move, Sum, Verify, Empty, NameLatest, Rotate, Succeed, Fail, Kill
  <2>2. \A q \in Procs : q # p => pc'[q] = pc[q] /\ own'[q] = own[q]
    BY DEF Inv, TypeOK, Step, files, Begin, Copy, Pack, Move, Sum, Verify, Empty, NameLatest, Rotate, Succeed, Fail, Kill
  <2> QED
    BY <2>1, <2>2, OthersIdle DEF Inv
<1>3. Locked'
  <2>1. pc'[p] # "idle" => lock' = {p}
    BY DEF Inv, TypeOK, Locked, Step, files, Begin, Copy, Pack, Move, Sum, Verify, Empty, NameLatest, Rotate, Succeed, Fail, Kill
  <2> QED
    BY <1>2, <2>1 DEF Locked
<1>0. Rotate(p) => \A n : Oldest(n) => n # own[p].name
  BY OldestIsNotNewest DEF Inv, Placed, Rotate, Newest
<1>4. Placed(p)'
  <2> USE DEF Inv, TypeOK, Placed, Newest, Verified, files
  <2>1. CASE Begin(p)
    BY <2>1 DEF Begin, Steps, Values, Times
  <2>2. CASE Copy(p)
    BY <2>2 DEF Copy, Steps, Values, Times
  <2>3. CASE Pack(p)
    BY <2>3 DEF Pack, Steps, Values, Times
  <2>4. CASE Move(p)
    BY <2>4 DEF Move, Steps, Values, Times
  <2>5. CASE Sum(p)
    BY <2>5 DEF Sum, Steps, Values, Times
  <2>6. CASE Verify(p)
    BY <2>6 DEF Verify, Steps, Values, Times
  <2>7. CASE Empty(p)
    BY <2>7 DEF Empty, Steps, Values, Times
  <2>8. CASE NameLatest(p)
    BY <2>8 DEF NameLatest, Steps, Values, Times
  <2>9. CASE Rotate(p)
    BY <2>9, <1>0 DEF Rotate, Steps, Values, Times
  <2>10. CASE Succeed(p)
    BY <2>10 DEF Succeed, Steps, Values, Times
  <2>11. CASE Fail(p)
    BY <2>11 DEF Fail, Steps, Values, Times
  <2>12. CASE Kill(p)
    BY <2>12 DEF Kill, Steps, Values, Times
  <2> QED
    BY <2>1, <2>2, <2>3, <2>4, <2>5, <2>6, <2>7, <2>8, <2>9, <2>10, <2>11, <2>12 DEF Step
<1>5. \A q \in Procs : Placed(q)'
  BY <1>2, <1>4 DEF Placed, Steps
<1>6. done' <= db' /\ \A n \in kept' : n <= now'
  <2>1. CASE Begin(p)
    BY <2>1 DEF Inv, TypeOK, Placed, Newest, files, Begin, Steps, Values, Times
  <2>2. CASE Copy(p)
    BY <2>2 DEF Inv, TypeOK, Placed, Newest, files, Copy, Steps, Values, Times
  <2>3. CASE Pack(p)
    BY <2>3 DEF Inv, TypeOK, Placed, Newest, files, Pack, Steps, Values, Times
  <2>4. CASE Move(p)
    BY <2>4 DEF Inv, TypeOK, Placed, Newest, files, Move, Steps, Values, Times
  <2>5. CASE Sum(p)
    BY <2>5 DEF Inv, TypeOK, Placed, Newest, files, Sum, Steps, Values, Times
  <2>6. CASE Verify(p)
    BY <2>6 DEF Inv, TypeOK, Placed, Newest, files, Verify, Steps, Values, Times
  <2>7. CASE Empty(p)
    BY <2>7 DEF Inv, TypeOK, Placed, Newest, files, Empty, Steps, Values, Times
  <2>8. CASE NameLatest(p)
    BY <2>8 DEF Inv, TypeOK, Placed, Newest, files, NameLatest, Steps, Values, Times
  <2>9. CASE Rotate(p)
    BY <2>9 DEF Inv, TypeOK, Placed, Newest, files, Rotate, Steps, Values, Times
  <2>10. CASE Succeed(p)
    BY <2>10 DEF Inv, TypeOK, Placed, Newest, files, Succeed, Steps, Values, Times
  <2>11. CASE Fail(p)
    BY <2>11 DEF Inv, TypeOK, Placed, Newest, files, Fail, Steps, Values, Times
  <2>12. CASE Kill(p)
    BY <2>12 DEF Inv, TypeOK, Placed, Newest, files, Kill, Steps, Values, Times
  <2> QED
    BY <2>1, <2>2, <2>3, <2>4, <2>5, <2>6, <2>7, <2>8, <2>9, <2>10, <2>11, <2>12 DEF Step
<1>7. LatestVerifies' /\ LatestCurrent'
  <2> USE DEF Inv, TypeOK, Placed, Newest, Verified, files, LatestVerifies, LatestCurrent
  <2>1. CASE Begin(p)
    BY <2>1 DEF Begin, Steps, Values, Times
  <2>2. CASE Copy(p)
    BY <2>2 DEF Copy, Steps, Values, Times
  <2>3. CASE Pack(p)
    BY <2>3 DEF Pack, Steps, Values, Times
  <2>4. CASE Move(p)
    BY <2>4 DEF Move, Steps, Values, Times
  <2>5. CASE Sum(p)
    BY <2>5 DEF Sum, Steps, Values, Times
  <2>6. CASE Verify(p)
    BY <2>6 DEF Verify, Steps, Values, Times
  <2>7. CASE Empty(p)
    BY <2>7 DEF Empty, Steps, Values, Times
  <2>8. CASE NameLatest(p)
    BY <2>8 DEF NameLatest, Steps, Values, Times
  <2>9. CASE Rotate(p)
    BY <2>9, <1>0 DEF Rotate, Steps, Values, Times
  <2>10. CASE Succeed(p)
    BY <2>10 DEF Succeed, Steps, Values, Times
  <2>11. CASE Fail(p)
    BY <2>11 DEF Fail, Steps, Values, Times
  <2>12. CASE Kill(p)
    BY <2>12 DEF Kill, Steps, Values, Times
  <2> QED
    BY <2>1, <2>2, <2>3, <2>4, <2>5, <2>6, <2>7, <2>8, <2>9, <2>10, <2>11, <2>12 DEF Step
<1> QED
  BY <1>1, <1>3, <1>5, <1>6, <1>7 DEF Inv

\* Of all steps only that of the rotation takes an archive away, and it takes the oldest
\* of more than RETENTION_COUNT.
LEMMA StepSpares ==
  ASSUME Inv, Next, NEW n \in kept \ kept'
  PROVE  Cardinality({m \in kept' : m > n}) >= Keep
<1>1. PICK p \in Procs : Rotate(p)
  BY DEF Next, Step, Write, Tick, files, Begin, Copy, Pack, Move, Sum, Verify, Empty, NameLatest, Rotate, Succeed, Fail, Kill
<1>2. /\ Oldest(n) /\ kept' = kept \ {n} /\ Cardinality(kept) > Keep
  BY <1>1 DEF Rotate
<1>3. {m \in kept' : m > n} = kept \ {n}
  <2>1. \A m \in kept : m \in Nat /\ n <= m
    BY <1>2, BackupAssumption DEF Inv, TypeOK, Times, Oldest
  <2>2. \A m \in kept \ {n} : m > n
    BY <2>1
  <2> QED
    BY <1>2, <2>2
<1>4. Cardinality(kept \ {n}) = Cardinality(kept) - 1 /\ Cardinality(kept) \in Nat
  BY KeptFinite, FS_RemoveElement DEF Inv
<1> QED
  BY <1>2, <1>3, <1>4, BackupAssumption

\* The invariant of backup.sh holds in every reachable state.
THEOREM InvCorrect == Spec => []Inv
<1>1. Inv /\ [Next]_vars => Inv'
  <2> SUFFICES ASSUME Inv, [Next]_vars PROVE Inv'
    OBVIOUS
  <2>1. CASE Write \/ Tick
    BY <2>1, OutsideInv
  <2>2. CASE \E p \in Procs : Step(p)
    BY <2>2, RunInv
  <2>3. CASE UNCHANGED vars
    BY <2>3 DEF vars, Inv, TypeOK, Locked, Placed, Newest, Verified, LatestVerifies,
                LatestCurrent
  <2> QED
    BY <2>1, <2>2, <2>3 DEF Next
<1> QED
  BY InitInv, <1>1, PTL DEF Spec

\* backup.sh --verify latest succeeds at every moment, however many runs overlap, fail
\* or are killed.
THEOREM LatestIsVerified == Spec => []LatestVerifies
BY InvCorrect, PTL DEF Inv

\* latest never falls behind the last run that reported success.
THEOREM LatestIsCurrent == Spec => []LatestCurrent
BY InvCorrect, PTL DEF Inv

\* For any RETENTION_COUNT rotation leaves that many newer archives behind.
THEOREM RotationKeeps == Spec => RotationSpares
<1>1. Inv /\ [Next]_vars =>
        [\A n \in kept \ kept' : Cardinality({m \in kept' : m > n}) >= Keep]_vars
  BY StepSpares
<1> QED
  BY InvCorrect, <1>1, PTL DEF Spec, RotationSpares
=============================================================================
