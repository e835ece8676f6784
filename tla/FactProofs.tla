----------------------------- MODULE FactProofs -----------------------------
(***************************************************************************)
(* Proofs about FactMemory: for any number of jobs, facts, extractions,    *)
(* deliveries, faults and crashes, and any similarity that is reflexive    *)
(* and symmetric, the two stores of a user's memory stay related, and      *)
(* duplicates never outnumber the jobs that run at a time.                 *)
(***************************************************************************)
EXTENDS FactMemory, FiniteSetTheorems, TLAPS

Saving == {"insert", "upsert"}
WorkingJobs == {j \in Jobs : pc[j] \in Working}
Upserting == {j \in Jobs : pc[j] = "upsert"}
Rec(j) == <<Head(todo[j]), j, tries[j]>>

\* At most MaxJobs jobs run.
WorkersInv == IsFiniteSet(WorkingJobs) /\ Cardinality(WorkingJobs) <= MaxJobs

\* A job that saves has a fact in hand whose point is not there; between the
\* two calls its row is.
RecordInv ==
  /\ IsFiniteSet(rows) /\ points \subseteq rows
  /\ \A j \in Jobs : pc[j] \in Saving =>
       /\ todo[j] # <<>> /\ Head(todo[j]) \in Facts
       /\ Rec(j) \notin points
       /\ pc[j] = "upsert" => Rec(j) \in rows

\* Jobs that are past their search with a fact like all of S.
Savers(S) ==
  {j \in Jobs : pc[j] \in Saving /\ \A p \in S : <<p[1], Head(todo[j])>> \in Alike}

Clique(S) == \A p, q \in S : <<p[1], q[1]>> \in Alike

\* The points that are alike and the jobs about to add another one all ran at
\* the moment when the first of those points was written.
CliqueInv ==
  \A S \in SUBSET points :
    Clique(S) => Cardinality(S) + Cardinality(Savers(S)) <= MaxJobs

FactInv == FactsTypeOK /\ WorkersInv /\ RecordInv /\ RowsBehindPoints /\ CliqueInv

MemoryStep(j) == Deliver(j) \/ GiveUp(j) \/ JobStep(j) \/ Raise(j) \/ Crash(j)

Stores == <<rows, points, faults, crashes>>

-----------------------------------------------------------------------------
LEMMA InitFacts == FactsInit => FactInv
<1> SUFFICES ASSUME FactsInit PROVE FactInv
  OBVIOUS
<1> USE DEF FactsInit
<1>1. FactsTypeOK
  <2>1. faults \in 0 .. MaxFaults /\ crashes \in 0 .. MaxCrashes
    BY NumbersAssumption DEF NumbersAssumption
  <2>2. tries \in [Jobs -> 0 .. MaxTries]
    BY NumbersAssumption DEF NumbersAssumption
  <2>3. todo \in [Jobs -> Seq(Facts \cup {Blank})]
    OBVIOUS
  <2>4. reported \in SUBSET Facts /\ rows \in SUBSET Record /\ points \in SUBSET Record
    OBVIOUS
  <2>5. pc \in [Jobs -> Working \cup {"queued", "over"}]
    OBVIOUS
  <2> QED BY <2>1, <2>2, <2>3, <2>4, <2>5 DEF FactsTypeOK
<1>2. WorkersInv
  <2>1. WorkingJobs = {}
    BY DEF WorkingJobs, Working
  <2> QED BY <2>1, FS_EmptySet, NumbersAssumption DEF WorkersInv, NumbersAssumption
<1>3. RecordInv
  BY FS_EmptySet DEF RecordInv, Saving
<1>4. RowsBehindPoints
  <2>1. rows \ points = {} /\ {j \in Jobs : pc[j] = "upsert"} = {}
    OBVIOUS
  <2>2. Cardinality(rows \ points) = 0 /\ Cardinality({j \in Jobs : pc[j] = "upsert"}) = 0
    BY <2>1, FS_EmptySet
  <2> QED BY <2>2 DEF RowsBehindPoints
<1>5. CliqueInv
  <2>1. ASSUME NEW S \in SUBSET points PROVE S = {} /\ Savers(S) = {}
    BY <2>1 DEF Savers, Saving
  <2>2. ASSUME NEW S \in SUBSET points PROVE Cardinality(S) = 0 /\ Cardinality(Savers(S)) = 0
    BY <2>1, FS_EmptySet
  <2> QED BY <2>2, NumbersAssumption DEF CliqueInv, NumbersAssumption
<1> QED BY <1>1, <1>2, <1>3, <1>4, <1>5 DEF FactInv

LEMMA TypesKeep ==
  ASSUME FactInv, NEW j \in Jobs, MemoryStep(j)
  PROVE  FactsTypeOK'
<1> USE DEF FactInv, FactsTypeOK, Goto, Step, Saved, Calm, Working, Forget, Advance
<1>1. CASE Deliver(j)
  <2>1. tries' \in [Jobs -> 0 .. MaxTries]
    <3>1. tries[j] \in 0 .. MaxTries /\ tries[j] < MaxTries
      BY <1>1 DEF Deliver
    <3>2. tries[j] + 1 \in 0 .. MaxTries
      BY <3>1, NumbersAssumption DEF NumbersAssumption
    <3> QED BY <1>1, <3>2 DEF Deliver
  <2> QED BY <1>1, <2>1 DEF Deliver
<1>2. CASE GiveUp(j)
  BY <1>2 DEF GiveUp
<1>3. CASE Extract(j)
  <2>1. PICK facts \in Extractions :
          /\ todo' = [todo EXCEPT ![j] = facts]
          /\ reported' = reported \cup (ToSet(facts) \ {Blank})
    BY <1>3 DEF Extract
  <2>2. facts \in Seq(Facts \cup {Blank})
    BY FactsAssumption DEF FactsAssumption
  <2>3. todo' \in [Jobs -> Seq(Facts \cup {Blank})]
    BY <2>1, <2>2
  <2>4. ToSet(facts) \subseteq Facts \cup {Blank}
    BY <2>2 DEF ToSet
  <2>5. reported' \in SUBSET Facts
    BY <2>1, <2>4
  <2> QED BY <1>3, <2>3, <2>5 DEF Extract
<1>4. CASE SkipBlank(j) \/ SkipDuplicate(j)
  <2>1. todo[j] # <<>> /\ todo[j] \in Seq(Facts \cup {Blank})
    BY <1>4 DEF SkipBlank, SkipDuplicate, HasNext
  <2>2. Tail(todo[j]) \in Seq(Facts \cup {Blank})
    BY <2>1
  <2>3. todo' \in [Jobs -> Seq(Facts \cup {Blank})]
    BY <1>4, <2>2 DEF SkipBlank, SkipDuplicate
  <2> QED BY <1>4, <2>3 DEF SkipBlank, SkipDuplicate
<1>5. CASE SearchMiss(j)
  BY <1>5 DEF SearchMiss, HasNext
<1>6. CASE InsertRow(j)
  <2>1. Rec(j) \in Record
    BY <1>6, NumbersAssumption DEF InsertRow, RecordInv, Saving, Rec, Record, NumbersAssumption
  <2> QED BY <1>6, <2>1 DEF InsertRow, Rec
<1>7. CASE UpsertPoint(j)
  <2>1. Rec(j) \in Record
    BY <1>7, NumbersAssumption DEF UpsertPoint, RecordInv, Saving, Rec, Record, NumbersAssumption
  <2>2. Tail(todo[j]) \in Seq(Facts \cup {Blank})
    BY <1>7 DEF UpsertPoint, RecordInv, Saving
  <2>3. todo' \in [Jobs -> Seq(Facts \cup {Blank})]
    BY <1>7, <2>2 DEF UpsertPoint
  <2> QED BY <1>7, <2>1, <2>3 DEF UpsertPoint, Rec
<1>8. CASE Finish(j)
  BY <1>8 DEF Finish
<1>9. CASE Raise(j)
  <2>1. pc' \in [Jobs -> Working \cup {"queued", "over"}] /\ todo' \in [Jobs -> Seq(Facts \cup {Blank})]
    <3>1. CASE Goto(j, "over")
      BY <1>9, <3>1 DEF Raise
    <3>2. CASE Goto(j, "queued")
      BY <1>9, <3>2 DEF Raise
    <3> QED BY <1>9, <3>1, <3>2 DEF Raise
  <2>2. faults' \in 0 .. MaxFaults
    BY <1>9, NumbersAssumption DEF Raise, NumbersAssumption
  <2> QED BY <1>9, <2>1, <2>2 DEF Raise
<1>10. CASE Crash(j)
  <2>1. pc' \in [Jobs -> Working \cup {"queued", "over"}] /\ todo' \in [Jobs -> Seq(Facts \cup {Blank})]
    BY <1>10 DEF Crash
  <2>2. crashes' \in 0 .. MaxCrashes
    BY <1>10, NumbersAssumption DEF Crash, NumbersAssumption
  <2> QED BY <1>10, <2>1, <2>2 DEF Crash
<1> QED BY <1>1, <1>2, <1>3, <1>4, <1>5, <1>6, <1>7, <1>8, <1>9, <1>10 DEF MemoryStep, JobStep

\* Only Deliver starts a job, and it counts the others first.
LEMMA PoolKeeps ==
  ASSUME FactInv, NEW j \in Jobs, MemoryStep(j)
  PROVE  WorkersInv'
<1> USE DEF FactInv, WorkersInv
<1>1. CASE Deliver(j)
  <2>1. WorkingJobs' = WorkingJobs \cup {j} /\ j \notin WorkingJobs
    BY <1>1 DEF Deliver, Step, Goto, WorkingJobs, Working, FactsTypeOK
  <2>2. Cardinality(WorkingJobs) < MaxJobs
    BY <1>1 DEF Deliver, WorkingJobs
  <2>3. Cardinality(WorkingJobs) \in Nat
    BY FS_CardinalityType
  <2>4. IsFiniteSet(WorkingJobs') /\ Cardinality(WorkingJobs') = Cardinality(WorkingJobs) + 1
    BY <2>1, FS_AddElement
  <2> QED BY <2>2, <2>3, <2>4, NumbersAssumption DEF NumbersAssumption
<1>2. CASE ~Deliver(j)
  <2>1. WorkingJobs' \subseteq WorkingJobs
    BY <1>2 DEF MemoryStep, JobStep, GiveUp, Extract, SkipBlank, SkipDuplicate, SearchMiss, InsertRow,
       UpsertPoint, Finish, Raise, Crash, Step, Goto, HasNext, WorkingJobs, Working, FactsTypeOK
  <2>2. IsFiniteSet(WorkingJobs') /\ Cardinality(WorkingJobs') <= Cardinality(WorkingJobs)
    BY <2>1, FS_Subset
  <2>3. Cardinality(WorkingJobs) \in Nat /\ Cardinality(WorkingJobs') \in Nat
    BY <2>2, FS_CardinalityType
  <2> QED BY <2>2, <2>3, NumbersAssumption DEF NumbersAssumption
<1> QED BY <1>1, <1>2

\* A step leaves the other jobs as they are.
LEMMA OthersKeep ==
  ASSUME FactInv, NEW j \in Jobs, MemoryStep(j), NEW i \in Jobs, i # j
  PROVE  pc'[i] = pc[i] /\ todo'[i] = todo[i] /\ tries'[i] = tries[i]
<1> USE DEF FactInv, FactsTypeOK, Goto, Step, Saved, Calm, Forget, Advance
<1>1. pc'[i] = pc[i]
  BY DEF MemoryStep, JobStep, Deliver, GiveUp, Extract, SkipBlank, SkipDuplicate, SearchMiss, InsertRow,
     UpsertPoint, Finish, Raise, Crash
<1>2. todo'[i] = todo[i]
  BY DEF MemoryStep, JobStep, Deliver, GiveUp, Extract, SkipBlank, SkipDuplicate, SearchMiss, InsertRow,
     UpsertPoint, Finish, Raise, Crash
<1>3. tries'[i] = tries[i]
  BY DEF MemoryStep, JobStep, Deliver, GiveUp, Extract, SkipBlank, SkipDuplicate, SearchMiss, InsertRow,
     UpsertPoint, Finish, Raise, Crash
<1> QED BY <1>1, <1>2, <1>3

\* What the steps do that neither search in vain nor write: no job comes to save.
LEMMA QuietSteps ==
  ASSUME FactInv, NEW j \in Jobs, MemoryStep(j),
         ~SearchMiss(j), ~InsertRow(j), ~UpsertPoint(j)
  PROVE  UNCHANGED <<rows, points>> /\ pc'[j] \notin Saving
BY DEF MemoryStep, JobStep, Deliver, GiveUp, Extract, SkipBlank, SkipDuplicate, Finish, Raise, Crash,
   FactInv, FactsTypeOK, Goto, Step, Saved, HasNext, Saving

LEMMA RecordsKeep ==
  ASSUME FactInv, NEW j \in Jobs, MemoryStep(j)
  PROVE  RecordInv'
<1>1. IsFiniteSet(rows') /\ points' \subseteq rows'
  <2>1. CASE InsertRow(j)
    BY <2>1, FS_AddElement DEF InsertRow, FactInv, RecordInv
  <2>2. CASE UpsertPoint(j)
    BY <2>2 DEF UpsertPoint, Step, FactInv, RecordInv, Saving, Rec
  <2>3. CASE SearchMiss(j)
    BY <2>3 DEF SearchMiss, Saved, FactInv, RecordInv
  <2>4. CASE ~SearchMiss(j) /\ ~InsertRow(j) /\ ~UpsertPoint(j)
    BY <2>4, QuietSteps DEF FactInv, RecordInv
  <2> QED BY <2>1, <2>2, <2>3, <2>4
<1>2. ASSUME NEW i \in Jobs, pc'[i] \in Saving, i # j
      PROVE  /\ todo'[i] # <<>> /\ Head(todo'[i]) \in Facts
             /\ Rec(i)' \notin points'
             /\ pc'[i] = "upsert" => Rec(i)' \in rows'
  <2>1. pc'[i] = pc[i] /\ todo'[i] = todo[i] /\ tries'[i] = tries[i]
    BY <1>2, OthersKeep
  <2>2. Rec(i)' = Rec(i)
    BY <2>1 DEF Rec
  <2>3. /\ todo[i] # <<>> /\ Head(todo[i]) \in Facts /\ Rec(i) \notin points
        /\ pc[i] = "upsert" => Rec(i) \in rows
    BY <1>2, <2>1 DEF FactInv, RecordInv
  <2>4. rows \subseteq rows' /\ points' \subseteq points \cup {Rec(j)}
    BY QuietSteps DEF SearchMiss, InsertRow, UpsertPoint, Saved, Rec
  <2>5. Rec(i) # Rec(j)
    BY <1>2 DEF Rec
  <2> QED BY <2>1, <2>2, <2>3, <2>4, <2>5
<1>3. ASSUME pc'[j] \in Saving
      PROVE  /\ todo'[j] # <<>> /\ Head(todo'[j]) \in Facts
             /\ Rec(j)' \notin points'
             /\ pc'[j] = "upsert" => Rec(j)' \in rows'
  <2>1. CASE SearchMiss(j)
    <3>1. pc'[j] = "insert" /\ todo' = todo /\ tries' = tries /\ points' = points
      BY <2>1 DEF SearchMiss, Goto, Saved, Calm, FactInv, FactsTypeOK
    <3>2. todo[j] # <<>> /\ todo[j] \in Seq(Facts \cup {Blank}) /\ Head(todo[j]) # Blank
      BY <2>1 DEF SearchMiss, HasNext, FactInv, FactsTypeOK
    <3>3. Head(todo[j]) \in Facts
      BY <3>2
    <3>4. \A p \in points : p[1] # Head(todo[j])
      BY <2>1, <3>3, FactsAssumption DEF SearchMiss, Known, FactsAssumption
    <3>5. Rec(j)[1] = Head(todo[j]) /\ Rec(j)' = Rec(j)
      BY <3>1 DEF Rec
    <3> QED BY <3>1, <3>2, <3>3, <3>4, <3>5
  <2>2. CASE InsertRow(j)
    <3>1. /\ pc[j] = "insert" /\ todo' = todo /\ tries' = tries /\ points' = points
          /\ rows' = rows \cup {Rec(j)}
      BY <2>2 DEF InsertRow, Step, Calm, Rec
    <3>2. Rec(j)' = Rec(j)
      BY <3>1 DEF Rec
    <3> QED BY <3>1, <3>2 DEF FactInv, RecordInv, Saving
  <2>3. CASE UpsertPoint(j)
    BY <1>3, <2>3 DEF UpsertPoint, Step, Goto, FactInv, FactsTypeOK, Saving
  <2> QED BY <1>3, <2>1, <2>2, <2>3, QuietSteps
<1> QED BY <1>1, <1>2, <1>3 DEF RecordInv, Rec

\* Rows without a point are rows in hand, or traces of runs cut off.
LEMMA OrphansKeep ==
  ASSUME FactInv, NEW j \in Jobs, MemoryStep(j)
  PROVE  RowsBehindPoints'
<1> DEFINE Orphans == rows \ points
<1>1. points' \subseteq rows' /\ IsFiniteSet(rows')
  BY RecordsKeep DEF RecordInv
<1>2. /\ IsFiniteSet(Orphans) /\ IsFiniteSet(Upserting)
      /\ Cardinality(Orphans) \in Nat /\ Cardinality(Upserting) \in Nat
  <2>1. Orphans \in SUBSET rows /\ Upserting \in SUBSET WorkingJobs
    BY DEF Upserting, WorkingJobs, Working
  <2>2. IsFiniteSet(Orphans) /\ IsFiniteSet(Upserting)
    BY <2>1, FS_Subset DEF FactInv, RecordInv, WorkersInv
  <2> QED BY <2>2, FS_CardinalityType
<1>3. Cardinality(Orphans) <= faults + crashes + Cardinality(Upserting)
  BY DEF FactInv, RowsBehindPoints, Upserting
<1>4. faults \in Nat /\ crashes \in Nat
  BY NumbersAssumption DEF FactInv, FactsTypeOK, NumbersAssumption
<1>5. Cardinality(Orphans') <= faults' + crashes' + Cardinality(Upserting')
  <2>1. CASE InsertRow(j)
    <3>1. Upserting' = Upserting \cup {j} /\ j \notin Upserting
      BY <2>1 DEF InsertRow, Step, Goto, FactInv, FactsTypeOK, Upserting
    <3>2. Orphans' \subseteq Orphans \cup {Rec(j)}
      BY <2>1 DEF InsertRow, Rec
    <3>3. Cardinality(Upserting') = Cardinality(Upserting) + 1
      BY <1>2, <3>1, FS_AddElement
    <3>4. /\ IsFiniteSet(Orphans \cup {Rec(j)})
          /\ Cardinality(Orphans \cup {Rec(j)}) <= Cardinality(Orphans) + 1
      <4> HIDE DEF Orphans
      <4>1. /\ IsFiniteSet(Orphans \cup {Rec(j)})
            /\ \/ Cardinality(Orphans \cup {Rec(j)}) = Cardinality(Orphans)
               \/ Cardinality(Orphans \cup {Rec(j)}) = Cardinality(Orphans) + 1
        BY <1>2, FS_AddElement
      <4> QED BY <1>2, <4>1
    <3>5. Cardinality(Orphans') <= Cardinality(Orphans \cup {Rec(j)}) /\ IsFiniteSet(Orphans')
      BY <3>2, <3>4, FS_Subset
    <3>6. Cardinality(Orphans \cup {Rec(j)}) \in Nat /\ Cardinality(Orphans') \in Nat
      BY <3>4, <3>5, FS_CardinalityType
    <3>7. faults' = faults /\ crashes' = crashes
      BY <2>1 DEF InsertRow, Calm
    <3> HIDE DEF Orphans
    <3> QED BY <1>2, <1>3, <1>4, <3>3, <3>4, <3>5, <3>6, <3>7
  <2>2. CASE UpsertPoint(j)
    <3>1. Upserting' = Upserting \ {j} /\ j \in Upserting
      BY <2>2 DEF UpsertPoint, Step, Goto, FactInv, FactsTypeOK, Upserting
    <3>2. Orphans' = Orphans \ {Rec(j)} /\ Rec(j) \in Orphans
      BY <2>2 DEF UpsertPoint, Step, Rec, FactInv, RecordInv, Saving
    <3>3. Cardinality(Upserting') = Cardinality(Upserting) - 1
      BY <1>2, <3>1, FS_RemoveElement
    <3>4. Cardinality(Orphans') = Cardinality(Orphans) - 1
      BY <1>2, <3>2, FS_RemoveElement
    <3>5. faults' = faults /\ crashes' = crashes
      BY <2>2 DEF UpsertPoint, Calm
    <3> HIDE DEF Orphans
    <3> QED BY <1>2, <1>3, <1>4, <3>3, <3>4, <3>5
  <2>3. CASE Raise(j) \/ Crash(j)
    <3>1. Upserting' = Upserting \ {j}
      BY <2>3 DEF Raise, Crash, Goto, FactInv, FactsTypeOK, Upserting
    <3>2. Orphans' = Orphans
      BY <2>3 DEF Raise, Crash, Saved
    <3>3. \/ Cardinality(Upserting') = Cardinality(Upserting)
          \/ Cardinality(Upserting') = Cardinality(Upserting) - 1
      BY <1>2, <3>1, FS_RemoveElement
    <3>4. faults' + crashes' = faults + crashes + 1
      BY <1>4, <2>3 DEF Raise, Crash
    <3>5. Cardinality(Upserting') \in Nat
      BY <1>2, <3>1, FS_RemoveElement, FS_CardinalityType
    <3>6. faults' \in Nat /\ crashes' \in Nat
      BY <1>4, <2>3 DEF Raise, Crash
    <3>7. Cardinality(Orphans') = Cardinality(Orphans)
      BY <3>2
    <3>8. faults + crashes + Cardinality(Upserting) <= faults' + crashes' + Cardinality(Upserting')
      <4>1. \A a, b, c, e, u, v \in Nat :
              (v = u \/ v = u - 1) /\ c + e = a + b + 1 => a + b + u <= c + e + v
        OBVIOUS
      <4>2. Cardinality(Upserting) \in Nat
        BY <1>2
      <4> QED BY <1>4, <3>3, <3>4, <3>5, <3>6, <4>1, <4>2
    <3> HIDE DEF Orphans
    <3> QED BY <1>2, <1>3, <1>4, <3>5, <3>6, <3>7, <3>8
  <2>4. CASE ~InsertRow(j) /\ ~UpsertPoint(j) /\ ~Raise(j) /\ ~Crash(j)
    <3>1. UNCHANGED Stores
      BY <2>4 DEF MemoryStep, JobStep, Deliver, GiveUp, Extract, SkipBlank, SkipDuplicate, SearchMiss,
         Finish, Saved, Calm, Stores
    <3>2. pc'[j] # "upsert" /\ pc[j] # "upsert"
      BY <2>4 DEF MemoryStep, JobStep, Deliver, GiveUp, Extract, SkipBlank, SkipDuplicate, SearchMiss,
         Finish, Step, Goto, HasNext, FactInv, FactsTypeOK
    <3>3. Upserting' = Upserting
      BY <3>2, OthersKeep DEF Upserting
    <3> QED BY <1>3, <3>1, <3>3 DEF Stores
  <2> QED BY <2>1, <2>2, <2>3, <2>4
<1> QED BY <1>1, <1>5 DEF RowsBehindPoints, Upserting

\* Savers of any points are among the jobs that run.
LEMMA SaversAreFinite ==
  ASSUME WorkersInv, NEW S
  PROVE  /\ IsFiniteSet(Savers(S)) /\ Cardinality(Savers(S)) \in Nat
         /\ Cardinality(Savers(S)) <= MaxJobs
<1>1. Savers(S) \in SUBSET WorkingJobs
  BY DEF Savers, Saving, WorkingJobs, Working
<1>2. IsFiniteSet(Savers(S)) /\ Cardinality(Savers(S)) <= Cardinality(WorkingJobs)
  BY <1>1, FS_Subset DEF WorkersInv
<1>3. Cardinality(Savers(S)) \in Nat /\ Cardinality(WorkingJobs) \in Nat
  BY <1>2, FS_CardinalityType DEF WorkersInv
<1> QED BY <1>2, <1>3, NumbersAssumption DEF WorkersInv, NumbersAssumption

LEMMA CliquesKeep ==
  ASSUME FactInv, NEW j \in Jobs, MemoryStep(j)
  PROVE  CliqueInv'
<1> SUFFICES ASSUME NEW S \in SUBSET points', Clique(S)
             PROVE  Cardinality(S) + Cardinality(Savers(S)') <= MaxJobs
  BY DEF CliqueInv, Clique
<1>1. WorkersInv /\ WorkersInv'
  BY PoolKeeps DEF FactInv
<1>2. IsFiniteSet(S) /\ Cardinality(S) \in Nat
  BY RecordsKeep, FS_Subset, FS_CardinalityType DEF RecordInv
<1>3. IsFiniteSet(Savers(S)) /\ Cardinality(Savers(S)) \in Nat
  BY <1>1, SaversAreFinite
<1>4. CASE UpsertPoint(j) /\ Rec(j) \in S
  <2> DEFINE T == S \ {Rec(j)}
  <2>1. points' = points \cup {Rec(j)} /\ pc[j] = "upsert" /\ pc'[j] = "search" /\ Rec(j) \notin points
    BY <1>4 DEF UpsertPoint, Step, Goto, Rec, FactInv, FactsTypeOK, RecordInv, Saving
  <2>2. T \in SUBSET points /\ Clique(T)
    BY <2>1 DEF Clique
  <2>3. Rec(j)[1] = Head(todo[j])
    BY DEF Rec
  <2>4. j \in Savers(T)
    BY <1>4, <2>1, <2>3 DEF Clique, Savers, Saving
  <2>5. Savers(S)' \subseteq Savers(T) \ {j}
    BY <2>1, OthersKeep DEF Savers, Saving
  <2>6. Cardinality(T) = Cardinality(S) - 1
    BY <1>2, <1>4, FS_RemoveElement
  <2>7. IsFiniteSet(Savers(T)) /\ Cardinality(Savers(T)) \in Nat
    BY <1>1, SaversAreFinite
  <2>8. IsFiniteSet(Savers(T) \ {j}) /\ Cardinality(Savers(T) \ {j}) = Cardinality(Savers(T)) - 1
    BY <2>4, <2>7, FS_RemoveElement
  <2>9. IsFiniteSet(Savers(S)') /\ Cardinality(Savers(S)') <= Cardinality(Savers(T) \ {j})
    BY <2>5, <2>8, FS_Subset
  <2>10. Cardinality(Savers(S)') \in Nat
    BY <2>9, FS_CardinalityType
  <2>11. Cardinality(T) + Cardinality(Savers(T)) <= MaxJobs
    BY <2>2 DEF FactInv, CliqueInv
  <2> HIDE DEF T
  <2> QED BY <1>2, <2>6, <2>7, <2>8, <2>9, <2>10, <2>11, NumbersAssumption DEF NumbersAssumption
<1>5. CASE SearchMiss(j) /\ S = {}
  <2>1. Cardinality(Savers(S)') <= MaxJobs /\ Cardinality(Savers(S)') \in Nat
    <3>1. Savers(S)' \subseteq WorkingJobs'
      BY DEF Savers, Saving, WorkingJobs, Working
    <3>2. IsFiniteSet(Savers(S)') /\ Cardinality(Savers(S)') <= Cardinality(WorkingJobs')
      BY <1>1, <3>1, FS_Subset DEF WorkersInv
    <3>3. Cardinality(Savers(S)') \in Nat /\ Cardinality(WorkingJobs') \in Nat
      BY <1>1, <3>2, FS_CardinalityType DEF WorkersInv
    <3> QED BY <1>1, <3>2, <3>3, NumbersAssumption DEF WorkersInv, NumbersAssumption
  <2>2. Cardinality(S) = 0
    BY <1>5, FS_EmptySet
  <2> QED BY <2>1, <2>2
<1>6. CASE ~(UpsertPoint(j) /\ Rec(j) \in S) /\ ~(SearchMiss(j) /\ S = {})
  <2>1. S \in SUBSET points
    BY <1>6, QuietSteps DEF UpsertPoint, SearchMiss, InsertRow, Saved, Rec
  <2>2. Savers(S)' \subseteq Savers(S)
    <3>1. j \in Savers(S)' => j \in Savers(S)
      <4>1. CASE SearchMiss(j)
        <5>1. \A p \in points : <<p[1], Head(todo[j])>> \notin Alike
          BY <4>1 DEF SearchMiss, Known
        <5>2. todo'[j] = todo[j] /\ S # {}
          BY <1>6, <4>1 DEF SearchMiss
        <5> QED BY <2>1, <5>1, <5>2 DEF Savers
      <4>2. CASE InsertRow(j)
        BY <4>2 DEF InsertRow, Step, Savers, Saving
      <4>3. CASE UpsertPoint(j)
        BY <4>3 DEF UpsertPoint, Step, Goto, FactInv, FactsTypeOK, Savers, Saving
      <4>4. CASE ~SearchMiss(j) /\ ~InsertRow(j) /\ ~UpsertPoint(j)
        BY <4>4, QuietSteps DEF Savers
      <4> QED BY <4>1, <4>2, <4>3, <4>4
    <3>2. ASSUME NEW i \in Jobs, i # j, i \in Savers(S)' PROVE i \in Savers(S)
      BY <3>2, OthersKeep DEF Savers
    <3> QED BY <3>1, <3>2 DEF Savers
  <2>3. IsFiniteSet(Savers(S)') /\ Cardinality(Savers(S)') <= Cardinality(Savers(S))
    BY <1>3, <2>2, FS_Subset
  <2>4. Cardinality(Savers(S)') \in Nat
    BY <2>3, FS_CardinalityType
  <2>5. Cardinality(S) + Cardinality(Savers(S)) <= MaxJobs
    BY <2>1 DEF FactInv, CliqueInv
  <2> QED BY <1>2, <1>3, <2>3, <2>4, <2>5, NumbersAssumption DEF NumbersAssumption
<1> QED BY <1>4, <1>5, <1>6

LEMMA NextFacts == FactInv /\ [FactsNext]_factVars => FactInv'
<1> SUFFICES ASSUME FactInv, [FactsNext]_factVars PROVE FactInv'
  OBVIOUS
<1>1. ASSUME NEW j \in Jobs, MemoryStep(j) PROVE FactInv'
  BY <1>1, TypesKeep, PoolKeeps, RecordsKeep, OrphansKeep, CliquesKeep DEF FactInv
<1>2. CASE UNCHANGED factVars
  <2> USE <1>2 DEF factVars, FactInv
  <2>1. FactsTypeOK'
    BY DEF FactsTypeOK
  <2>2. WorkersInv'
    BY DEF WorkersInv, WorkingJobs
  <2>3. RecordInv'
    BY DEF RecordInv, Rec
  <2>4. RowsBehindPoints'
    BY DEF RowsBehindPoints
  <2>5. CliqueInv'
    BY DEF CliqueInv, Savers
  <2> QED BY <2>1, <2>2, <2>3, <2>4, <2>5
<1> QED BY <1>1, <1>2 DEF FactsNext, MemoryStep

\* The strengthened invariant, from which the three below follow.
THEOREM FactsAreInductive == FactsSpec => []FactInv
BY InitFacts, NextFacts, PTL DEF FactsSpec

\* Records, lists and counters have their types: a job never saves a blank.
THEOREM FactsAreTyped == FactsSpec => []FactsTypeOK
<1>1. FactInv => FactsTypeOK
  BY DEF FactInv
<1> QED BY FactsAreInductive, <1>1, PTL

\* Every point has its row, and rows without a point are at most the runs cut
\* off and the jobs between the two calls.
THEOREM PointsHaveRows == FactsSpec => []RowsBehindPoints
<1>1. FactInv => RowsBehindPoints
  BY DEF FactInv
<1> QED BY FactsAreInductive, <1>1, PTL

\* Points that are alike are never more than the jobs that run at a time.
THEOREM DuplicatesStayBounded == FactsSpec => []DuplicatesAreBounded
<1>1. FactInv => DuplicatesAreBounded
  <2> SUFFICES ASSUME FactInv, NEW S \in SUBSET points, Clique(S)
               PROVE  Cardinality(S) <= MaxJobs
    BY DEF DuplicatesAreBounded, Clique
  <2>1. Cardinality(S) + Cardinality(Savers(S)) <= MaxJobs
    BY DEF FactInv, CliqueInv
  <2>2. Cardinality(Savers(S)) \in Nat
    BY SaversAreFinite DEF FactInv
  <2>3. IsFiniteSet(S) /\ Cardinality(S) \in Nat
    BY FS_Subset, FS_CardinalityType DEF FactInv, RecordInv
  <2> QED BY <2>1, <2>2, <2>3, NumbersAssumption DEF NumbersAssumption
<1> QED BY FactsAreInductive, <1>1, PTL
=============================================================================
