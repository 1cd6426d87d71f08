------------------------ MODULE DownloadQueueProofs ------------------------
(***************************************************************************)
(* Theorems about DownloadQueue for any set of files, any number of block  *)
(* positions, any assignment of names and any configuration: the           *)
(* invariants the runs check on small instances.                           *)
(***************************************************************************)
EXTENDS DownloadQueue, TLAPS

(* However far save() came, the sidecar keeps its type.                    *)
LEMMA SidecarTyped ==
    ASSUME TypeOK, NEW f \in Files, NEW gaps \in SUBSET Units,
           UNCHANGED <<scState, missing>> \/ TearSidecar(f) \/ SaveSidecar(f, gaps)
    PROVE  /\ scState' \in [Files -> {"none", "ok", "torn"}]
           /\ missing' \in [Files -> SUBSET Units]
<1>1. CASE UNCHANGED <<scState, missing>>
  BY <1>1 DEF TypeOK
<1>2. CASE TearSidecar(f)
  BY <1>2 DEF TypeOK, TearSidecar
<1>3. CASE SaveSidecar(f, gaps)
  BY <1>3 DEF TypeOK, SaveSidecar
<1> QED
  BY <1>1, <1>2, <1>3

(* Every method, and every crash inside one, keeps the types.              *)
LEMMA TypeStep == ASSUME TypeOK, [Next]_vars PROVE TypeOK'
<1> USE DownloadQueueAssumption DEF TypeOK, SetStatus, SaveSidecar, TearSidecar,
        CreatePart, WriteData, tempVars, incomingVars, Loadable, MayFinalize,
        Status, Content, Quality, Zeros, Blocks
<1>1. CASE UNCHANGED vars
  BY <1>1 DEF vars
<1>2. ASSUME NEW f \in Files, Method(f) PROVE TypeOK'
  <2>1. ASSUME NEW keep \in BOOLEAN, Add(f, keep) PROVE TypeOK'
    BY <2>1 DEF Add
  <2>2. CASE Start(f)
    BY <2>2 DEF Start
  <2>3. CASE Pause(f)
    BY <2>3 DEF Pause
  <2>4. CASE Resume(f)
    BY <2>4 DEF Resume
  <2>5. ASSUME NEW k \in BOOLEAN, Cancel(f, k) PROVE TypeOK'
    BY <2>5 DEF Cancel
  <2>6. ASSUME NEW block \in Blocks, NEW q \in Quality, RecordBlock(f, block, q)
        PROVE TypeOK'
    BY <2>6 DEF RecordBlock
  <2>7. ASSUME NEW ranges \in Blocks, PunchGaps(f, ranges) PROVE TypeOK'
    BY <2>7 DEF PunchGaps
  <2>8. ASSUME NEW v \in VerifyChoices, Finalize(f, v) PROVE TypeOK'
    BY <2>8 DEF Finalize
  <2> QED
    BY ONLY <1>2, <2>1, <2>2, <2>3, <2>4, <2>5, <2>6, <2>7, <2>8 DEF Method
<1>3. ASSUME NEW f \in Files, Crash(f) PROVE TypeOK'
  <2>1. ASSUME NEW keep \in BOOLEAN, CrashInAdd(f, keep) PROVE TypeOK'
    <3>1. /\ exists' \in [Files -> BOOLEAN]
          /\ data' \in [Files -> [Units -> Content]]
      BY <2>1 DEF CrashInAdd
    <3>2. /\ scState' \in [Files -> {"none", "ok", "torn"}]
          /\ missing' \in [Files -> SUBSET Units]
      BY ONLY TypeOK, <2>1, SidecarTyped DEF CrashInAdd
    <3> QED
      BY <2>1, <3>1, <3>2 DEF CrashInAdd
  <2>2. ASSUME NEW block \in Blocks, NEW flushed \in SUBSET Units, NEW q \in Quality,
               CrashInRecordBlock(f, block, flushed, q)
        PROVE TypeOK'
    <3>1. missing[f] \ block \in SUBSET Units
      OBVIOUS
    <3>2. /\ scState' \in [Files -> {"none", "ok", "torn"}]
          /\ missing' \in [Files -> SUBSET Units]
      BY ONLY TypeOK, <2>2, <3>1, SidecarTyped DEF CrashInRecordBlock
    <3>3. data' \in [Files -> [Units -> Content]]
      BY <2>2 DEF CrashInRecordBlock
    <3> QED
      BY <2>2, <3>2, <3>3 DEF CrashInRecordBlock
  <2>3. ASSUME NEW ranges \in Blocks, CrashInPunchGaps(f, ranges) PROVE TypeOK'
    <3>1. missing[f] \cup ranges \in SUBSET Units
      OBVIOUS
    <3>2. /\ scState' \in [Files -> {"none", "ok", "torn"}]
          /\ missing' \in [Files -> SUBSET Units]
      BY ONLY TypeOK, <2>3, <3>1, SidecarTyped DEF CrashInPunchGaps
    <3> QED
      BY <2>3, <3>2 DEF CrashInPunchGaps
  <2>4. CASE CrashInCancel(f)
    BY <2>4 DEF CrashInCancel
  <2>5. ASSUME NEW v \in VerifyChoices, NEW copied \in SUBSET Units,
               CrashInFinalize(f, v, copied)
        PROVE TypeOK'
    BY <2>5 DEF CrashInFinalize
  <2> QED
    BY ONLY <1>3, <2>1, <2>2, <2>3, <2>4, <2>5 DEF Crash
<1> QED
  BY ONLY [Next]_vars, <1>1, <1>2, <1>3 DEF Next

(* The status, the sidecar, the part file and incoming/ always hold values *)
(* the readers of the downloads table know.                                *)
THEOREM TypeCorrect == Spec => []TypeOK
<1>1. Init => TypeOK
  BY DEF Init, TypeOK, Status, Content, Quality, Zeros
<1>2. TypeOK /\ [Next]_vars => TypeOK'
  BY TypeStep
<1> QED
  BY <1>1, <1>2, PTL DEF Spec

(* No method, and no crash inside one, lets a gap list outrun the data.    *)
LEMMA PhantomStep == ASSUME TypeOK, NoPhantomBytes, [Next]_vars PROVE NoPhantomBytes'
<1> USE DownloadQueueAssumption DEF TypeOK, NoPhantomBytes, Intact, Loadable, SetStatus, SaveSidecar,
        TearSidecar, CreatePart, WriteData, tempVars, incomingVars, MayFinalize, Quality
<1>1. CASE UNCHANGED vars
  BY <1>1 DEF vars
<1>2. ASSUME NEW f \in Files, Method(f) PROVE NoPhantomBytes'
  <2>1. ASSUME NEW keep \in BOOLEAN, Add(f, keep) PROVE NoPhantomBytes'
    BY <2>1 DEF Add
  <2>2. CASE Start(f)
    BY <2>2 DEF Start
  <2>3. CASE Pause(f)
    BY <2>3 DEF Pause
  <2>4. CASE Resume(f)
    BY <2>4 DEF Resume
  <2>5. ASSUME NEW k \in BOOLEAN, Cancel(f, k) PROVE NoPhantomBytes'
    BY <2>5 DEF Cancel
  <2>6. ASSUME NEW block \in Blocks, NEW q \in Quality, RecordBlock(f, block, q) PROVE NoPhantomBytes'
    BY <2>6 DEF RecordBlock
  <2>7. ASSUME NEW ranges \in Blocks, PunchGaps(f, ranges) PROVE NoPhantomBytes'
    BY <2>7 DEF PunchGaps
  <2>8. ASSUME NEW v \in VerifyChoices, Finalize(f, v) PROVE NoPhantomBytes'
    BY <2>8 DEF Finalize
  <2> QED
    BY ONLY <1>2, <2>1, <2>2, <2>3, <2>4, <2>5, <2>6, <2>7, <2>8 DEF Method
<1>3. ASSUME NEW f \in Files, Crash(f) PROVE NoPhantomBytes'
  <2>1. ASSUME NEW keep \in BOOLEAN, CrashInAdd(f, keep) PROVE NoPhantomBytes'
    BY <2>1 DEF CrashInAdd
  <2>2. ASSUME NEW block \in Blocks, NEW flushed \in SUBSET Units, NEW q \in Quality,
               CrashInRecordBlock(f, block, flushed, q)
        PROVE NoPhantomBytes'
    BY <2>2 DEF CrashInRecordBlock
  <2>3. ASSUME NEW ranges \in Blocks, CrashInPunchGaps(f, ranges) PROVE NoPhantomBytes'
    BY <2>3 DEF CrashInPunchGaps
  <2>4. CASE CrashInCancel(f)
    BY <2>4 DEF CrashInCancel
  <2>5. ASSUME NEW v \in VerifyChoices, NEW copied \in SUBSET Units,
               CrashInFinalize(f, v, copied)
        PROVE NoPhantomBytes'
    BY <2>5 DEF CrashInFinalize
  <2> QED
    BY ONLY <1>3, <2>1, <2>2, <2>3, <2>4, <2>5 DEF Crash
<1> QED
  BY ONLY [Next]_vars, <1>1, <1>2, <1>3 DEF Next

(* No resumed download counts a byte as received that was not, for any     *)
(* number of downloads and positions, any crash and any leftover in temp/. *)
THEOREM PhantomFree == Spec => []NoPhantomBytes
<1>1. Init => NoPhantomBytes
  BY DEF Init, NoPhantomBytes, Intact
<1>2. TypeOK /\ NoPhantomBytes /\ [Next]_vars => NoPhantomBytes'
  BY PhantomStep
<1> QED
  BY <1>1, <1>2, TypeCorrect, PTL DEF Spec

(* record_block, punch_gaps and finalize change status and gaps together.  *)
LEMMA GaplessStep == ASSUME TypeOK, CompleteMeansNoGaps, [Next]_vars PROVE CompleteMeansNoGaps'
<1> USE DownloadQueueAssumption DEF TypeOK, CompleteMeansNoGaps, Intact, Loadable, SetStatus, SaveSidecar,
        TearSidecar, CreatePart, WriteData, tempVars, incomingVars, MayFinalize
<1>1. CASE UNCHANGED vars
  BY <1>1 DEF vars
<1>2. ASSUME NEW f \in Files, Method(f) PROVE CompleteMeansNoGaps'
  <2>1. ASSUME NEW keep \in BOOLEAN, Add(f, keep) PROVE CompleteMeansNoGaps'
    BY <2>1 DEF Add
  <2>2. CASE Start(f)
    BY <2>2 DEF Start
  <2>3. CASE Pause(f)
    BY <2>3 DEF Pause
  <2>4. CASE Resume(f)
    BY <2>4 DEF Resume
  <2>5. ASSUME NEW k \in BOOLEAN, Cancel(f, k) PROVE CompleteMeansNoGaps'
    BY <2>5 DEF Cancel
  <2>6. ASSUME NEW block \in Blocks, NEW q \in Quality, RecordBlock(f, block, q) PROVE CompleteMeansNoGaps'
    BY <2>6 DEF RecordBlock
  <2>7. ASSUME NEW ranges \in Blocks, PunchGaps(f, ranges) PROVE CompleteMeansNoGaps'
    BY <2>7 DEF PunchGaps
  <2>8. ASSUME NEW v \in VerifyChoices, Finalize(f, v) PROVE CompleteMeansNoGaps'
    BY <2>8 DEF Finalize
  <2> QED
    BY ONLY <1>2, <2>1, <2>2, <2>3, <2>4, <2>5, <2>6, <2>7, <2>8 DEF Method
<1>3. ASSUME NEW f \in Files, Crash(f) PROVE CompleteMeansNoGaps'
  <2>1. ASSUME NEW keep \in BOOLEAN, CrashInAdd(f, keep) PROVE CompleteMeansNoGaps'
    BY <2>1 DEF CrashInAdd
  <2>2. ASSUME NEW block \in Blocks, NEW flushed \in SUBSET Units, NEW q \in Quality,
               CrashInRecordBlock(f, block, flushed, q)
        PROVE CompleteMeansNoGaps'
    BY <2>2 DEF CrashInRecordBlock
  <2>3. ASSUME NEW ranges \in Blocks, CrashInPunchGaps(f, ranges) PROVE CompleteMeansNoGaps'
    BY <2>3 DEF CrashInPunchGaps
  <2>4. CASE CrashInCancel(f)
    BY <2>4 DEF CrashInCancel
  <2>5. ASSUME NEW v \in VerifyChoices, NEW copied \in SUBSET Units,
               CrashInFinalize(f, v, copied)
        PROVE CompleteMeansNoGaps'
    BY <2>5 DEF CrashInFinalize
  <2> QED
    BY ONLY <1>3, <2>1, <2>2, <2>3, <2>4, <2>5 DEF Crash
<1> QED
  BY ONLY [Next]_vars, <1>1, <1>2, <1>3 DEF Next

(* A complete row means an empty gap list until a crash cuts a method of   *)
(* that download: record_block and punch_gaps keep the two in step.        *)
THEOREM CompleteIsGapless == Spec => []CompleteMeansNoGaps
<1>1. Init => CompleteMeansNoGaps
  BY DEF Init, CompleteMeansNoGaps, Intact
<1>2. TypeOK /\ CompleteMeansNoGaps /\ [Next]_vars => CompleteMeansNoGaps'
  BY GaplessStep
<1> QED
  BY <1>1, <1>2, TypeCorrect, PTL DEF Spec

(* Whatever loses a part file or a sidecar leaves a mark or a moved file.  *)
LEMMA PartStep == ASSUME TypeOK, NoLostPart, [Next]_vars PROVE NoLostPart'
<1> USE DownloadQueueAssumption DEF TypeOK, NoLostPart, Intact, Loadable, SetStatus, SaveSidecar,
        TearSidecar, CreatePart, WriteData, tempVars, incomingVars, MayFinalize
<1>1. CASE UNCHANGED vars
  BY <1>1 DEF vars
<1>2. ASSUME NEW f \in Files, Method(f) PROVE NoLostPart'
  <2>1. ASSUME NEW keep \in BOOLEAN, Add(f, keep) PROVE NoLostPart'
    BY <2>1 DEF Add
  <2>2. CASE Start(f)
    BY <2>2 DEF Start
  <2>3. CASE Pause(f)
    BY <2>3 DEF Pause
  <2>4. CASE Resume(f)
    BY <2>4 DEF Resume
  <2>5. ASSUME NEW k \in BOOLEAN, Cancel(f, k) PROVE NoLostPart'
    BY <2>5 DEF Cancel
  <2>6. ASSUME NEW block \in Blocks, NEW q \in Quality, RecordBlock(f, block, q) PROVE NoLostPart'
    BY <2>6 DEF RecordBlock
  <2>7. ASSUME NEW ranges \in Blocks, PunchGaps(f, ranges) PROVE NoLostPart'
    BY <2>7 DEF PunchGaps
  <2>8. ASSUME NEW v \in VerifyChoices, Finalize(f, v) PROVE NoLostPart'
    BY <2>8 DEF Finalize
  <2> QED
    BY ONLY <1>2, <2>1, <2>2, <2>3, <2>4, <2>5, <2>6, <2>7, <2>8 DEF Method
<1>3. ASSUME NEW f \in Files, Crash(f) PROVE NoLostPart'
  <2>1. ASSUME NEW keep \in BOOLEAN, CrashInAdd(f, keep) PROVE NoLostPart'
    BY <2>1 DEF CrashInAdd
  <2>2. ASSUME NEW block \in Blocks, NEW flushed \in SUBSET Units, NEW q \in Quality,
               CrashInRecordBlock(f, block, flushed, q)
        PROVE NoLostPart'
    BY <2>2 DEF CrashInRecordBlock
  <2>3. ASSUME NEW ranges \in Blocks, CrashInPunchGaps(f, ranges) PROVE NoLostPart'
    BY <2>3 DEF CrashInPunchGaps
  <2>4. CASE CrashInCancel(f)
    BY <2>4 DEF CrashInCancel
  <2>5. ASSUME NEW v \in VerifyChoices, NEW copied \in SUBSET Units,
               CrashInFinalize(f, v, copied)
        PROVE NoLostPart'
    BY <2>5 DEF CrashInFinalize
  <2> QED
    BY ONLY <1>3, <2>1, <2>2, <2>3, <2>4, <2>5 DEF Crash
<1> QED
  BY ONLY [Next]_vars, <1>1, <1>2, <1>3 DEF Next

(* Only finalize takes the part file of a queued download away.            *)
THEOREM PartIsKept == Spec => []NoLostPart
<1>1. Init => NoLostPart
  BY DEF Init, NoLostPart, Intact
<1>2. TypeOK /\ NoLostPart /\ [Next]_vars => NoLostPart'
  BY PartStep
<1> QED
  BY <1>1, <1>2, TypeCorrect, PTL DEF Spec

(* Only finalize writes under a vouched name, after it has hashed the data. *)
LEMMA VerifiedStep == ASSUME TypeOK, IncomingVerified, [Next]_vars PROVE IncomingVerified'
<1> USE DownloadQueueAssumption DEF TypeOK, IncomingVerified, SetStatus, SaveSidecar,
        TearSidecar, tempVars, incomingVars, MayFinalize, HashMatches
<1>1. CASE UNCHANGED vars
  BY <1>1 DEF vars
<1>2. ASSUME NEW f \in Files, Method(f) PROVE IncomingVerified'
  <2>1. ASSUME NEW keep \in BOOLEAN, Add(f, keep) PROVE IncomingVerified'
    BY <2>1 DEF Add
  <2>2. CASE Start(f)
    BY <2>2 DEF Start
  <2>3. CASE Pause(f)
    BY <2>3 DEF Pause
  <2>4. CASE Resume(f)
    BY <2>4 DEF Resume
  <2>5. ASSUME NEW k \in BOOLEAN, Cancel(f, k) PROVE IncomingVerified'
    BY <2>5 DEF Cancel
  <2>6. ASSUME NEW block \in Blocks, NEW q \in Quality, RecordBlock(f, block, q) PROVE IncomingVerified'
    BY <2>6 DEF RecordBlock
  <2>7. ASSUME NEW ranges \in Blocks, PunchGaps(f, ranges) PROVE IncomingVerified'
    BY <2>7 DEF PunchGaps
  <2>8. ASSUME NEW v \in VerifyChoices, Finalize(f, v) PROVE IncomingVerified'
    BY <2>8 DEF Finalize
  <2> QED
    BY ONLY <1>2, <2>1, <2>2, <2>3, <2>4, <2>5, <2>6, <2>7, <2>8 DEF Method
<1>3. ASSUME NEW f \in Files, Crash(f) PROVE IncomingVerified'
  <2>1. ASSUME NEW keep \in BOOLEAN, CrashInAdd(f, keep) PROVE IncomingVerified'
    BY <2>1 DEF CrashInAdd
  <2>2. ASSUME NEW block \in Blocks, NEW flushed \in SUBSET Units, NEW q \in Quality,
               CrashInRecordBlock(f, block, flushed, q)
        PROVE IncomingVerified'
    BY <2>2 DEF CrashInRecordBlock
  <2>3. ASSUME NEW ranges \in Blocks, CrashInPunchGaps(f, ranges) PROVE IncomingVerified'
    BY <2>3 DEF CrashInPunchGaps
  <2>4. CASE CrashInCancel(f)
    BY <2>4 DEF CrashInCancel
  <2>5. ASSUME NEW v \in VerifyChoices, NEW copied \in SUBSET Units,
               CrashInFinalize(f, v, copied)
        PROVE IncomingVerified'
    BY <2>5 DEF CrashInFinalize
  <2> QED
    BY ONLY <1>3, <2>1, <2>2, <2>3, <2>4, <2>5 DEF Crash
<1> QED
  BY ONLY [Next]_vars, <1>1, <1>2, <1>3 DEF Next

(* What finalize reported as verified stays what the hash promised, for    *)
(* any naming of the downloads, colliding names included, and any crash.   *)
THEOREM VerifiedIncoming == Spec => []IncomingVerified
<1>1. Init => IncomingVerified
  BY DEF Init, IncomingVerified
<1>2. TypeOK /\ IncomingVerified /\ [Next]_vars => IncomingVerified'
  BY VerifiedStep
<1> QED
  BY <1>1, <1>2, TypeCorrect, PTL DEF Spec
=============================================================================
