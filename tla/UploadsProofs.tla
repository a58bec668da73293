--------------------------- MODULE UploadsProofs ---------------------------
(***************************************************************************)
(* Proofs about Uploads.  UpdateInv is inductive for the firmware update   *)
(* and StorageInv, which needs UpdateInv's types, for the files.           *)
(***************************************************************************)
EXTENDS Uploads, TLAPS

-----------------------------------------------------------------------------
\* A partition holds firmware that a rollback may go back to.
Confirmed(s) == image[s] = "firmware" /\ state[s] \in {"undefined", "valid"}

\* The partition that runs is the one to boot until an update has switched;
\* an update is received only by a confirmed image, which is not its target.
RunningIsBoot ==
    /\ state[boot] # "aborted"
    /\ running # None /\ httpd # "restarting" =>
           running = boot /\ state[boot] # "new"
    /\ httpd # "idle" => running # None
    /\ httpd \in {"ota", "restarting"} => Confirmed(running)
    /\ httpd = "restarting" => boot = Target

\* While a file is received there is one.
FileIsNamed == httpd = "file" => path \in Paths /\ version \in Versions

UpdateInv ==
    TypeOK /\ FileIsNamed /\ AlwaysBootable /\ RollbackPossible /\ RunningIsBoot

\* A file that is incomplete is being received, or a reset cut it off; an
\* answer belongs to a request that has ended.
Incomplete(p) == files[p] # None /\ files[p].missing > 0

ReceivedOrCutOff ==
    /\ httpd = "file" => answer = "none"
    /\ answer = "ok" => path \in Paths /\ version \in Versions
    /\ \A p \in Paths :
           Incomplete(p) => p \in interrupted \/ (httpd = "file" /\ p = path)

-----------------------------------------------------------------------------
\* The two partitions: an update is never written to the one that runs.
LEMMA TargetIsOther ==
    ASSUME NEW s \in Slots
    PROVE  /\ NextUpdate[s] \in Slots /\ NextUpdate[s] # s
           /\ NextUpdate[NextUpdate[s]] = s
           /\ \A t \in Slots : t = s \/ t = NextUpdate[s]
           /\ s # None
BY UploadsAssumption

\* The device may lose power at any moment: otadata and the images are what
\* they were, and whatever was served has ended.
LEMMA PowerLostKeepsUpdateInv ==
    UpdateInv /\ PowerLost => UpdateInv'
<1> SUFFICES ASSUME UpdateInv, PowerLost PROVE UpdateInv'
    OBVIOUS
<1> USE DEF UpdateInv
<1>1. TypeOK' /\ FileIsNamed'
    BY UploadsAssumption DEF TypeOK, FileIsNamed, PowerLost, Done, otaVars
<1>2. AlwaysBootable' /\ RollbackPossible'
    BY DEF PowerLost, otaVars, AlwaysBootable, RollbackPossible
<1>3. RunningIsBoot'
    BY DEF PowerLost, Done, otaVars, RunningIsBoot
<1>4. QED
    BY <1>1, <1>2, <1>3

\* The steps of handle_ota_post keep UpdateInv.
LEMMA OtaPostKeepsUpdateInv ==
    UpdateInv /\ HandleOtaPost => UpdateInv'
<1> SUFFICES ASSUME UpdateInv, HandleOtaPost PROVE UpdateInv'
    OBVIOUS
<1> USE DEF UpdateInv
<1>t. TypeOK
    OBVIOUS
<1>1. ASSUME NEW n \in 0 .. MaxChunks, NEW content \in {"firmware", "junk"},
             BeginOta(n, content)
      PROVE  UpdateInv'
  <2>1. running \in Slots /\ running = boot /\ Confirmed(running)
      BY <1>1, <1>t DEF BeginOta, Idle, TypeOK, RunningIsBoot, Confirmed, AlwaysBootable
  <2>2. TypeOK' /\ FileIsNamed'
      BY <1>1, <1>t, <2>1, TargetIsOther DEF BeginOta, TypeOK, FileIsNamed, Target, fileVars
  <2>3. AlwaysBootable' /\ RollbackPossible'
      BY <1>1, <1>t, <2>1, TargetIsOther
      DEF BeginOta, TypeOK, Target, AlwaysBootable, RollbackPossible, Confirmed
  <2>4. RunningIsBoot'
      BY <1>1, <1>t, <2>1, TargetIsOther
      DEF BeginOta, Idle, TypeOK, Target, RunningIsBoot, Confirmed
  <2>5. QED
      BY <2>2, <2>3, <2>4
<1>2. CASE BeginOtaAborts
    BY <1>2, PowerLostKeepsUpdateInv DEF BeginOtaAborts
<1>3. CASE ReceiveOtaChunk \/ OtaTimesOut \/ OtaWriteFails
  <2>1. running \in Slots /\ running = boot /\ Confirmed(running)
      BY <1>3, <1>t
      DEF ReceiveOtaChunk, OtaTimesOut, OtaWriteFails, Receiving, TypeOK, RunningIsBoot, Confirmed
  <2>2. /\ UNCHANGED <<state, boot, running, fileVars>>
        /\ remaining' \in 0 .. MaxChunks /\ upload' \in {"firmware", "junk"}
        /\ httpd' \in {"idle", "ota"}
      BY <1>3, <1>t, UploadsAssumption
      DEF ReceiveOtaChunk, OtaTimesOut, OtaWriteFails, Receiving, Done, otaVars, TypeOK
  <2>3. /\ image' \in [Slots -> {"erased", "partial", "junk", "firmware"}]
        /\ image'[running] = image[running]
      BY <1>3, <1>t, <2>1, TargetIsOther
      DEF ReceiveOtaChunk, OtaTimesOut, OtaWriteFails, otaVars, TypeOK, Target
  <2>4. TypeOK' /\ FileIsNamed'
      BY <1>t, <2>2, <2>3 DEF TypeOK, FileIsNamed, fileVars
  <2>5. AlwaysBootable' /\ RollbackPossible' /\ RunningIsBoot'
      BY <1>t, <2>1, <2>2, <2>3, TargetIsOther
      DEF TypeOK, AlwaysBootable, RollbackPossible, RunningIsBoot, Confirmed, Target
  <2>6. QED
      BY <2>4, <2>5
<1>4. CASE Activate
  <2>1. running \in Slots /\ running = boot /\ Confirmed(running)
      BY <1>4, <1>t DEF Activate, TypeOK, RunningIsBoot, Confirmed
  <2>2. TypeOK' /\ FileIsNamed'
      BY <1>4, <1>t, <2>1, TargetIsOther
      DEF Activate, SetBootPartition, TypeOK, FileIsNamed, Target, fileVars
  <2>3. AlwaysBootable' /\ RollbackPossible' /\ RunningIsBoot'
      BY <1>4, <1>t, <2>1, TargetIsOther
      DEF Activate, SetBootPartition, OtaEndSucceeds, TypeOK, Target,
          AlwaysBootable, RollbackPossible, RunningIsBoot, Confirmed
  <2>4. QED
      BY <2>2, <2>3
<1>5. CASE ActivationFails
  <2>1. TypeOK' /\ FileIsNamed'
      BY <1>5, <1>t, UploadsAssumption
      DEF ActivationFails, Done, TypeOK, FileIsNamed, otaVars, fileVars
  <2>2. AlwaysBootable' /\ RollbackPossible' /\ RunningIsBoot'
      BY <1>5 DEF ActivationFails, Done, otaVars, AlwaysBootable, RollbackPossible, RunningIsBoot
  <2>3. QED
      BY <2>1, <2>2
<1>6. CASE Restart
    BY <1>6, PowerLostKeepsUpdateInv DEF Restart
<1>7. QED
    BY <1>1, <1>2, <1>3, <1>4, <1>5, <1>6 DEF HandleOtaPost
\* The steps on files leave otadata, the images and what runs as they are,
\* or end in a reset.
LEMMA FileStepsKeepUpdateInv ==
    UpdateInv /\ (HandleFilesPost \/ \E p \in Paths : HandleFilesDelete(p))
    => UpdateInv'
<1> SUFFICES ASSUME UpdateInv, HandleFilesPost \/ \E p \in Paths : HandleFilesDelete(p)
             PROVE  UpdateInv'
    OBVIOUS
<1> USE DEF UpdateInv
<1>t. TypeOK /\ FileIsNamed
    OBVIOUS
<1>a. ASSUME UNCHANGED <<otaVars, running>>, TypeOK', FileIsNamed', httpd' \in {"idle", "file"},
             running # None, httpd # "restarting"
      PROVE  UpdateInv'
    BY <1>a, <1>t DEF otaVars, TypeOK, AlwaysBootable, RollbackPossible, RunningIsBoot
<1>b. ASSUME NEW text \in {"ok", "error"}, Answer(text), httpd = "file",
             \/ UNCHANGED files
             \/ Store(None)
             \/ \E n \in {0, 1} : Missing(n)
      PROVE  UpdateInv'
  <2>1. files' \in [Paths -> File \cup {None}]
      BY <1>b, <1>t, UploadsAssumption DEF TypeOK, FileIsNamed, Missing, Store, File
  <2>2. TypeOK' /\ FileIsNamed'
      BY <1>b, <1>t, <2>1, UploadsAssumption DEF Answer, Done, TypeOK, FileIsNamed, otaVars
  <2>3. QED
      BY <1>a, <1>b, <2>2 DEF Answer, Done, RunningIsBoot
<1>1. ASSUME NEW p \in Paths, NEW v \in Versions, NEW n \in 0 .. MaxChunks,
             StartPost(p, v, n)
      PROVE  UpdateInv'
  <2>1. files' \in [Paths -> File \cup {None}]
      BY <1>1, <1>t DEF StartPost, TypeOK, File
  <2>2. TypeOK' /\ FileIsNamed'
      BY <1>1, <1>t, <2>1 DEF StartPost, TypeOK, FileIsNamed, otaVars
  <2>3. QED
      BY <1>a, <1>1, <2>2 DEF StartPost, Idle
<1>2. CASE ReceiveFileChunk
  <2>1. files' \in [Paths -> File \cup {None}] /\ remaining' \in 0 .. MaxChunks
      BY <1>2, <1>t, UploadsAssumption
      DEF ReceiveFileChunk, Receiving, TypeOK, FileIsNamed, Missing, Store, File
  <2>2. TypeOK' /\ FileIsNamed'
      BY <1>2, <1>t, <2>1 DEF ReceiveFileChunk, TypeOK, FileIsNamed, otaVars
  <2>3. QED
      BY <1>a, <1>2, <2>2 DEF ReceiveFileChunk, Receiving, RunningIsBoot
<1>3. CASE CloseAndUnlink /\ httpd = "file"
    BY <1>b, <1>3 DEF CloseAndUnlink
<1>4. CASE ConnectionClosed \/ FileWriteFails
    BY <1>3, <1>4 DEF ConnectionClosed, FileWriteFails, Receiving
<1>5. CASE SocketError
    BY <1>3, <1>5, PowerLostKeepsUpdateInv DEF SocketError, Receiving
<1>6. CASE FinishPost
  <2>1. Answer("ok") /\ httpd = "file" /\ \E n \in {0, 1} : Missing(n)
      BY <1>6, <1>t DEF FinishPost, TypeOK
  <2>2. QED
      BY <1>b, <2>1
<1>7. CASE StatFails
    BY <1>b, <1>7 DEF StatFails
<1>8. ASSUME NEW p \in Paths, HandleFilesDelete(p)
      PROVE  UpdateInv'
  <2>1. TypeOK' /\ FileIsNamed'
      BY <1>8, <1>t DEF HandleFilesDelete, Idle, TypeOK, FileIsNamed, otaVars
  <2>2. QED
      BY <1>a, <1>8, <2>1 DEF HandleFilesDelete, Idle
<1>9. QED
    BY <1>1, <1>2, <1>4, <1>5, <1>6, <1>7, <1>8 DEF HandleFilesPost

\* Every step of the specification keeps UpdateInv.
LEMMA NextKeepsUpdateInv ==
    UpdateInv /\ [Next]_vars => UpdateInv'
<1> SUFFICES ASSUME UpdateInv, [Next]_vars PROVE UpdateInv'
    OBVIOUS
<1> USE DEF UpdateInv
<1>t. TypeOK /\ FileIsNamed
    OBVIOUS
<1>1. CASE HandleOtaPost
    BY <1>1, OtaPostKeepsUpdateInv
<1>2. CASE HandleFilesPost \/ \E p \in Paths : HandleFilesDelete(p)
    BY <1>2, FileStepsKeepUpdateInv
<1>3. CASE MarkCurrentPartitionAsValid
  <2>1. running \in Slots
      BY <1>3, <1>t DEF MarkCurrentPartitionAsValid, TypeOK
  <2>2. TypeOK' /\ FileIsNamed'
      BY <1>3, <1>t, <2>1 DEF MarkCurrentPartitionAsValid, TypeOK, FileIsNamed, fileVars
  <2>3. httpd # "restarting" /\ httpd # "ota"
      BY <1>3 DEF MarkCurrentPartitionAsValid, RunningIsBoot, Confirmed
  <2>4. AlwaysBootable' /\ RollbackPossible' /\ RunningIsBoot'
      BY <1>3, <1>t, <2>1, <2>3, TargetIsOther
      DEF MarkCurrentPartitionAsValid, TypeOK, AlwaysBootable, RollbackPossible, RunningIsBoot,
          Confirmed
  <2>5. QED
      BY <2>2, <2>4
<1>4. CASE Bootloader
  <2>1. httpd = "idle" /\ boot \in Slots
      BY <1>4, <1>t DEF Bootloader, RunningIsBoot, TypeOK
  <2>2. TypeOK' /\ FileIsNamed'
      BY <1>4, <1>t, <2>1, TargetIsOther DEF Bootloader, TypeOK, FileIsNamed, fileVars
  <2>3. AlwaysBootable' /\ RollbackPossible' /\ RunningIsBoot'
      BY <1>4, <1>t, <2>1, TargetIsOther
      DEF Bootloader, TypeOK, AlwaysBootable, RollbackPossible, RunningIsBoot, Confirmed
  <2>4. QED
      BY <2>2, <2>3
<1>5. CASE Reset
    BY <1>5, PowerLostKeepsUpdateInv DEF Reset
<1>6. CASE UNCHANGED vars
    BY <1>6
    DEF vars, otaVars, fileVars, TypeOK, FileIsNamed, AlwaysBootable, RollbackPossible,
        RunningIsBoot, Confirmed, Target
<1>7. QED
    BY <1>1, <1>2, <1>3, <1>4, <1>5, <1>6 DEF Next

\* The device is delivered with firmware in the partition to boot.
LEMMA InitUpdateInv ==
    Init => UpdateInv
BY UploadsAssumption, TargetIsOther
DEF Init, UpdateInv, TypeOK, FileIsNamed, AlwaysBootable, RollbackPossible, RunningIsBoot

\* UpdateInv is an invariant of the specification.
LEMMA UpdateInvariant ==
    Spec => []UpdateInv
BY InitUpdateInv, NextKeepsUpdateInv, PTL DEF Spec

\* Every variable keeps its type, for any partitions, paths and faults.
THEOREM UploadsTypeCorrect ==
    Spec => []TypeOK
<1>1. UpdateInv => TypeOK
    BY DEF UpdateInv
<1>2. QED
    BY <1>1, UpdateInvariant, PTL

\* However an update is interrupted, the partition that otadata names holds
\* a complete image.
THEOREM DeviceBoots ==
    Spec => []AlwaysBootable
<1>1. UpdateInv => AlwaysBootable
    BY DEF UpdateInv
<1>2. QED
    BY <1>1, UpdateInvariant, PTL

\* An image that is not confirmed yet has a confirmed one to go back to.
THEOREM RollbackKept ==
    Spec => []RollbackPossible
<1>1. UpdateInv => RollbackPossible
    BY DEF UpdateInv
<1>2. QED
    BY <1>1, UpdateInvariant, PTL
\* No image is confirmed before it has run: only the bootloader takes an
\* image out of the state new, by starting it.
THEOREM ConfirmationFollowsBoot ==
    Spec => ConfirmedHasRun
<1>1. ASSUME UpdateInv, [Next]_vars
      PROVE  [\A s \in Slots : state[s] = "new" => state'[s] \in {"new", "pending"}]_vars
  <2>1. SUFFICES ASSUME Next, NEW s \in Slots, state[s] = "new"
                 PROVE  state'[s] \in {"new", "pending"}
      BY <1>1
  <2> USE DEF UpdateInv
  <2>t. TypeOK /\ RunningIsBoot
      BY <1>1
  <2>2. CASE HandleOtaPost
    <3>1. UNCHANGED state \/ (Activate /\ Target \in Slots)
        BY <2>2, <2>t, TargetIsOther
        DEF HandleOtaPost, BeginOta, BeginOtaAborts, ReceiveOtaChunk, OtaTimesOut, OtaWriteFails,
            Activate, ActivationFails, Restart, PowerLost, otaVars, Target, TypeOK, RunningIsBoot
    <3>2. QED
        BY <3>1, <2>1, <2>t DEF Activate, SetBootPartition, TypeOK
  <2>3. CASE HandleFilesPost \/ \E p \in Paths : HandleFilesDelete(p)
      BY <2>1, <2>3
      DEF HandleFilesPost, HandleFilesDelete, StartPost, ReceiveFileChunk, ConnectionClosed,
          SocketError, FileWriteFails, FinishPost, StatFails, CloseAndUnlink, Answer, PowerLost,
          otaVars
  <2>4. CASE MarkCurrentPartitionAsValid
      BY <2>1, <2>4, <2>t DEF MarkCurrentPartitionAsValid, TypeOK
  <2>5. CASE Bootloader
      BY <2>1, <2>5, <2>t DEF Bootloader, TypeOK
  <2>6. CASE Reset
      BY <2>1, <2>6 DEF Reset, PowerLost, otaVars
  <2>7. QED
      BY <2>1, <2>2, <2>3, <2>4, <2>5, <2>6 DEF Next
<1>2. QED
    BY <1>1, UpdateInvariant, PTL DEF Spec, ConfirmedHasRun

-----------------------------------------------------------------------------
\* No step leaves a part of a file behind, or answers for one, unless the
\* stream loses what it buffered.
LEMMA NextKeepsReceivedOrCutOff ==
    "close" \notin Faults /\ UpdateInv /\ ReceivedOrCutOff /\ AcknowledgedIsStored /\ [Next]_vars
    => ReceivedOrCutOff' /\ AcknowledgedIsStored'
<1> SUFFICES ASSUME "close" \notin Faults, UpdateInv, ReceivedOrCutOff, AcknowledgedIsStored,
                    [Next]_vars
             PROVE  ReceivedOrCutOff' /\ AcknowledgedIsStored'
    OBVIOUS
<1>t. TypeOK /\ FileIsNamed /\ (httpd # "idle" => running # None)
    BY DEF UpdateInv, RunningIsBoot
<1> USE DEF ReceivedOrCutOff, AcknowledgedIsStored, Incomplete
<1>1. CASE UNCHANGED fileVars /\ httpd # "file" /\ httpd' # "file"
    BY <1>1 DEF fileVars
<1>2. CASE PowerLost
    BY <1>2, <1>t DEF PowerLost, Done, TypeOK, FileIsNamed
<1>3. CASE HandleOtaPost
    BY <1>1, <1>2, <1>3
    DEF HandleOtaPost, BeginOta, BeginOtaAborts, ReceiveOtaChunk, OtaTimesOut, OtaWriteFails,
        Activate, ActivationFails, Restart, Idle, Receiving, Done
<1>4. CASE MarkCurrentPartitionAsValid \/ Bootloader \/ UNCHANGED vars
    BY <1>4 DEF MarkCurrentPartitionAsValid, Bootloader, vars, fileVars
<1>5. ASSUME NEW p \in Paths, NEW v \in Versions, NEW n \in 0 .. MaxChunks,
             StartPost(p, v, n)
      PROVE  ReceivedOrCutOff' /\ AcknowledgedIsStored'
    BY <1>5, <1>t DEF StartPost, Idle, TypeOK
<1>6. CASE ReceiveFileChunk
    BY <1>6, <1>t DEF ReceiveFileChunk, Receiving, Missing, Store, TypeOK, FileIsNamed
<1>7. CASE CloseAndUnlink /\ httpd = "file"
    BY <1>7, <1>t DEF CloseAndUnlink, Answer, Done, Store, TypeOK, FileIsNamed
<1>8. CASE ConnectionClosed \/ FileWriteFails \/ SocketError
    BY <1>2, <1>7, <1>8 DEF ConnectionClosed, FileWriteFails, SocketError, Receiving
<1>9. CASE FinishPost
    BY <1>9, <1>t DEF FinishPost, Answer, Done, Missing, Store, TypeOK, FileIsNamed
<1>10. CASE StatFails
    BY <1>10, <1>t DEF StatFails, Answer, Done, Store, TypeOK, FileIsNamed
<1>11. ASSUME NEW p \in Paths, HandleFilesDelete(p)
       PROVE  ReceivedOrCutOff' /\ AcknowledgedIsStored'
    BY <1>11, <1>t DEF HandleFilesDelete, Idle, TypeOK
<1>12. CASE Reset
    BY <1>2, <1>12 DEF Reset
<1>13. QED
    BY <1>3, <1>4, <1>5, <1>6, <1>8, <1>9, <1>10, <1>11, <1>12 DEF Next, HandleFilesPost

\* Both hold from the start, when the storage is empty.
LEMMA ReceivedInvariant ==
    ASSUME "close" \notin Faults
    PROVE  Spec => [](UpdateInv /\ ReceivedOrCutOff /\ AcknowledgedIsStored)
<1> DEFINE Inv == UpdateInv /\ ReceivedOrCutOff /\ AcknowledgedIsStored
<1>1. Init => Inv
  <2>1. Init => ReceivedOrCutOff /\ AcknowledgedIsStored
      BY DEF Init, ReceivedOrCutOff, AcknowledgedIsStored, Incomplete
  <2>2. QED
      BY <2>1, InitUpdateInv
<1>2. Inv /\ [Next]_vars => Inv'
    BY NextKeepsUpdateInv, NextKeepsReceivedOrCutOff
<1>3. QED
    BY <1>1, <1>2, PTL DEF Spec

\* When fclose finds room for what fwrite buffered, a file whose upload was
\* acknowledged is stored completely.
THEOREM AcknowledgementsHold ==
    ASSUME "close" \notin Faults
    PROVE  Spec => []AcknowledgedIsStored
BY ReceivedInvariant, PTL

\* With the same assumption, a part of a file stays only where a reset cut
\* the upload off.
THEOREM PartsAreRemoved ==
    ASSUME "close" \notin Faults
    PROVE  Spec => []UnfinishedOnlyAfterReset
<1>1. ReceivedOrCutOff => UnfinishedOnlyAfterReset
    BY DEF ReceivedOrCutOff, UnfinishedOnlyAfterReset, Incomplete
<1>2. QED
    BY <1>1, ReceivedInvariant, PTL
=============================================================================
