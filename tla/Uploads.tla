------------------------------ MODULE Uploads ------------------------------
(***************************************************************************)
(* The uploads of webmanager.hh: handle_ota_post writes a firmware image   *)
(* to the application partition that does not run and makes it the one to  *)
(* boot; handle_files_post receives a file into the file system, and       *)
(* handle_files_delete removes one.                                        *)
(*                                                                         *)
(* The HTTP server serves one request at a time.  The bootloader, the OTA  *)
(* functions of ESP-IDF (built with rollback) and the file system are      *)
(* external.  A file is the version of its content and the number of       *)
(* chunks of it that are not in storage.                                   *)
(***************************************************************************)
EXTENDS Integers

CONSTANTS
    Slots,          \* the application partitions: two
    NextUpdate,     \* esp_ota_get_next_update_partition
    Paths, Versions, None,
    MaxChunks,      \* bound: chunks of an upload
    Faults          \* what goes wrong

ASSUME UploadsAssumption ==
    /\ None \notin Slots \cup Paths \cup Versions
    /\ None \notin [version : Versions, missing : 0 .. MaxChunks]
    /\ NextUpdate \in [Slots -> Slots]
    /\ \A s \in Slots : NextUpdate[s] # s /\ Slots = {s, NextUpdate[s]}
    /\ MaxChunks \in Nat \ {0}

\* reset:   at any moment.
\* network: the connection is closed, fails or times out.
\* flash:   writing a chunk of an image, or the partition to boot, fails.
\* image:   what is uploaded is no firmware.
\* full:    fwrite has no room, or the file is not there in the end.
\* close:   what fwrite only buffered has no room when fclose writes it.
ASSUME FaultsAssumption ==
    Faults \subseteq {"reset", "network", "flash", "image", "full", "close"}

VARIABLES
    image,                  \* what each partition holds
    state, boot,            \* otadata: the state of each, and which one to boot
    running,
    files,
    httpd, remaining,       \* the HTTP server's task
    upload,                 \* is it firmware that is received?
    path, version, buffered, \* the file received, or the last one
    answer,                 \* to the last upload of a file
    interrupted             \* history: files whose upload a reset cut off

otaVars == <<image, state, boot>>
fileVars == <<files, path, version, buffered, answer, interrupted>>
vars == <<otaVars, running, httpd, remaining, upload, fileVars>>

File == [version : Versions, missing : 0 .. MaxChunks]

TypeOK ==
    /\ image \in [Slots -> {"erased", "partial", "junk", "firmware"}]
    /\ state \in [Slots -> {"undefined", "new", "pending", "valid", "aborted"}]
    /\ boot \in Slots /\ running \in Slots \cup {None}
    /\ files \in [Paths -> File \cup {None}]
    /\ httpd \in {"idle", "ota", "restarting", "file"}
    /\ remaining \in 0 .. MaxChunks /\ upload \in {"firmware", "junk"}
    /\ path \in Paths \cup {None} /\ version \in Versions \cup {None}
    /\ buffered \in {0, 1} /\ answer \in {"none", "ok", "error"}
    /\ interrupted \in SUBSET Paths

Idle == running # None /\ httpd = "idle"

Done == httpd' = "idle" /\ remaining' = 0 /\ upload' = "firmware"

\* A reset ends whatever request is served.
PowerLost ==
    /\ running' = None
    /\ interrupted' = IF httpd = "file" THEN interrupted \cup {path} ELSE interrupted
    /\ Done
    /\ path' = None /\ version' = None /\ buffered' = 0 /\ answer' = "none"
    /\ UNCHANGED <<otaVars, files>>

(***************************************************************************)
(* handle_ota_post.  esp_ota_begin erases the target; it fails while the   *)
(* running image waits to be confirmed, and ESP_ERROR_CHECK resets then.   *)
(***************************************************************************)
Target == NextUpdate[running]

\* Mutant: the failure of esp_ota_begin is not noticed.
BeginOtaUnconfirmed(n, content) ==
    /\ Idle
    /\ image' = [image EXCEPT ![Target] = "erased"]
    /\ httpd' = "ota" /\ remaining' = n /\ upload' = content
    /\ UNCHANGED <<state, boot, running, fileVars>>

BeginOta(n, content) ==
    /\ Idle /\ state[running] # "pending"
    /\ image' = [image EXCEPT ![Target] = "erased"]
    /\ httpd' = "ota" /\ remaining' = n /\ upload' = content
    /\ UNCHANGED <<state, boot, running, fileVars>>

BeginOtaAborts == Idle /\ state[running] = "pending" /\ PowerLost

\* Mutant: receiving does not end with the content.
ReceivingFromStart(request) == httpd = request

Receiving(request) == httpd = request /\ remaining > 0

ReceiveOtaChunk ==
    /\ Receiving("ota")
    /\ remaining' = remaining - 1
    /\ image' = [image EXCEPT ![Target] = IF remaining = 1 THEN upload ELSE "partial"]
    /\ UNCHANGED <<state, boot, running, httpd, upload, fileVars>>

\* A timeout is below zero like any other error: the test for it comes too
\* late.
OtaTimesOut ==
    /\ "network" \in Faults /\ Receiving("ota")
    /\ Done
    /\ UNCHANGED <<otaVars, running, fileVars>>

OtaWriteFails ==
    /\ "flash" \in Faults /\ Receiving("ota")
    /\ image' \in {image, [image EXCEPT ![Target] = "partial"]}
    /\ Done
    /\ UNCHANGED <<state, boot, running, fileVars>>

\* esp_ota_end validates what was written.
OtaEndSucceeds == image[Target] = "firmware"

SetBootPartition ==
    /\ boot' = Target
    /\ state' = [state EXCEPT ![Target] = "new"]

\* Mutant: the result of esp_ota_end is not looked at.
ActivateUnvalidated ==
    /\ httpd = "ota" /\ remaining = 0
    /\ SetBootPartition
    /\ httpd' = "restarting"
    /\ UNCHANGED <<image, running, remaining, upload, fileVars>>

Activate ==
    /\ httpd = "ota" /\ remaining = 0
    /\ OtaEndSucceeds
    /\ SetBootPartition
    /\ httpd' = "restarting"
    /\ UNCHANGED <<image, running, remaining, upload, fileVars>>

ActivationFails ==
    /\ httpd = "ota" /\ remaining = 0
    /\ ~OtaEndSucceeds \/ "flash" \in Faults
    /\ Done
    /\ UNCHANGED <<otaVars, running, fileVars>>

Restart == httpd = "restarting" /\ PowerLost

HandleOtaPost ==
    \/ \E n \in 0 .. MaxChunks, content \in {"firmware", "junk"} :
           (content = "junk" => "image" \in Faults) /\ BeginOta(n, content)
    \/ BeginOtaAborts \/ ReceiveOtaChunk \/ OtaTimesOut \/ OtaWriteFails
    \/ Activate \/ ActivationFails \/ Restart

(***************************************************************************)
(* CallMeAfterInitializationToMarkCurrentPartitionAsValid.                 *)
(***************************************************************************)
\* Mutant: it marks the partition to boot, whichever is running.
MarkBootPartitionAsValid ==
    /\ running # None /\ state[boot] \in {"new", "pending"}
    /\ state' = [state EXCEPT ![boot] = "valid"]
    /\ UNCHANGED <<image, boot, running, httpd, remaining, upload, fileVars>>

MarkCurrentPartitionAsValid ==
    /\ running # None /\ state[running] = "pending"
    /\ state' = [state EXCEPT ![running] = "valid"]
    /\ UNCHANGED <<image, boot, running, httpd, remaining, upload, fileVars>>

(***************************************************************************)
(* handle_files_post.  A request it refuses before fopen changes nothing   *)
(* and is left out.                                                        *)
(***************************************************************************)
Store(file) == files' = [files EXCEPT ![path] = file]

Missing(n) == Store([version |-> version, missing |-> n])

Answer(text) ==
    /\ answer' = text
    /\ Done /\ buffered' = 0
    /\ UNCHANGED <<otaVars, running, path, version, interrupted>>

StartPost(p, v, n) ==
    /\ Idle
    /\ httpd' = "file" /\ remaining' = n
    /\ path' = p /\ version' = v /\ buffered' = 0 /\ answer' = "none"
    /\ files' = [files EXCEPT ![p] = [version |-> v, missing |-> n]]
    /\ interrupted' = interrupted \ {p}
    /\ UNCHANGED <<otaVars, running, upload>>

\* fwrite takes the chunk; the end of it may stay in the stream's buffer.
ReceiveFileChunk ==
    /\ Receiving("file")
    /\ remaining' = remaining - 1
    /\ buffered' \in {0, 1}
    /\ Missing(remaining' + buffered')
    /\ UNCHANGED <<otaVars, running, httpd, upload, path, version, answer, interrupted>>

\* Mutant: the file stays.
CloseWithoutUnlink == UNCHANGED files /\ Answer("error")

CloseAndUnlink == Store(None) /\ Answer("error")

ConnectionClosed == "network" \in Faults /\ Receiving("file") /\ CloseAndUnlink

FileWriteFails == "full" \in Faults /\ Receiving("file") /\ CloseAndUnlink

\* httpd_req_recv is below zero, which a size_t never is: fwrite is asked to
\* write almost 2^32 bytes.  It runs out of storage or of readable memory.
SocketError ==
    "network" \in Faults /\ Receiving("file") /\ (CloseAndUnlink \/ PowerLost)

\* Mutant: the last chunk is not waited for.
FinishPostEarly ==
    /\ httpd = "file" /\ remaining <= 1
    /\ \/ Missing(remaining)
       \/ "close" \in Faults /\ Missing(remaining + buffered)
    /\ Answer("ok")

\* The result of fclose is not looked at.
FinishPost ==
    /\ httpd = "file" /\ remaining = 0
    /\ \/ Missing(0)
       \/ "close" \in Faults /\ Missing(buffered)
    /\ Answer("ok")

StatFails ==
    /\ "full" \in Faults
    /\ httpd = "file" /\ remaining = 0
    /\ Store(None) /\ Answer("error")

HandleFilesPost ==
    \/ \E p \in Paths, v \in Versions, n \in 0 .. MaxChunks : StartPost(p, v, n)
    \/ ReceiveFileChunk \/ ConnectionClosed \/ SocketError \/ FileWriteFails
    \/ FinishPost \/ StatFails

HandleFilesDelete(p) ==
    /\ Idle /\ files[p] # None
    /\ files' = [files EXCEPT ![p] = None]
    /\ path' = None /\ version' = None /\ answer' = "none"
    /\ interrupted' = interrupted \ {p}
    /\ UNCHANGED <<otaVars, running, httpd, remaining, upload, buffered>>

(***************************************************************************)
(* The bootloader: a new image gets one chance; if it was not confirmed    *)
(* before the next reset the other one is booted.                          *)
(***************************************************************************)
Bootloader ==
    /\ running = None
    /\ IF state[boot] = "pending"
       THEN /\ state' = [state EXCEPT ![boot] = "aborted"]
            /\ boot' = NextUpdate[boot]
       ELSE /\ state' = [state EXCEPT ![boot] = IF @ = "new" THEN "pending" ELSE @]
            /\ boot' = boot
    /\ running' = boot'
    /\ UNCHANGED <<image, httpd, remaining, upload, fileVars>>

Reset == "reset" \in Faults /\ running # None /\ PowerLost

Init ==
    /\ boot \in Slots
    /\ image = [s \in Slots |-> IF s = boot THEN "firmware" ELSE "erased"]
    /\ state = [s \in Slots |-> "undefined"]
    /\ running = None
    /\ files = [p \in Paths |-> None]
    /\ httpd = "idle" /\ remaining = 0 /\ upload = "firmware"
    /\ path = None /\ version = None /\ buffered = 0 /\ answer = "none"
    /\ interrupted = {}

Next ==
    \/ HandleOtaPost
    \/ MarkCurrentPartitionAsValid
    \/ HandleFilesPost
    \/ \E p \in Paths : HandleFilesDelete(p)
    \/ Bootloader
    \/ Reset

Spec == Init /\ [][Next]_vars

(***************************************************************************)
(* Properties of the firmware update.                                      *)
(***************************************************************************)
\* Whatever is interrupted, the device can boot: the partition otadata names
\* holds a complete image, or holds one again after a rollback.
AlwaysBootable == image[boot] = "firmware"

\* An image not yet confirmed has a confirmed one to go back to: no update
\* erases the partition a rollback needs, from the switch of the partition
\* to boot until the confirmation (esp_ota_begin's refusal is an abort here).
RollbackPossible ==
    state[boot] \in {"new", "pending"} =>
        /\ image[NextUpdate[boot]] = "firmware"
        /\ state[NextUpdate[boot]] \in {"undefined", "valid"}

\* An image is confirmed only after it has run: one that was activated and
\* is still waiting for the restart is not.
ConfirmedHasRun ==
    [][\A s \in Slots : state[s] = "new" => state'[s] \in {"new", "pending"}]_vars

(***************************************************************************)
(* Properties of the file requests.                                        *)
(***************************************************************************)
\* "File uploaded successfully" is answered for a file that is stored
\* completely.
AcknowledgedIsStored ==
    answer = "ok" => files[path] = [version |-> version, missing |-> 0]

\* Whatever ends an upload, no part of a file is left for a later GET to
\* serve as the whole, except where a reset left no time to remove it.
UnfinishedOnlyAfterReset ==
    httpd # "file" =>
        \A p \in Paths : files[p] # None /\ files[p].missing > 0 => p \in interrupted
=============================================================================
