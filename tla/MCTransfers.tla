---------------------------- MODULE MCTransfers ----------------------------
(* Instances of the file transfers, one at a time: a download of an object *)
(* that is overwritten, an upload of a file that is edited, an archive     *)
(* sent or fetched by two threads and one written piece by piece.  `which' *)
(* is the transfer that takes place; the others stay as they begin.        *)
EXTENDS ResumableDownload, ResumableUpload, ConcurrentTransfer, ArchiveWriter

VARIABLE which

\* Two versions of the object, of two and three chunks.
TwoVersions == {"v1", "v2"}
Sizes       == [v \in TwoVersions |-> IF v = "v1" THEN 2 ELSE 3]
\* An empty file, one shorter than the buffer, one longer.
Lengths     == {0, 1, 3}
TwoWorkers  == {"w1", "w2"}
\* Archives of no part, one, two at the default size, and of larger parts.
SomeSizes   == {0, 3, 8, 17}

DownloadPart == which = "download" /\ DownloadNext
UploadPart   == which = "upload" /\ UploadNext
TransferPart == which = "concurrent" /\ TransferNext
WriterPart   == which = "writer" /\ WriterNext

Init == /\ which \in {"download", "upload", "concurrent", "writer"}
        /\ DownloadInit /\ UploadInit /\ TransferInit /\ WriterInit
        /\ which # "download" => object = "v1" /\ file = <<>>
        /\ which # "upload" => local.len = 1
        /\ which # "concurrent" => way = "up" /\ total = 0
        /\ which # "writer" => source.len = 1

Next == /\ UNCHANGED which
        /\ \/ DownloadPart
              /\ UNCHANGED <<uploadVars, transferVars, writerVars>>
           \/ UploadPart
              /\ UNCHANGED <<downloadVars, transferVars, writerVars>>
           \/ TransferPart
              /\ UNCHANGED <<downloadVars, uploadVars, writerVars>>
           \/ WriterPart
              /\ UNCHANGED <<downloadVars, uploadVars, transferVars>>

Fairness == /\ WF_downloadVars(which = "download" /\ DownloadStep)
            /\ WF_uploadVars(which = "upload" /\ UploadStep)
            /\ WF_transferVars(which = "concurrent" /\ CallerStep)
            /\ \A w \in Workers :
                  WF_transferVars(which = "concurrent" /\ WorkerStep(w))

Spec == Init /\ [][Next]_<<which, downloadVars, uploadVars, transferVars,
                           writerVars>>
             /\ Fairness

\* The types of the four transfers.
TypeOK == DownloadTypeOK /\ UploadTypeOK /\ TransferTypeOK /\ WriterTypeOK

\* DownloadEnds, UploadEnds and TransferEnds as one: a transfer that has begun
\* ends.  (One formula takes TLC a third of the time of three.)
EveryTransferEnds ==
    \/ which = "download" /\ At("attempt")
    \/ which = "upload" /\ In("attempt")
    \/ which = "concurrent" /\ caller.pc = "spawn"
    ~> CASE which = "download"   -> getter.pc \in {"done", "raised", "down"}
         [] which = "upload"     -> sender.pc \in {"done", "raised", "down"}
         [] which = "concurrent" ->
               /\ caller.pc \in {"done", "raised"}
               /\ \A w \in Workers : worker[w].pc \in {"off", "left"}
         [] OTHER                -> TRUE
=============================================================================
