------------------------------ MODULE Attachments ------------------------------
(***************************************************************************)
(* Attachment I/O (src/src/attachments.ts), the decrypted-file cache that  *)
(* every sign-out empties (attachmentCache.ts, client.ts:557 and 595), and *)
(* one list cell of useAttachment.ts, which the list recycles from message *)
(* to message while its loads run.  A file is named by its cache key; what *)
(* is in it, where it is stored and the wording of errors are left out.    *)
(***************************************************************************)
CONSTANTS
    File,       \* cache keys of the attachments
    OwnFile,    \* those that this device has yet to encrypt and upload
    NoFile,     \* a message without an attachment
    Download    \* downloads the session can have at the same time

ASSUME OwnFileAssumption == OwnFile \subseteq File /\ NoFile \notin File
ASSUME DownloadAssumption == {"none", "local"} \cap Download = {}

VARIABLES
    attSignedIn,    \* getActiveXmtpClient() is a client
    attOpened,      \* opened: per key no entry, the promise of a download, or "local"
    attDownloads,   \* the promises: [pc, file, past], past when a sign-out came since
    attUploads,     \* uploadAttachment, per file of this device
    attCell,        \* what the cell was rendered with, what its effect saw, its status
    attWaits        \* the load() calls of the cell: [file, promise] they wait for

attVars == <<attSignedIn, attOpened, attDownloads, attUploads, attCell, attWaits>>

Settled(p) == p = "local" \/ p \in {d \in Download : attDownloads[d].pc \in {"done", "failed"}}

NoDownload == [pc |-> "free", file |-> NoFile, past |-> FALSE]

\* The downloads, without the settled ones that no cache entry and no load() holds.
Collect(downloads) == attDownloads' = [d \in Download |->
    IF /\ downloads[d].pc \in {"done", "failed"}
       /\ attOpened'[downloads[d].file] # d
       /\ \A w \in attWaits' : w.promise # d
      THEN NoDownload ELSE downloads[d]]

-----------------------------------------------------------------------------
(* openAttachment (attachments.ts:148) *)

\* The entry of the file, or a new one; without a client its promise only rejects.
\* p is the promise that the caller awaits.
OpenAttachment(file, p) ==
    IF attOpened[file] # "none"
      THEN p = attOpened[file] /\ UNCHANGED <<attOpened, attDownloads>>
      ELSE /\ p \in Download /\ attDownloads[p] = NoDownload
           /\ attOpened' = [attOpened EXCEPT ![file] = p]
           /\ attDownloads' = [attDownloads EXCEPT ![p] =
                  [pc |-> IF attSignedIn THEN "running" ELSE "refused",
                   file |-> file, past |-> FALSE]]

DownloadEnds(d, pc) == Collect([attDownloads EXCEPT ![d].pc = pc])

\* The host's download and the SDK's decryption returned.
DownloadSucceeds(d) ==
    /\ attDownloads[d].pc = "running"
    /\ UNCHANGED <<attSignedIn, attOpened, attUploads, attCell, attWaits>>
    /\ DownloadEnds(d, "done")

\* Fault: the entry of the file goes whichever promise it holds.
ForgetAny(d) == attOpened' = [attOpened EXCEPT ![attDownloads[d].file] = "none"]

\* pending.catch (attachments.ts:161): a failure does not stick.
ForgetFailure(d) == attOpened' =
    IF attOpened[attDownloads[d].file] = d
      THEN [attOpened EXCEPT ![attDownloads[d].file] = "none"] ELSE attOpened

DownloadFails(d) ==
    /\ attDownloads[d].pc \in {"running", "refused"}
    /\ ForgetFailure(d)
    /\ UNCHANGED <<attSignedIn, attUploads, attCell, attWaits>>
    /\ DownloadEnds(d, "failed")

-----------------------------------------------------------------------------
(* uploadAttachment (attachments.ts:102) *)

\* The configuration, the client and the size the picker reported are checked first.
UploadStarts(file) ==
    /\ attSignedIn /\ attUploads[file] = "none"
    /\ attUploads' = [attUploads EXCEPT ![file] = "uploading"]
    /\ UNCHANGED <<attSignedIn, attOpened, attDownloads, attCell, attWaits>>

\* Encryption, the size after it, the host's upload or the https check failed.
UploadFails(file) ==
    /\ attUploads[file] = "uploading"
    /\ attUploads' = [attUploads EXCEPT ![file] = "none"]
    /\ UNCHANGED <<attSignedIn, attOpened, attDownloads, attCell, attWaits>>

\* The cache is primed with the local file, whoever is signed in by now.
UploadSucceeds(file) ==
    /\ attUploads[file] = "uploading"
    /\ attUploads' = [attUploads EXCEPT ![file] = "sent"]
    /\ attOpened' = [attOpened EXCEPT ![file] = "local"]
    /\ UNCHANGED <<attSignedIn, attCell, attWaits>>
    /\ Collect(attDownloads)

-----------------------------------------------------------------------------
(* The cell: useAttachment.ts *)

CellTurns(state, file) == attCell' = [attCell EXCEPT !.state = state, !.file = file]

EffectDue == attCell.seen # attCell.shown \/ attCell.auto # attCell.autoSeen

\* The list renders the cell with a message (contentRef) and an autoLoad; the effects of
\* an earlier render have run.
Shown(file) == file \in OwnFile => attUploads[file] = "sent"

CellRenders(file, auto) ==
    /\ ~EffectDue
    /\ Shown(file)
    /\ attCell' = [attCell EXCEPT !.shown = file, !.auto = auto]
    /\ UNCHANGED <<attSignedIn, attOpened, attDownloads, attUploads, attWaits>>

\* load() (useAttachment.ts:44), for the file shown now.
Load(cell) ==
    \E p \in Download \cup {"local"} :
        /\ OpenAttachment(cell.shown, p)
        /\ attWaits' = attWaits \cup {[file |-> cell.shown, promise |-> p]}
        /\ attCell' = [cell EXCEPT !.state = "loading", !.file = NoFile]

\* The effect (useAttachment.ts:72-86): another file resets the cell and loads it if it
\* may; autoLoad alone starts what was idle.
CellEffect ==
    LET new   == attCell.seen # attCell.shown
        ready == attCell.auto /\ attCell.shown # NoFile
        seen  == [attCell EXCEPT !.seen = attCell.shown, !.autoSeen = attCell.auto]
        cell  == IF new THEN [seen EXCEPT !.state = "idle", !.file = NoFile] ELSE seen
    IN  /\ EffectDue
        /\ IF ready /\ (new \/ (~attCell.autoSeen /\ attCell.state = "idle"))
             THEN Load(cell)
             ELSE attCell' = cell /\ UNCHANGED <<attOpened, attDownloads, attWaits>>
        /\ UNCHANGED <<attSignedIn, attUploads>>

\* The user taps load or Retry.
CellTapped ==
    /\ attCell.shown # NoFile
    /\ Load(attCell)
    /\ UNCHANGED <<attSignedIn, attUploads>>

\* Fault: a result lands in the cell whatever it shows by now.
AlwaysCurrent(w) == TRUE

\* current() (useAttachment.ts:50)
CellCurrent(w) == attCell.shown = w.file

\* The await of a load() is over.
CellHears(w) ==
    /\ Settled(w.promise)
    /\ attWaits' = attWaits \ {w}
    /\ IF ~CellCurrent(w) THEN UNCHANGED attCell
       ELSE IF w.promise = "local" THEN CellTurns("ready", w.file)
       ELSE IF attDownloads[w.promise].pc = "done"
         THEN CellTurns("ready", attDownloads[w.promise].file)
       ELSE CellTurns("failed", NoFile)
    /\ UNCHANGED <<attSignedIn, attOpened, attUploads>>
    /\ Collect(attDownloads)

-----------------------------------------------------------------------------
(* Specification *)

AttachmentsSignIn ==
    /\ ~attSignedIn /\ attSignedIn' = TRUE
    /\ UNCHANGED <<attOpened, attDownloads, attUploads, attCell, attWaits>>

\* dropXmtpClient and resetXmtpLocalState, whose downloads and uploads go on.
ClearAttachmentCache ==
    /\ attSignedIn' = FALSE
    /\ attOpened' = [f \in File |-> "none"]
    /\ UNCHANGED <<attUploads, attCell, attWaits>>
    /\ Collect([d \in Download |-> IF attDownloads[d] = NoDownload
           THEN NoDownload ELSE [attDownloads[d] EXCEPT !.past = TRUE]])

\* The cell is mounted for some message that is there, and its effect has yet to run.
AttachmentsInit ==
    /\ attSignedIn = FALSE
    /\ attOpened = [f \in File |-> "none"]
    /\ attDownloads = [d \in Download |-> NoDownload]
    /\ attUploads = [f \in OwnFile |-> "none"]
    /\ \E file \in (File \ OwnFile) \cup {NoFile}, auto \in BOOLEAN :
           attCell = [shown |-> file, seen |-> "unset", auto |-> auto, autoSeen |-> auto,
                      state |-> "idle", file |-> NoFile]
    /\ attWaits = {}

AttachmentsNext ==
    \/ AttachmentsSignIn \/ ClearAttachmentCache \/ CellEffect \/ CellTapped
    \/ \E file \in File \cup {NoFile}, auto \in BOOLEAN : CellRenders(file, auto)
    \/ \E w \in attWaits : CellHears(w)
    \/ \E d \in Download : DownloadSucceeds(d) \/ DownloadFails(d)
    \/ \E f \in OwnFile : UploadStarts(f) \/ UploadFails(f) \/ UploadSucceeds(f)

AttachmentsSpec == AttachmentsInit /\ [][AttachmentsNext]_attVars

-----------------------------------------------------------------------------
(* Properties *)

AttachmentsTypeOK ==
    /\ attSignedIn \in BOOLEAN
    /\ attOpened \in [File -> Download \cup {"none", "local"}]
    /\ attDownloads \in [Download -> [pc : {"free", "running", "refused", "done", "failed"},
                                      file : File \cup {NoFile}, past : BOOLEAN]]
    /\ attUploads \in [OwnFile -> {"none", "uploading", "sent"}]
    /\ attCell \in [shown : File \cup {NoFile}, seen : File \cup {NoFile, "unset"},
                   auto : BOOLEAN, autoSeen : BOOLEAN,
                   state : {"idle", "loading", "ready", "failed"}, file : File \cup {NoFile}]
    /\ attWaits \subseteq [file : File, promise : Download \cup {"local"}]

\* useAttachment.ts:48-53: however often the list recycles the cell while downloads run,
\* once its effect ran it shows the file of its own message or none, and while it shows
\* the loading state a load of that file is still to answer.
CellShowsOwn ==
    ~EffectDue =>
        /\ attCell.state = "ready" => attCell.file = attCell.shown
        /\ attCell.state = "loading" => \E w \in attWaits : w.file = attCell.shown

\* attachments.ts:9: each file downloads once per session: of the downloads of a file that
\* the session began, one is running or has succeeded at most, whatever an earlier
\* session's download of it does.
DownloadsOnce ==
    \A d, e \in Download :
        LET live(x) == ~attDownloads[x].past /\ attDownloads[x].pc \in {"running", "done"}
        IN  live(d) /\ live(e) /\ attDownloads[d].file = attDownloads[e].file => d = e
=============================================================================
