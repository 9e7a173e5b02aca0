----------------------------- MODULE Message_proofs -----------------------------
(* Proofs about what hangs on a message: its file, from Attachments, for every set of   *)
(* files and any number of downloads, promises of which are collected and used again;   *)
(* and its reactions, from Reactions, for every set of emoji and members, and any       *)
(* number of taps in flight at once.                                                    *)
EXTENDS Attachments, Reactions, WellFoundedInduction, TLAPS

-----------------------------------------------------------------------------
(* ATTACHMENTS *)

DownloadState ==
    [pc : {"free", "running", "refused", "done", "failed"},
     file : File \cup {NoFile}, past : BOOLEAN]
WaitState == [file : File, promise : Download \cup {"local"}]
CellState ==
    [shown : File \cup {NoFile}, seen : File \cup {NoFile, "unset"},
     auto : BOOLEAN, autoSeen : BOOLEAN,
     state : {"idle", "loading", "ready", "failed"}, file : File \cup {NoFile}]

-----------------------------------------------------------------------------
(* The inductive invariant, over the entries o, the downloads D, the waits W *)
(* and the uploads U.                                                       *)

\* An entry is the promise of a download of its file that has not failed.
Entries(o, D) ==
    \A f \in File : o[f] \in Download =>
        D[o[f]].pc \in {"running", "refused", "done"} /\ D[o[f]].file = f

\* A load() waits for a download of the file it is for, which is not collected.
Waits(W, D) ==
    \A w \in W : w.promise \in Download =>
        D[w.promise].pc # "free" /\ D[w.promise].file = w.file

Named(D) == \A d \in Download : D[d].pc # "free" => D[d].file \in File

\* What the session is downloading or has downloaded is the entry of its file: nothing but
\* its own failure, or the sign-out that makes it a past one, takes the entry away.
LiveDownload(r) == ~r.past /\ r.pc \in {"running", "done"}
LiveEntries(o, D) == \A d \in Download : LiveDownload(D[d]) => o[D[d].file] = d

\* A file of this device is neither shown nor downloaded before its upload primes the cache.
OwnLater(U, shown, D) ==
    \A f \in OwnFile : U[f] # "sent" =>
        shown # f /\ \A d \in Download : D[d].pc # "free" => D[d].file # f

\* Once the effect saw the file that is shown, whether or not a change of autoLoad is due.
CellOwn ==
    attCell.seen = attCell.shown =>
        /\ attCell.state = "ready" => attCell.file = attCell.shown
        /\ attCell.state = "loading" => \E w \in attWaits : w.file = attCell.shown

AttInv ==
    /\ AttachmentsTypeOK
    /\ Entries(attOpened, attDownloads)
    /\ Waits(attWaits, attDownloads)
    /\ Named(attDownloads)
    /\ LiveEntries(attOpened, attDownloads)
    /\ OwnLater(attUploads, attCell.shown, attDownloads)
    /\ CellOwn

-----------------------------------------------------------------------------
(* What the helpers keep *)

\* Collecting the settled promises that nothing holds keeps what is said of the downloads.
LEMMA CollectKeeps ==
  ASSUME NEW D \in [Download -> DownloadState], Collect(D), Named(D),
         attOpened' \in [File -> Download \cup {"none", "local"}],
         Entries(attOpened', D), Waits(attWaits', D), LiveEntries(attOpened', D),
         NEW U, NEW shown, OwnLater(U, shown, D)
  PROVE  /\ attDownloads' \in [Download -> DownloadState]
         /\ Named(attDownloads')
         /\ Entries(attOpened', attDownloads')
         /\ Waits(attWaits', attDownloads')
         /\ LiveEntries(attOpened', attDownloads')
         /\ OwnLater(U, shown, attDownloads')
<1>1. /\ NoDownload \in DownloadState /\ NoDownload.pc = "free"
  BY DEF NoDownload, DownloadState
<1>2. \A d \in Download :
         \/ attDownloads'[d] = D[d]
         \/ /\ attDownloads'[d] = NoDownload
            /\ D[d].pc \in {"done", "failed"}
            /\ attOpened'[D[d].file] # d
            /\ \A w \in attWaits' : w.promise # d
  BY DEF Collect
<1>3. attDownloads' \in [Download -> DownloadState]
  BY <1>1 DEF Collect
<1>4. Named(attDownloads')
  BY <1>1, <1>2 DEF Named
<1>5. Entries(attOpened', attDownloads')
  BY <1>2 DEF Entries
<1>6. Waits(attWaits', attDownloads')
  BY <1>2 DEF Waits
<1>7. LiveEntries(attOpened', attDownloads')
  BY <1>1, <1>2 DEF LiveEntries, LiveDownload
<1>8. OwnLater(U, shown, attDownloads')
  BY <1>1, <1>2 DEF OwnLater
<1>9. QED
  BY <1>3, <1>4, <1>5, <1>6, <1>7, <1>8

\* openAttachment: the promise it returns is the entry of the file.
LEMMA OpenKeeps ==
  ASSUME AttInv, NEW file \in File, Shown(file), NEW p \in Download \cup {"local"},
         OpenAttachment(file, p), attSignedIn' = attSignedIn
  PROVE  /\ attOpened' \in [File -> Download \cup {"none", "local"}]
         /\ attDownloads' \in [Download -> DownloadState]
         /\ Entries(attOpened', attDownloads')
         /\ Named(attDownloads')
         /\ LiveEntries(attOpened', attDownloads')
         /\ attOpened'[file] = p
         /\ \A d \in Download : attDownloads[d].pc # "free" => attDownloads'[d] = attDownloads[d]
         /\ \A d \in Download : attDownloads'[d].pc # "free" =>
               attDownloads'[d].file \in {file, attDownloads[d].file} /\
               (attDownloads[d].pc # "free" \/ attDownloads'[d].file = file)
<1>1. CASE attOpened[file] # "none"
  BY <1>1 DEF OpenAttachment, AttInv, AttachmentsTypeOK, DownloadState
<1>2. CASE attOpened[file] = "none"
  <2> DEFINE pc == IF attSignedIn THEN "running" ELSE "refused"
             r == [pc |-> pc, file |-> file, past |-> FALSE]
  <2>1. /\ p \in Download /\ attDownloads[p] = NoDownload
        /\ attOpened' = [attOpened EXCEPT ![file] = p]
        /\ attDownloads' = [attDownloads EXCEPT ![p] = r]
    BY <1>2 DEF OpenAttachment
  <2>2. r \in DownloadState /\ r.pc \in {"running", "refused"} /\ r.file = file
    BY DEF DownloadState
  <2> HIDE DEF r
  <2>3. /\ attOpened \in [File -> Download \cup {"none", "local"}]
        /\ attDownloads \in [Download -> DownloadState]
    BY DEF AttInv, AttachmentsTypeOK, DownloadState
  <2>4. /\ attOpened' \in [File -> Download \cup {"none", "local"}]
        /\ attDownloads' \in [Download -> DownloadState]
        /\ \A f \in File : attOpened'[f] = IF f = file THEN p ELSE attOpened[f]
        /\ \A d \in Download : attDownloads'[d] = IF d = p THEN r ELSE attDownloads[d]
    BY <2>1, <2>2, <2>3
  <2>5. attDownloads[p].pc = "free"
    BY <2>1 DEF NoDownload
  <2>6. Entries(attOpened', attDownloads')
    BY <2>2, <2>4, <2>5 DEF Entries, AttInv
  <2>7. Named(attDownloads')
    BY <2>2, <2>4 DEF Named, AttInv
  <2>8. LiveEntries(attOpened', attDownloads')
    BY <1>2, <2>2, <2>4, DownloadAssumption
       DEF LiveEntries, LiveDownload, AttInv, Named, DownloadAssumption
  <2>9. QED
    BY <2>2, <2>4, <2>5, <2>6, <2>7, <2>8
<1>3. QED
  BY <1>1, <1>2

\* load() of the file that is shown, for a cell that differs only in what its effect saw.
LEMMA LoadKeeps ==
  ASSUME AttInv, NEW cell \in CellState, cell.shown = attCell.shown, cell.shown \in File,
         Load(cell), UNCHANGED <<attSignedIn, attUploads>>
  PROVE  AttInv'
<1>1. PICK p \in Download \cup {"local"} :
        /\ OpenAttachment(cell.shown, p)
        /\ attWaits' = attWaits \cup {[file |-> cell.shown, promise |-> p]}
        /\ attCell' = [cell EXCEPT !.state = "loading", !.file = NoFile]
  BY DEF Load
<1>2. Shown(cell.shown)
  BY DEF Shown, AttInv, OwnLater
<1>3. /\ attOpened' \in [File -> Download \cup {"none", "local"}]
      /\ attDownloads' \in [Download -> DownloadState]
      /\ Entries(attOpened', attDownloads')
      /\ Named(attDownloads')
      /\ LiveEntries(attOpened', attDownloads')
      /\ attOpened'[cell.shown] = p
      /\ \A d \in Download : attDownloads[d].pc # "free" => attDownloads'[d] = attDownloads[d]
      /\ \A d \in Download : attDownloads'[d].pc # "free" =>
            attDownloads'[d].file \in {cell.shown, attDownloads[d].file} /\
            (attDownloads[d].pc # "free" \/ attDownloads'[d].file = cell.shown)
  BY <1>1, <1>2, OpenKeeps
<1>4. /\ attCell' \in CellState /\ attCell'.shown = cell.shown
      /\ attCell'.state = "loading"
  BY <1>1 DEF CellState
<1>5. attWaits' \subseteq WaitState
  BY <1>1 DEF AttInv, AttachmentsTypeOK, WaitState
<1>6. AttachmentsTypeOK'
  BY <1>3, <1>4, <1>5
     DEF AttInv, AttachmentsTypeOK, DownloadState, CellState, WaitState
<1>7. Waits(attWaits', attDownloads')
  BY <1>1, <1>3 DEF Waits, AttInv, Entries
<1>8. OwnLater(attUploads', attCell'.shown, attDownloads')
  BY <1>2, <1>3, <1>4 DEF OwnLater, AttInv, Shown
<1>9. CellOwn'
  <2> DEFINE w == [file |-> cell.shown, promise |-> p]
  <2>1. w \in attWaits' /\ w.file = attCell'.shown
    BY <1>1, <1>4
  <2> HIDE DEF w
  <2>2. QED
    BY <1>4, <2>1 DEF CellOwn
<1>10. QED
  BY <1>3, <1>6, <1>7, <1>8, <1>9 DEF AttInv

-----------------------------------------------------------------------------
(* Init and every step                                                      *)

LEMMA AttInitInv == AttachmentsInit => AttInv
<1> SUFFICES ASSUME AttachmentsInit PROVE AttInv
  OBVIOUS
<1>1. /\ attOpened = [f \in File |-> "none"] /\ attDownloads = [d \in Download |-> NoDownload]
      /\ attUploads = [f \in OwnFile |-> "none"] /\ attWaits = {} /\ attSignedIn = FALSE
  BY DEF AttachmentsInit
<1>2. PICK file \in (File \ OwnFile) \cup {NoFile}, auto \in BOOLEAN :
        attCell = [shown |-> file, seen |-> "unset", auto |-> auto, autoSeen |-> auto,
                   state |-> "idle", file |-> NoFile]
  BY DEF AttachmentsInit
<1>3. attCell \in CellState /\ attCell.shown = file /\ attCell.state = "idle"
  BY <1>2 DEF CellState
<1>4. NoDownload \in DownloadState /\ NoDownload.pc = "free"
  BY DEF NoDownload, DownloadState
<1>5. AttachmentsTypeOK
  BY <1>1, <1>3, <1>4 DEF AttachmentsTypeOK, CellState, DownloadState
<1>6. /\ Entries(attOpened, attDownloads) /\ Waits(attWaits, attDownloads)
      /\ Named(attDownloads) /\ LiveEntries(attOpened, attDownloads)
  BY <1>1, <1>4, DownloadAssumption
     DEF Entries, Waits, Named, LiveEntries, LiveDownload, DownloadAssumption
<1>7. OwnLater(attUploads, attCell.shown, attDownloads)
  BY <1>1, <1>3, <1>4, OwnFileAssumption DEF OwnLater, OwnFileAssumption
<1>8. QED
  BY <1>3, <1>5, <1>6, <1>7 DEF AttInv, CellOwn

\* A step that leaves the downloads, the entries, the waits and the cell alone.
LEMMA StillStep ==
  ASSUME AttInv, UNCHANGED <<attOpened, attDownloads, attCell, attWaits>>,
         attSignedIn' \in BOOLEAN,
         attUploads' \in [OwnFile -> {"none", "uploading", "sent"}],
         \A f \in OwnFile : attUploads[f] = "sent" => attUploads'[f] = "sent"
  PROVE  AttInv'
<1>1. AttachmentsTypeOK'
  BY DEF AttInv, AttachmentsTypeOK
<1>2. OwnLater(attUploads, attCell.shown, attDownloads)'
  BY DEF AttInv, OwnLater
<1>3. QED
  BY <1>1, <1>2 DEF AttInv, CellOwn

LEMMA SignInStep ==
  ASSUME AttInv, AttachmentsSignIn
  PROVE  AttInv'
  BY StillStep DEF AttachmentsSignIn, AttInv, AttachmentsTypeOK

LEMMA UploadMoves ==
  ASSUME AttInv, NEW f \in OwnFile, UploadStarts(f) \/ UploadFails(f)
  PROVE  AttInv'
  BY StillStep DEF UploadStarts, UploadFails, AttInv, AttachmentsTypeOK

\* The sign-out: what was downloading or downloaded becomes a past session's.
LEMMA ClearStep ==
  ASSUME AttInv, ClearAttachmentCache
  PROVE  AttInv'
<1> DEFINE D == [d \in Download |-> IF attDownloads[d] = NoDownload
                   THEN NoDownload ELSE [attDownloads[d] EXCEPT !.past = TRUE]]
<1>1. /\ attOpened' = [f \in File |-> "none"] /\ attSignedIn' = FALSE
      /\ UNCHANGED <<attUploads, attCell, attWaits>> /\ Collect(D)
  BY DEF ClearAttachmentCache
<1>2. attDownloads \in [Download -> DownloadState]
  BY DEF AttInv, AttachmentsTypeOK, DownloadState
<1>3. \A d \in Download : /\ D[d] \in DownloadState
                          /\ D[d].pc = attDownloads[d].pc /\ D[d].file = attDownloads[d].file
                          /\ D[d].pc # "free" => D[d].past
  BY <1>2 DEF NoDownload, DownloadState
<1>4. D \in [Download -> DownloadState]
  BY <1>3
<1> HIDE DEF D
<1>5. /\ Named(D) /\ Waits(attWaits', D) /\ OwnLater(attUploads, attCell.shown, D)
      /\ LiveEntries(attOpened', D)
  BY <1>1, <1>3 DEF AttInv, Named, Waits, OwnLater, LiveEntries, LiveDownload
<1>6. Entries(attOpened', D)
  BY <1>1, DownloadAssumption DEF Entries, DownloadAssumption
<1>7. attOpened' \in [File -> Download \cup {"none", "local"}]
  BY <1>1
<1>8. /\ attDownloads' \in [Download -> DownloadState]
      /\ Named(attDownloads')
      /\ Entries(attOpened', attDownloads')
      /\ Waits(attWaits', attDownloads')
      /\ LiveEntries(attOpened', attDownloads')
      /\ OwnLater(attUploads, attCell.shown, attDownloads')
  BY <1>1, <1>4, <1>5, <1>6, <1>7, CollectKeeps
<1>9. AttachmentsTypeOK'
  BY <1>1, <1>7, <1>8 DEF AttInv, AttachmentsTypeOK, DownloadState
<1>10. QED
  BY <1>1, <1>8, <1>9 DEF AttInv, CellOwn

LEMMA RenderStep ==
  ASSUME AttInv, NEW file \in File \cup {NoFile}, NEW auto \in BOOLEAN, CellRenders(file, auto)
  PROVE  AttInv'
<1>1. /\ attCell.seen = attCell.shown /\ Shown(file)
      /\ attCell' = [attCell EXCEPT !.shown = file, !.auto = auto]
      /\ UNCHANGED <<attSignedIn, attOpened, attDownloads, attUploads, attWaits>>
  BY DEF CellRenders, EffectDue
<1>2. attCell \in CellState
  BY DEF AttInv, AttachmentsTypeOK, CellState
<1>3. /\ attCell' \in CellState /\ attCell'.shown = file
      /\ attCell'.seen = attCell.seen /\ attCell'.state = attCell.state
      /\ attCell'.file = attCell.file
  BY <1>1, <1>2 DEF CellState
<1>4. AttachmentsTypeOK'
  BY <1>1, <1>3 DEF AttInv, AttachmentsTypeOK, CellState
<1>5. OwnLater(attUploads', attCell'.shown, attDownloads')
  BY <1>1, <1>3 DEF AttInv, OwnLater, Shown
<1>6. CellOwn'
  BY <1>1, <1>3 DEF AttInv, CellOwn
<1>7. QED
  BY <1>1, <1>4, <1>5, <1>6 DEF AttInv

LEMMA CellEffectStep ==
  ASSUME AttInv, CellEffect
  PROVE  AttInv'
<1> DEFINE new == attCell.seen # attCell.shown
           seen == [attCell EXCEPT !.seen = attCell.shown, !.autoSeen = attCell.auto]
           cell == IF new THEN [seen EXCEPT !.state = "idle", !.file = NoFile] ELSE seen
<1>1. attCell \in CellState
  BY DEF AttInv, AttachmentsTypeOK, CellState
<1>2. /\ cell \in CellState /\ cell.shown = attCell.shown
      /\ new => cell.state = "idle"
      /\ ~new => cell.state = attCell.state /\ cell.file = attCell.file
  BY <1>1 DEF CellState
<1>3. /\ UNCHANGED <<attSignedIn, attUploads>>
      /\ \/ Load(cell) /\ attCell.shown # NoFile
         \/ attCell' = cell /\ UNCHANGED <<attOpened, attDownloads, attWaits>>
  BY DEF CellEffect
<1> HIDE DEF cell
<1>4. CASE Load(cell) /\ attCell.shown # NoFile
  <2>1. cell.shown \in File
    BY <1>1, <1>2, <1>4 DEF CellState
  <2>2. QED
    BY <1>2, <1>3, <1>4, <2>1, LoadKeeps
<1>5. CASE attCell' = cell /\ UNCHANGED <<attOpened, attDownloads, attWaits>>
  <2>1. AttachmentsTypeOK'
    BY <1>2, <1>3, <1>5 DEF AttInv, AttachmentsTypeOK, CellState
  <2>2. OwnLater(attUploads', attCell'.shown, attDownloads')
    BY <1>2, <1>3, <1>5 DEF AttInv
  <2>3. CellOwn'
    BY <1>2, <1>5 DEF AttInv, CellOwn
  <2>4. QED
    BY <1>5, <2>1, <2>2, <2>3 DEF AttInv
<1>6. QED
  BY <1>3, <1>4, <1>5

LEMMA TapStep ==
  ASSUME AttInv, CellTapped
  PROVE  AttInv'
<1>1. attCell \in CellState /\ attCell.shown \in File
  BY DEF CellTapped, AttInv, AttachmentsTypeOK, CellState
<1>2. QED
  BY <1>1, LoadKeeps DEF CellTapped

LEMMA HearStep ==
  ASSUME AttInv, NEW w \in attWaits, CellHears(w)
  PROVE  AttInv'
<1>1. /\ attWaits' = attWaits \ {w} /\ UNCHANGED <<attSignedIn, attOpened, attUploads>>
      /\ Collect(attDownloads)
  BY DEF CellHears
<1>2. /\ attCell \in CellState /\ w \in WaitState /\ attWaits \subseteq WaitState
      /\ attDownloads \in [Download -> DownloadState]
      /\ attOpened' \in [File -> Download \cup {"none", "local"}]
  BY <1>1 DEF AttInv, AttachmentsTypeOK, CellState, WaitState, DownloadState
<1>3. w.promise \in Download => attDownloads[w.promise].file = w.file
  BY DEF AttInv, Waits
<1>4. /\ Named(attDownloads) /\ Entries(attOpened', attDownloads)
      /\ Waits(attWaits', attDownloads) /\ LiveEntries(attOpened', attDownloads)
      /\ OwnLater(attUploads, attCell.shown, attDownloads)
  BY <1>1 DEF AttInv, Waits
<1>5. /\ attDownloads' \in [Download -> DownloadState]
      /\ Named(attDownloads')
      /\ Entries(attOpened', attDownloads')
      /\ Waits(attWaits', attDownloads')
      /\ LiveEntries(attOpened', attDownloads')
      /\ OwnLater(attUploads, attCell.shown, attDownloads')
  BY <1>1, <1>2, <1>4, CollectKeeps
<1>6. \/ w.file # attCell.shown /\ attCell' = attCell
      \/ /\ w.file = attCell.shown
         /\ \/ attCell' = [attCell EXCEPT !.state = "ready", !.file = w.file]
            \/ attCell' = [attCell EXCEPT !.state = "failed", !.file = NoFile]
  BY <1>2, <1>3 DEF CellHears, CellCurrent, CellTurns, WaitState
<1>7. /\ attCell' \in CellState /\ attCell'.shown = attCell.shown
      /\ attCell'.seen = attCell.seen
      /\ \/ attCell'.state = "ready" /\ attCell'.file = attCell.shown
         \/ attCell'.state = "failed"
         \/ w.file # attCell.shown /\ attCell' = attCell
  BY <1>2, <1>6 DEF CellState, WaitState
<1>8. AttachmentsTypeOK'
  BY <1>1, <1>2, <1>5, <1>7
     DEF AttInv, AttachmentsTypeOK, CellState, WaitState, DownloadState
<1>9. CellOwn'
  BY <1>1, <1>7 DEF AttInv, CellOwn
<1>10. QED
  BY <1>1, <1>5, <1>7, <1>8, <1>9 DEF AttInv

\* A download that ends, well or not: the entry of a failed one goes first.
LEMMA DownloadStep ==
  ASSUME AttInv, NEW d \in Download, DownloadSucceeds(d) \/ DownloadFails(d)
  PROVE  AttInv'
<1>1. PICK pc \in {"done", "failed"} :
        /\ pc = "done" => attDownloads[d].pc = "running" /\ UNCHANGED attOpened
        /\ pc = "failed" => /\ attDownloads[d].pc \in {"running", "refused"}
                            /\ ForgetFailure(d)
        /\ UNCHANGED <<attSignedIn, attUploads, attCell, attWaits>>
        /\ DownloadEnds(d, pc)
  BY DEF DownloadSucceeds, DownloadFails
<1> DEFINE D == [attDownloads EXCEPT ![d].pc = pc]
<1>2. Collect(D)
  BY <1>1 DEF DownloadEnds
<1>3. /\ attDownloads \in [Download -> DownloadState]
      /\ attOpened \in [File -> Download \cup {"none", "local"}]
      /\ attDownloads[d].file \in File /\ attDownloads[d].pc # "free"
  BY <1>1 DEF AttInv, AttachmentsTypeOK, DownloadState, Named
<1>4. /\ D \in [Download -> DownloadState]
      /\ D[d].pc = pc
      /\ \A e \in Download : /\ D[e].file = attDownloads[e].file
                             /\ D[e].past = attDownloads[e].past
                             /\ e # d => D[e] = attDownloads[e]
  BY <1>3 DEF DownloadState
<1> HIDE DEF D
<1>5. /\ attOpened' \in [File -> Download \cup {"none", "local"}]
      /\ \A f \in File :
            \/ attOpened'[f] = attOpened[f] /\ (pc = "failed" => attOpened[f] # d)
            \/ attOpened'[f] = "none" /\ attOpened[f] = d /\ pc = "failed"
  <2>1. CASE pc = "done"
    BY <1>1, <1>3, <2>1
  <2>2. CASE pc = "failed"
    <3>1. \A f \in File : attOpened[f] = d => f = attDownloads[d].file
      BY DEF AttInv, Entries
    <3>2. QED
      BY <1>1, <1>3, <2>2, <3>1 DEF ForgetFailure
  <2>3. QED
    BY <2>1, <2>2
<1>6. Named(D) /\ Waits(attWaits', D) /\ OwnLater(attUploads, attCell.shown, D)
  BY <1>1, <1>3, <1>4 DEF AttInv, Named, Waits, OwnLater
<1>7. Entries(attOpened', D)
  BY <1>1, <1>4, <1>5, DownloadAssumption DEF AttInv, Entries, DownloadAssumption
<1>8. LiveEntries(attOpened', D)
  <2> SUFFICES ASSUME NEW e \in Download, LiveDownload(D[e]) PROVE attOpened'[D[e].file] = e
    BY DEF LiveEntries
  <2>1. LiveDownload(attDownloads[e]) /\ (pc = "failed" => e # d)
    BY <1>1, <1>4 DEF LiveDownload
  <2>2. attOpened[D[e].file] = e /\ D[e].file \in File
    BY <1>4, <2>1 DEF AttInv, LiveEntries, Named, LiveDownload
  <2>3. QED
    BY <1>5, <2>1, <2>2
<1>9. /\ attDownloads' \in [Download -> DownloadState]
      /\ Named(attDownloads')
      /\ Entries(attOpened', attDownloads')
      /\ Waits(attWaits', attDownloads')
      /\ LiveEntries(attOpened', attDownloads')
      /\ OwnLater(attUploads, attCell.shown, attDownloads')
  BY <1>2, <1>4, <1>5, <1>6, <1>7, <1>8, CollectKeeps
<1>10. AttachmentsTypeOK'
  BY <1>1, <1>5, <1>9 DEF AttInv, AttachmentsTypeOK, DownloadState
<1>11. QED
  BY <1>1, <1>9, <1>10 DEF AttInv, CellOwn

\* The upload primes the cache over whatever the entry was: of a file that nobody here has
\* shown or downloaded yet.
LEMMA UploadDone ==
  ASSUME AttInv, NEW file \in OwnFile, UploadSucceeds(file)
  PROVE  AttInv'
<1>1. /\ attUploads[file] = "uploading" /\ UNCHANGED <<attSignedIn, attCell, attWaits>>
      /\ attUploads' = [attUploads EXCEPT ![file] = "sent"]
      /\ attOpened' = [attOpened EXCEPT ![file] = "local"]
      /\ Collect(attDownloads)
  BY DEF UploadSucceeds
<1>2. /\ attDownloads \in [Download -> DownloadState]
      /\ attOpened \in [File -> Download \cup {"none", "local"}]
      /\ attUploads \in [OwnFile -> {"none", "uploading", "sent"}]
      /\ file \in File
  BY OwnFileAssumption DEF AttInv, AttachmentsTypeOK, DownloadState, OwnFileAssumption
<1>3. /\ attOpened' \in [File -> Download \cup {"none", "local"}]
      /\ \A f \in File : attOpened'[f] = IF f = file THEN "local" ELSE attOpened[f]
      /\ attUploads' \in [OwnFile -> {"none", "uploading", "sent"}]
      /\ \A f \in OwnFile : attUploads'[f] # "sent" => attUploads[f] # "sent"
  BY <1>1, <1>2
<1>4. \A d \in Download : attDownloads[d].pc # "free" => attDownloads[d].file # file
  BY <1>1 DEF AttInv, OwnLater
<1>5. /\ Named(attDownloads) /\ Waits(attWaits', attDownloads)
      /\ OwnLater(attUploads', attCell.shown, attDownloads)
  BY <1>1, <1>3 DEF AttInv, OwnLater
<1>6. Entries(attOpened', attDownloads)
  BY <1>3, DownloadAssumption DEF AttInv, Entries, DownloadAssumption
<1>7. LiveEntries(attOpened', attDownloads)
  BY <1>3, <1>4 DEF AttInv, LiveEntries, LiveDownload, Named
<1>8. /\ attDownloads' \in [Download -> DownloadState]
      /\ Named(attDownloads')
      /\ Entries(attOpened', attDownloads')
      /\ Waits(attWaits', attDownloads')
      /\ LiveEntries(attOpened', attDownloads')
      /\ OwnLater(attUploads', attCell.shown, attDownloads')
  BY <1>1, <1>2, <1>3, <1>5, <1>6, <1>7, CollectKeeps
<1>9. AttachmentsTypeOK'
  BY <1>1, <1>3, <1>8 DEF AttInv, AttachmentsTypeOK, DownloadState
<1>10. QED
  BY <1>1, <1>8, <1>9 DEF AttInv, CellOwn

LEMMA AttStepInv == AttInv /\ [AttachmentsNext]_attVars => AttInv'
<1> SUFFICES ASSUME AttInv, [AttachmentsNext]_attVars PROVE AttInv'
  OBVIOUS
<1>1. CASE UNCHANGED attVars
  BY <1>1, StillStep DEF attVars, AttInv, AttachmentsTypeOK
<1>2. CASE AttachmentsNext
  BY <1>2, SignInStep, ClearStep, CellEffectStep, TapStep, RenderStep, HearStep, DownloadStep,
     UploadMoves, UploadDone DEF AttachmentsNext
<1>3. QED
  BY <1>1, <1>2

LEMMA AttAlwaysInv == AttachmentsSpec => []AttInv
  BY AttInitInv, AttStepInv, PTL DEF AttachmentsSpec

-----------------------------------------------------------------------------
(* Theorems *)

\* Every variable of attachment I/O, its cache and the cell keeps its type.
THEOREM AttachmentsTyped == AttachmentsSpec => []AttachmentsTypeOK
<1>1. AttInv => AttachmentsTypeOK
  BY DEF AttInv
<1>2. QED
  BY <1>1, AttAlwaysInv, PTL

\* A file downloads once per session: openAttachment returns the promise that is there, and
\* the only failure that removes an entry is that of the entry's own promise.
THEOREM DownloadedOnce == AttachmentsSpec => []DownloadsOnce
<1>1. AttInv => DownloadsOnce
  BY DEF AttInv, LiveEntries, LiveDownload, DownloadsOnce
<1>2. QED
  BY <1>1, AttAlwaysInv, PTL

\* A recycled cell shows the file of its own message or none, and is never left loading with
\* no load of that file to answer: current() compares the file that the load was for.
THEOREM CellIsOwn == AttachmentsSpec => []CellShowsOwn
<1>1. AttInv => CellShowsOwn
  BY DEF AttInv, CellOwn, EffectDue, CellShowsOwn
<1>2. QED
  BY <1>1, AttAlwaysInv, PTL

-----------------------------------------------------------------------------
(* REACTIONS *)

\* What the replay holds after the events up to a time, from what it held before.
After(events, sender, held, ns) ==
    IF ns = 0 THEN NoEmoji
    ELSE LET now == {e \in events : e.sender = sender /\ e.ns = ns}
         IN  IF now = {} THEN held[ns - 1]
             ELSE Replayed(held[ns - 1], CHOOSE e \in now : TRUE)

IsReplay(events, sender, n, held) ==
    held = [ns \in 0..n |-> After(events, sender, held, ns)]

\* Among natural numbers there is a least one.
LEMMA Least ==
  ASSUME NEW S \in SUBSET Nat, S # {}
  PROVE  \E x \in S : \A y \in S : x <= y
<1> DEFINE R == OpToRel(<, Nat)
<1>1. PICK x \in S : \A y \in S : ~ (<<y, x>> \in R)
  <2>1. IsWellFoundedOn(R, Nat)
    BY NatLessThanWellFounded
  <2> HIDE DEF R
  <2>2. QED
    BY <2>1, WFMin
<1>2. \A y \in S : ~(y < x)
  BY <1>1 DEF OpToRel
<1>3. QED
  BY <1>2

LEMMA ReplayExists ==
  ASSUME NEW events, NEW sender, NEW n \in Nat
  PROVE  \E held : IsReplay(events, sender, n, held)
<1> DEFINE Bad == {k \in Nat : ~ \E held : IsReplay(events, sender, k, held)}
<1> SUFFICES ASSUME Bad # {} PROVE FALSE
  OBVIOUS
<1>1. PICK k \in Bad : \A j \in Bad : k <= j
  BY Least
<1>2. CASE k = 0
  <2>1. IsReplay(events, sender, 0, [ns \in 0..0 |-> NoEmoji])
    BY DEF IsReplay, After
  <2>2. QED
    BY <1>2, <2>1
<1>3. CASE k # 0
  <2>1. k - 1 \in Nat /\ k - 1 \notin Bad
    BY <1>1, <1>3
  <2>2. PICK held : IsReplay(events, sender, k - 1, held)
    BY <2>1
  <2> DEFINE next == [ns \in 0..k |-> IF ns = k THEN After(events, sender, held, k) ELSE held[ns]]
  <2>3. \A ns \in 0..(k - 1) : next[ns] = held[ns]
    BY <2>1
  <2>4. \A ns \in 0..k : After(events, sender, next, ns) = After(events, sender, held, ns)
    BY <2>1, <2>3, <1>3 DEF After
  <2>5. \A ns \in 0..(k - 1) : held[ns] = After(events, sender, held, ns)
    BY <2>2 DEF IsReplay
  <2>6. IsReplay(events, sender, k, next)
    <3>1. \A ns \in 0..k : next[ns] = After(events, sender, next, ns)
      BY <2>1, <2>4, <2>5
    <3>2. QED
      BY <3>1 DEF IsReplay
  <2>7. QED
    BY <2>6, <1>1
<1>4. QED
  BY <1>2, <1>3

LEMMA LiveIsReplay ==
  ASSUME reactClock \in Nat, NEW events, NEW sender
  PROVE  \E held : IsReplay(events, sender, reactClock, held) /\ Live(events, sender) = held[reactClock]
<1> DEFINE f == CHOOSE held : IsReplay(events, sender, reactClock, held)
<1>1. IsReplay(events, sender, reactClock, f)
  BY ReplayExists
<1>2. Live(events, sender) = f[reactClock]
  BY DEF Live, IsReplay, After
<1>3. QED
  BY <1>1, <1>2

-----------------------------------------------------------------------------
(* The replay, said without one *)

\* A log in which no two events of a sender have the same time, and none is later than the clock.
Log(events) ==
    /\ events \subseteq Event
    /\ \A e, f \in events : e.ns = f.ns => e = f
    /\ \A e \in events : e.ns <= reactClock

Until(events, n) == {e \in events : e.ns <= n}

\* One event later, the emoji that is held is what Holds says.
LEMMA ReplayStep ==
  ASSUME NEW events, Log(events), NEW sender, NEW n \in Nat, n # 0, NEW held,
         held[n - 1] \in Emoji \cup {NoEmoji},
         \A x \in Emoji : held[n - 1] = x <=> Holds(Until(events, n - 1), sender, x),
         held[n] = After(events, sender, held, n)
  PROVE  /\ held[n] \in Emoji \cup {NoEmoji}
         /\ \A x \in Emoji : held[n] = x <=> Holds(Until(events, n), sender, x)
<1>1. \A e \in events : e.ns \in Nat /\ e.emoji \in Emoji /\ e.added \in BOOLEAN
  BY DEF Log, Event, Time
<1>2. \A e \in events : e \in Until(events, n) <=> e \in Until(events, n - 1) \/ e.ns = n
  BY <1>1 DEF Until
<1>3. \A e \in Until(events, n - 1) : e \in events /\ e.ns < n
  BY <1>1 DEF Until
<1>4. CASE ~ \E e \in events : e.sender = sender /\ e.ns = n
  <2>1. held[n] = held[n - 1]
    BY <1>4 DEF After
  <2>2. \A x \in Emoji : Holds(Until(events, n - 1), sender, x) <=> Holds(Until(events, n), sender, x)
    BY <1>2, <1>3, <1>4 DEF Holds, Until
  <2>3. QED
    BY <2>1, <2>2
<1>5. ASSUME NEW e \in events, e.sender = sender, e.ns = n
      PROVE  /\ held[n] \in Emoji \cup {NoEmoji}
             /\ \A x \in Emoji : held[n] = x <=> Holds(Until(events, n), sender, x)
  <2>1. {f \in events : f.sender = sender /\ f.ns = n} = {e}
    BY <1>5 DEF Log
  <2>2. held[n] = Replayed(held[n - 1], e)
    BY <2>1 DEF After
  <2>3. e \in Until(events, n) /\ \A f \in Until(events, n) : f.ns > n - 1 => f = e
    BY <1>1, <1>5 DEF Log, Until
  <2>4. CASE e.added
    <3>1. held[n] = e.emoji
      BY <2>2, <2>4 DEF Replayed
    <3>2. \A x \in Emoji : Holds(Until(events, n), sender, x) <=> x = e.emoji
      <4>1. ASSUME NEW x \in Emoji, x = e.emoji PROVE Holds(Until(events, n), sender, x)
        BY <1>1, <1>5, <2>3, <2>4, <4>1 DEF Holds, Until
      <4>2. ASSUME NEW x \in Emoji, Holds(Until(events, n), sender, x) PROVE x = e.emoji
        <5>1. PICK f \in Until(events, n) :
                /\ f.sender = sender /\ f.added /\ f.emoji = x
                /\ \A later \in Until(events, n) :
                     later.sender = sender /\ later.ns > f.ns => ~later.added /\ later.emoji # x
          BY <4>2 DEF Holds
        <5>2. ~(e.ns > f.ns)
          BY <1>5, <2>3, <2>4, <5>1
        <5>3. f = e
          BY <1>1, <1>5, <5>2 DEF Log, Until
        <5>4. QED
          BY <5>1, <5>3
      <4>3. QED
        BY <4>1, <4>2
    <3>3. QED
      BY <1>1, <3>1, <3>2
  <2>5. CASE ~e.added
    <3>1. held[n] = IF held[n - 1] = e.emoji THEN NoEmoji ELSE held[n - 1]
      BY <2>2, <2>5 DEF Replayed
    <3>2. \A x \in Emoji : Holds(Until(events, n), sender, x)
                             <=> Holds(Until(events, n - 1), sender, x) /\ x # e.emoji
      <4>1. ASSUME NEW x \in Emoji, Holds(Until(events, n), sender, x)
            PROVE  Holds(Until(events, n - 1), sender, x) /\ x # e.emoji
        <5>1. PICK f \in Until(events, n) :
                /\ f.sender = sender /\ f.added /\ f.emoji = x
                /\ \A later \in Until(events, n) :
                     later.sender = sender /\ later.ns > f.ns => ~later.added /\ later.emoji # x
          BY <4>1 DEF Holds
        <5>2. f # e
          BY <2>5, <5>1
        <5>3. f \in Until(events, n - 1) /\ e.ns > f.ns
          BY <1>2, <1>3, <1>5, <2>3, <5>1, <5>2 DEF Until
        <5>4. \A later \in Until(events, n - 1) : later \in Until(events, n)
          BY <1>2, <1>3
        <5>5. QED
          BY <1>5, <2>3, <5>1, <5>3, <5>4 DEF Holds
      <4>2. ASSUME NEW x \in Emoji, Holds(Until(events, n - 1), sender, x), x # e.emoji
            PROVE  Holds(Until(events, n), sender, x)
        <5>1. PICK f \in Until(events, n - 1) :
                /\ f.sender = sender /\ f.added /\ f.emoji = x
                /\ \A later \in Until(events, n - 1) :
                     later.sender = sender /\ later.ns > f.ns => ~later.added /\ later.emoji # x
          BY <4>2 DEF Holds
        <5>2. f \in Until(events, n)
          BY <1>2, <1>3
        <5>3. \A later \in Until(events, n) : later = e \/ later \in Until(events, n - 1)
          BY <1>2, <1>3, <2>3 DEF Until
        <5>4. QED
          BY <2>5, <4>2, <5>1, <5>2, <5>3 DEF Holds
      <4>3. QED
        BY <4>1, <4>2
    <3>3. QED
      BY <3>1, <3>2, EmojiAssumption DEF EmojiAssumption
  <2>6. QED
    BY <2>4, <2>5
<1>6. QED
  BY <1>4, <1>5

\* After all events a sender holds what Holds says, whatever the log.
LEMMA LiveHolds ==
  ASSUME reactClock \in Nat, NEW events, Log(events), NEW sender
  PROVE  /\ Live(events, sender) \in Emoji \cup {NoEmoji}
         /\ \A x \in Emoji : Live(events, sender) = x <=> Holds(events, sender, x)
<1>1. PICK held : /\ IsReplay(events, sender, reactClock, held)
                  /\ Live(events, sender) = held[reactClock]
  BY LiveIsReplay
<1>2. \A n \in 0..reactClock : held[n] = After(events, sender, held, n)
  BY <1>1 DEF IsReplay
<1> DEFINE Right(n) == /\ held[n] \in Emoji \cup {NoEmoji}
                       /\ \A x \in Emoji : held[n] = x <=> Holds(Until(events, n), sender, x)
           Wrong == {n \in 0..reactClock : ~Right(n)}
<1>3. Wrong = {}
  <2> SUFFICES ASSUME Wrong # {} PROVE FALSE
    OBVIOUS
  <2>1. PICK n \in Wrong : \A m \in Wrong : n <= m
    <3>1. Wrong \in SUBSET Nat
      OBVIOUS
    <3>2. QED
      BY <3>1, Least
  <2>2. CASE n = 0
    <3>1. held[0] = NoEmoji
      BY <1>2 DEF After
    <3>2. Until(events, 0) = {}
      BY DEF Until, Log, Event, Time
    <3>3. \A x \in Emoji : ~Holds(Until(events, 0), sender, x)
      BY <3>2 DEF Holds
    <3>4. QED
      BY <2>1, <2>2, <3>1, <3>3, EmojiAssumption DEF EmojiAssumption
  <2>3. CASE n # 0
    <3>1. n - 1 \in 0..reactClock /\ n \in Nat
      BY <2>3
    <3>2. Right(n - 1)
      BY <2>1, <3>1
    <3>3. Right(n)
      BY <1>2, <2>3, <3>1, <3>2, ReplayStep
    <3>4. QED
      BY <3>3
  <2>4. QED
    BY <2>2, <2>3
<1>4. Right(reactClock)
  BY <1>3
<1>5. Until(events, reactClock) = events
  BY DEF Until, Log
<1>6. QED
  BY <1>1, <1>4, <1>5

-----------------------------------------------------------------------------
(* The inductive invariant *)

Plans == {<<>>} \cup (Step \X Step) \cup [1..1 -> Step]
TapState == [plan : Plans, sent : 0..1, base : Nat, prior : SUBSET Event,
             landed : SUBSET Event, alone : BOOLEAN]

\* A tap that is in flight has a step left to send; a replacement removes first.
TapOK(tap) ==
    /\ tap.plan = <<>> => tap = NoToggle
    /\ tap.plan # <<>> => tap.sent < Len(tap.plan)
    /\ Len(tap.plan) = 2 => ~tap.plan[1].added

TapsTyped ==
    /\ reactToggles \in [Toggle -> TapState]
    /\ \A t \in Toggle : TapOK(reactToggles[t])

Tapped(t) == reactToggles[t].plan # <<>>

\* The events that the tap put in the list for its plan.
Own(tap) == {At(Me, tap.plan[i], tap.base + i) : i \in 1..Len(tap.plan)}

\* What a tap in flight found and what it put there are in the list.
Intact(tap) ==
    /\ tap.prior \subseteq reactShown /\ Own(tap) \subseteq reactShown
    /\ Own(tap) \cap reactNetwork = {}
    /\ \A e \in tap.prior : e.ns <= tap.base
    /\ tap.base + Len(tap.plan) <= reactClock

\* Of two taps in flight the later one found what the earlier one left.
Before(one, two) ==
    /\ one.prior \subseteq two.prior /\ Own(one) \subseteq two.prior
    /\ one.base + Len(one.plan) <= two.base
Nested ==
    \A t, u \in Toggle : Tapped(t) /\ Tapped(u) /\ t # u =>
        Before(reactToggles[t], reactToggles[u]) \/ Before(reactToggles[u], reactToggles[t])

\* What landed of a tap in flight is its first step, later than the tap.
LandedOK(tap) ==
    \A e \in tap.landed :
        /\ e \in reactNetwork /\ e.sender = Me
        /\ e.emoji = tap.plan[1].emoji /\ e.added = tap.plan[1].added
        /\ tap.sent = 1 /\ e.ns > tap.base + Len(tap.plan)

\* Beside a tap that is alone none is in flight, and this inbox sent nothing else since.
AloneOK(t) ==
    Tapped(t) /\ reactToggles[t].alone =>
        /\ \A u \in Toggle : Tapped(u) => u = t
        /\ \A e \in reactNetwork :
               e.sender = Me /\ e.ns > reactToggles[t].base => e \in reactToggles[t].landed

\* A streamed event that is not in the list is a removal of this inbox's own, whose tap left
\* it in the list under an earlier time, with no addition of this inbox between the two; no
\* tap in flight will take that one away.
Spared(e, o) ==
    /\ o.sender = Me /\ ~o.added /\ o.emoji = e.emoji /\ o.ns < e.ns
    /\ \A k \in reactNetwork : k.sender = Me /\ o.ns < k.ns /\ k.ns < e.ns => ~k.added
    /\ \A t \in Toggle : Tapped(t) => o \in reactToggles[t].prior
EchoesKept ==
    \A e \in reactStreamed : 
        \/ e \in reactShown
        \/ e.sender = Me /\ ~e.added /\ \E o \in reactShown : Spared(e, o)

\* An event in the list that the network does not hold has a later copy there, or is a step
\* that a tap in flight has still to send.
Copy(e, n) == n.sender = Me /\ n.emoji = e.emoji /\ n.added = e.added /\ n.ns > e.ns
Unsent(e, tap) == \E i \in 1..Len(tap.plan) : i > tap.sent /\ e = At(Me, tap.plan[i], tap.base + i)
Answered ==
    \A e \in reactShown :
        \/ e \in reactNetwork
        \/ /\ e.sender = Me
           /\ \/ \E n \in reactNetwork : Copy(e, n)
              \/ \E t \in Toggle : Unsent(e, reactToggles[t])

Faithful ==
    /\ Log(reactNetwork \cup reactShown)
    /\ \A t \in Toggle : Tapped(t) => Intact(reactToggles[t])
    /\ \A t \in Toggle : LandedOK(reactToggles[t]) /\ AloneOK(t)
    /\ Nested /\ EchoesKept /\ Answered

ReactInv == ReactionsTypeOK /\ TapsTyped /\ (reactClobbered \/ Faithful)

-----------------------------------------------------------------------------
(* Plans *)

LEMMA PlanFacts ==
  ASSUME NEW plan \in Plans
  PROVE  /\ Len(plan) \in {0, 1, 2}
         /\ plan = <<>> <=> Len(plan) = 0
         /\ \A i \in 1..Len(plan) : plan[i] \in Step
<1>1. CASE plan = <<>>
  BY <1>1
<1>2. CASE plan \in Step \X Step
  <2>1. PICK a \in Step, b \in Step : plan = <<a, b>>
    BY <1>2
  <2>2. Len(plan) = 2 /\ plan[1] = a /\ plan[2] = b
    BY <2>1
  <2>3. QED
    BY <2>2
<1>3. CASE plan \in [1..1 -> Step]
  <2>1. Len(plan) = 1
    BY <1>3
  <2>2. QED
    BY <1>3, <2>1
<1>4. QED
  BY <1>1, <1>2, <1>3 DEF Plans

LEMMA LiveTyped ==
  ASSUME reactClock \in Nat, NEW events \in SUBSET Event, NEW sender
  PROVE  Live(events, sender) \in Emoji \cup {NoEmoji}
<1>1. PICK held : /\ IsReplay(events, sender, reactClock, held)
                  /\ Live(events, sender) = held[reactClock]
  BY LiveIsReplay
<1>2. \A n \in 0..reactClock : held[n] = After(events, sender, held, n)
  BY <1>1 DEF IsReplay
<1> DEFINE Wrong == {n \in 0..reactClock : held[n] \notin Emoji \cup {NoEmoji}}
<1>3. Wrong = {}
  <2> SUFFICES ASSUME Wrong # {} PROVE FALSE
    OBVIOUS
  <2>1. PICK n \in Wrong : \A m \in Wrong : n <= m
    <3>1. Wrong \in SUBSET Nat
      OBVIOUS
    <3>2. QED
      BY <3>1, Least
  <2>2. CASE n = 0
    BY <1>2, <2>1, <2>2 DEF After
  <2>3. CASE n # 0
    <3>1. n - 1 \in 0..reactClock /\ held[n - 1] \in Emoji \cup {NoEmoji}
      BY <2>1, <2>3
    <3> DEFINE now == {e \in events : e.sender = sender /\ e.ns = n}
    <3>2. now # {} => (CHOOSE e \in now : TRUE) \in Event
      OBVIOUS
    <3>3. held[n] \in Emoji \cup {NoEmoji}
      <4>1. CASE now = {}
        BY <1>2, <2>3, <3>1, <4>1 DEF After
      <4>2. CASE now # {}
        <5>1. held[n] = Replayed(held[n - 1], CHOOSE e \in now : TRUE)
          BY <1>2, <2>3, <4>2 DEF After
        <5>2. QED
          BY <3>1, <3>2, <4>2, <5>1 DEF Replayed, Event
      <4>3. QED
        BY <4>1, <4>2
    <3>4. QED
      BY <2>1, <3>3
  <2>4. QED
    BY <2>2, <2>3
<1>4. QED
  BY <1>1, <1>3

\* A plan has one step, or removes what is held before it adds.
LEMMA ReactionPlanOK ==
  ASSUME reactClock \in Nat, NEW events \in SUBSET Event, NEW emoji \in Emoji
  PROVE  /\ ReactionPlan(events, emoji) \in Plans /\ ReactionPlan(events, emoji) # <<>>
         /\ Len(ReactionPlan(events, emoji)) = 2 => ~ReactionPlan(events, emoji)[1].added
<1> DEFINE mine == Live(events, Me)
           Do(x, added) == [emoji |-> x, added |-> added]
           plan == ReactionPlan(events, emoji)
<1>1. mine \in Emoji \cup {NoEmoji}
  BY LiveTyped
<1>2. \A x \in Emoji, added \in BOOLEAN : Do(x, added) \in Step /\ <<Do(x, added)>> \in Plans
  BY DEF Step, Plans
<1>3. CASE mine = emoji
  BY <1>2, <1>3 DEF ReactionPlan
<1>4. CASE mine # emoji /\ mine = NoEmoji
  <2>1. plan = <<Do(emoji, TRUE)>>
    BY <1>4 DEF ReactionPlan
  <2>2. Len(plan) = 1
    BY <2>1
  <2>3. plan \in Plans
    BY <1>2, <2>1
  <2>4. plan # <<>>
    BY <2>2
  <2>5. QED
    BY <2>2, <2>3, <2>4
<1>5. CASE mine # emoji /\ mine # NoEmoji
  <2>1. plan = <<Do(mine, FALSE), Do(emoji, TRUE)>>
    BY <1>5 DEF ReactionPlan
  <2>2. Do(mine, FALSE) \in Step /\ Do(emoji, TRUE) \in Step
    BY <1>1, <1>2, <1>5
  <2>3. plan \in Step \X Step
    <3>1. \A a, b \in Step : <<a, b>> \in Step \X Step
      OBVIOUS
    <3> HIDE DEF Do, plan
    <3>2. QED
      BY <2>1, <2>2, <3>1
  <2>4. Len(plan) = 2 /\ plan[1] = Do(mine, FALSE)
    BY <2>1
  <2>5. ~Do(mine, FALSE).added
    OBVIOUS
  <2>6. plan # <<>>
    BY <2>4
  <2>7. QED
    BY <2>3, <2>4, <2>5, <2>6 DEF Plans
<1>6. QED
  BY <1>3, <1>4, <1>5

\* The events of a tap, one per step.
LEMMA OwnFacts ==
  ASSUME NEW tap \in TapState
  PROVE  /\ \A i \in 1..Len(tap.plan) :
                /\ At(Me, tap.plan[i], tap.base + i) \in Own(tap)
                /\ At(Me, tap.plan[i], tap.base + i) \in Event
                /\ At(Me, tap.plan[i], tap.base + i).ns = tap.base + i
         /\ Own(tap) \subseteq Event
         /\ \A e \in Own(tap) : /\ e.sender = Me
                                /\ e.ns > tap.base /\ e.ns <= tap.base + Len(tap.plan)
         /\ ApplyReactionPlan(tap.prior, tap.plan, Len(tap.plan), tap.base) = tap.prior \cup Own(tap)
<1>1. tap.base \in Nat /\ tap.plan \in Plans
  BY DEF TapState
<1>2. Len(tap.plan) \in {0, 1, 2} /\ \A i \in 1..Len(tap.plan) : tap.plan[i] \in Step
  BY <1>1, PlanFacts
<1>3. \A i \in 1..Len(tap.plan) :
         /\ At(Me, tap.plan[i], tap.base + i) \in Event
         /\ At(Me, tap.plan[i], tap.base + i).ns = tap.base + i
         /\ At(Me, tap.plan[i], tap.base + i).sender = Me
  BY <1>1, <1>2 DEF At, Event, Step, Time, Reactor
<1>4. QED
  BY <1>1, <1>2, <1>3 DEF Own, ApplyReactionPlan

-----------------------------------------------------------------------------
(* Types *)

LEMMA TapTypes ==
  ASSUME ReactInv, NEW t \in Toggle
  PROVE  /\ reactToggles[t] \in TapState /\ TapOK(reactToggles[t])
         /\ reactToggles[t] # NoToggle => Tapped(t)
         /\ reactToggles[t] = NoToggle => ~Tapped(t)
         /\ reactClock \in Nat
  BY DEF ReactInv, TapsTyped, TapOK, Tapped, NoToggle, ReactionsTypeOK

LEMMA NoToggleTyped ==
  /\ NoToggle \in TapState /\ TapOK(NoToggle)
  /\ [NoToggle EXCEPT !.alone = FALSE] = NoToggle
<1>1. NoToggle \in TapState
  BY DEF NoToggle, TapState, Plans
<1>2. TapOK(NoToggle)
  BY DEF NoToggle, TapOK
<1>3. [NoToggle EXCEPT !.alone = FALSE] = NoToggle
  <2> DEFINE tap == [NoToggle EXCEPT !.alone = FALSE]
  <2>1. tap \in TapState
    BY <1>1 DEF TapState
  <2>2. /\ tap.plan = NoToggle.plan /\ tap.sent = NoToggle.sent /\ tap.base = NoToggle.base
        /\ tap.prior = NoToggle.prior /\ tap.landed = NoToggle.landed
        /\ tap.alone = NoToggle.alone
    BY <1>1 DEF TapState, NoToggle
  <2> HIDE DEF tap
  <2>3. tap = NoToggle
    BY <1>1, <2>1, <2>2 DEF TapState
  <2>4. QED
    BY <2>3 DEF tap
<1>4. QED
  BY <1>1, <1>2, <1>3

\* The next event is one of this inbox's own, after all others.
LEMMA NextEventFacts ==
  ASSUME ReactInv, NEW t \in Toggle, Tapped(t)
  PROVE  /\ NextEvent(t) \in Event /\ NextEvent(t).sender = Me
         /\ NextEvent(t).ns = reactClock + 1
         /\ reactToggles[t].sent + 1 \in 1..Len(reactToggles[t].plan)
         /\ NextEvent(t).emoji = reactToggles[t].plan[reactToggles[t].sent + 1].emoji
         /\ NextEvent(t).added = reactToggles[t].plan[reactToggles[t].sent + 1].added
<1> DEFINE tap == reactToggles[t]
<1>1. tap \in TapState /\ TapOK(tap) /\ reactClock \in Nat
  BY TapTypes
<1>2. tap.plan \in Plans /\ tap.sent \in 0..1 /\ tap.sent < Len(tap.plan)
  BY <1>1 DEF TapState, TapOK, Tapped
<1>3. tap.sent + 1 \in 1..Len(tap.plan) /\ tap.plan[tap.sent + 1] \in Step
  BY <1>2, PlanFacts
<1>4. QED
  BY <1>1, <1>3 DEF NextEvent, At, Event, Step, Time, Reactor

LEMMA TypedFromTaps ==
  ASSUME TapsTyped, reactClock \in Nat,
         reactTaps \in 0..MaxTaps, reactPeerNews \in 0..MaxPeerNews,
         reactStreamed \subseteq reactNetwork, reactNetwork \subseteq Event,
         reactShown \subseteq Event, reactClobbered \in BOOLEAN
  PROVE  ReactionsTypeOK
  BY DEF TapsTyped, TapState, Plans, ReactionsTypeOK

-----------------------------------------------------------------------------
(* The steps *)

LEMMA ReactTypes ==
  ASSUME ReactInv
  PROVE  /\ reactClock \in Nat /\ reactTaps \in 0..MaxTaps /\ reactPeerNews \in 0..MaxPeerNews
         /\ reactStreamed \subseteq reactNetwork /\ reactNetwork \subseteq Event
         /\ reactShown \subseteq Event /\ reactClobbered \in BOOLEAN
         /\ reactToggles \in [Toggle -> TapState]
         /\ \A e \in Event : e.ns \in Nat /\ e.added \in BOOLEAN
  BY DEF ReactInv, ReactionsTypeOK, TapsTyped, Event, Time

\* A tap: what it finds, what it puts there, and what becomes of the other taps.
LEMMA TapEffect ==
  ASSUME ReactInv, NEW t \in Toggle, NEW emoji \in Emoji, ToggleReaction(t, emoji)
  PROVE  /\ ~Tapped(t)
         /\ TapsTyped'
         /\ Tapped(t)'
         /\ reactToggles'[t].sent = 0 /\ reactToggles'[t].base = reactClock
         /\ reactToggles'[t].prior = reactShown /\ reactToggles'[t].landed = {}
         /\ reactToggles'[t].alone = QuietThread
         /\ reactClock' = reactClock + Len(reactToggles'[t].plan)
         /\ reactShown' = reactShown \cup Own(reactToggles'[t])
         /\ reactNetwork' = reactNetwork /\ reactStreamed' = reactStreamed
         /\ \A u \in Toggle \ {t} :
                /\ reactToggles'[u].plan = reactToggles[u].plan
                /\ reactToggles'[u].sent = reactToggles[u].sent
                /\ reactToggles'[u].base = reactToggles[u].base
                /\ reactToggles'[u].prior = reactToggles[u].prior
                /\ reactToggles'[u].landed = reactToggles[u].landed
                /\ ~reactToggles'[u].alone
<1> DEFINE plan == ReactionPlan(reactShown, emoji)
           tap == [plan |-> plan, sent |-> 0, base |-> reactClock, prior |-> reactShown,
                   landed |-> {}, alone |-> QuietThread]
<1>1. /\ plan \in Plans /\ plan # <<>> /\ (Len(plan) = 2 => ~plan[1].added)
      /\ Len(plan) \in {1, 2}
  BY ReactTypes, ReactionPlanOK, PlanFacts
<1>2. /\ reactToggles' = [u \in Toggle |->
                            IF u = t THEN tap ELSE [reactToggles[u] EXCEPT !.alone = FALSE]]
      /\ reactShown' = ApplyReactionPlan(reactShown, plan, Len(plan), reactClock)
      /\ reactClock' = reactClock + Len(plan)
      /\ reactToggles[t] = NoToggle
      /\ reactNetwork' = reactNetwork /\ reactStreamed' = reactStreamed
  BY DEF ToggleReaction
<1> HIDE DEF plan
<1>3. tap \in TapState
  BY <1>1, ReactTypes DEF TapState, QuietThread
<1>4. TapOK(tap)
  BY <1>1 DEF TapOK
<1>5. reactToggles'[t] = tap
  BY <1>2
<1>6. ASSUME NEW u \in Toggle \ {t}
      PROVE  /\ reactToggles'[u] \in TapState /\ TapOK(reactToggles'[u])
             /\ reactToggles'[u].plan = reactToggles[u].plan
             /\ reactToggles'[u].sent = reactToggles[u].sent
             /\ reactToggles'[u].base = reactToggles[u].base
             /\ reactToggles'[u].prior = reactToggles[u].prior
             /\ reactToggles'[u].landed = reactToggles[u].landed
             /\ ~reactToggles'[u].alone
  <2>1. reactToggles'[u] = [reactToggles[u] EXCEPT !.alone = FALSE]
    BY <1>2
  <2>2. reactToggles[u] \in TapState /\ TapOK(reactToggles[u])
    BY TapTypes
  <2>3. /\ reactToggles'[u] \in TapState
        /\ reactToggles'[u].plan = reactToggles[u].plan
        /\ reactToggles'[u].sent = reactToggles[u].sent
        /\ reactToggles'[u].base = reactToggles[u].base
        /\ reactToggles'[u].prior = reactToggles[u].prior
        /\ reactToggles'[u].landed = reactToggles[u].landed
        /\ ~reactToggles'[u].alone
    BY <2>1, <2>2 DEF TapState
  <2>4. reactToggles[u] = NoToggle => reactToggles'[u] = NoToggle
    BY <2>1, NoToggleTyped
  <2>5. QED
    BY <2>2, <2>3, <2>4 DEF TapOK
<1>7. TapsTyped'
  BY <1>2, <1>3, <1>4, <1>5, <1>6 DEF TapsTyped
<1>8. reactShown' = reactShown \cup Own(tap)
  BY <1>2, <1>3, OwnFacts
<1>9. ~Tapped(t) /\ Tapped(t)'
  BY <1>1, <1>2, <1>5, TapTypes DEF Tapped
<1>10. QED
  BY <1>2, <1>5, <1>6, <1>7, <1>8, <1>9

LEMMA TapTyped ==
  ASSUME ReactInv, NEW t \in Toggle, NEW emoji \in Emoji, ToggleReaction(t, emoji)
  PROVE  ReactionsTypeOK' /\ TapsTyped'
<1>1. TapsTyped' /\ reactToggles'[t] \in TapState
  BY TapEffect DEF TapsTyped
<1>2. reactClock' \in Nat /\ reactShown' \subseteq Event
  BY <1>1, TapEffect, OwnFacts, ReactTypes, PlanFacts DEF TapState
<1>3. /\ reactTaps' \in 0..MaxTaps /\ reactPeerNews' \in 0..MaxPeerNews
      /\ reactStreamed' \subseteq reactNetwork' /\ reactNetwork' \subseteq Event
      /\ reactClobbered' \in BOOLEAN
  BY ReactTypes, MaxNewsAssumption DEF ToggleReaction, MaxNewsAssumption
<1>4. ReactionsTypeOK'
  BY <1>1, <1>2, <1>3 DEF TapsTyped, TapState, Plans, ReactionsTypeOK
<1>5. QED
  BY <1>1, <1>4

LEMMA TapFaithful ==
  ASSUME ReactInv, Faithful, NEW t \in Toggle, NEW emoji \in Emoji, ToggleReaction(t, emoji)
  PROVE  Faithful'
<1> DEFINE tap == reactToggles'[t]
           added == Own(tap)
<1>1. /\ tap \in TapState /\ tap.plan # <<>> /\ tap.sent = 0 /\ tap.base = reactClock
      /\ tap.prior = reactShown /\ tap.landed = {} /\ tap.alone = QuietThread
      /\ reactClock' = reactClock + Len(tap.plan) /\ reactShown' = reactShown \cup added
      /\ reactNetwork' = reactNetwork /\ reactStreamed' = reactStreamed
      /\ ~Tapped(t)
  BY TapEffect DEF TapsTyped, Tapped
<1>2. \A u \in Toggle \ {t} :
         /\ reactToggles'[u].plan = reactToggles[u].plan
         /\ reactToggles'[u].sent = reactToggles[u].sent
         /\ reactToggles'[u].base = reactToggles[u].base
         /\ reactToggles'[u].prior = reactToggles[u].prior
         /\ reactToggles'[u].landed = reactToggles[u].landed
         /\ ~reactToggles'[u].alone
  BY TapEffect
<1>3. Len(tap.plan) \in {1, 2} /\ reactClock \in Nat
  BY <1>1, PlanFacts, ReactTypes DEF TapState
<1>4. /\ added \subseteq Event
      /\ \A e \in added : e.sender = Me /\ e.ns > reactClock /\ e.ns <= reactClock'
  BY <1>1, OwnFacts
<1>5. \A u \in Toggle \ {t} : Own(reactToggles'[u]) = Own(reactToggles[u])
  BY <1>2 DEF Own
<1>6. Log(reactNetwork \cup reactShown) /\ \A e \in reactNetwork \cup reactShown : e.ns <= reactClock
  BY DEF Faithful, Log
<1>7. \A e \in Event : e.ns \in Nat
  BY ReactTypes
<1>8. Tapped(t)' /\ \A u \in Toggle \ {t} : Tapped(u)' <=> Tapped(u)
  BY <1>1, <1>2 DEF Tapped
<1> HIDE DEF tap, added
<1>9. Log(reactNetwork \cup reactShown)'
  <2>1. (reactNetwork \cup reactShown)' = (reactNetwork \cup reactShown) \cup added
    BY <1>1
  <2>2. \A e, f \in added : e.ns = f.ns => e = f
    <3>1. \A e \in added : \E i \in 1..Len(tap.plan) :
             e = At(Me, tap.plan[i], tap.base + i) /\ e.ns = tap.base + i
      BY DEF added, Own, At
    <3>2. QED
      BY <1>1, <1>3, <3>1
  <2>3. QED
    BY <1>1, <1>3, <1>4, <1>6, <1>7, <2>1, <2>2 DEF Log
<1>10. ASSUME NEW u \in Toggle, Tapped(u)' PROVE Intact(reactToggles[u])'
  <2>1. CASE u = t
    <3>1. added \cap reactNetwork = {}
      BY <1>3, <1>4, <1>6, <1>7
    <3>2. tap.base + Len(tap.plan) <= reactClock'
      BY <1>1, <1>3
    <3>3. QED
      BY <1>1, <1>6, <2>1, <3>1, <3>2 DEF Intact, added, tap
  <2>2. CASE u # t
    <3>1. Intact(reactToggles[u]) /\ reactToggles[u] \in TapState
      BY <1>8, <1>10, <2>2, TapTypes DEF Faithful
    <3>2. Len(reactToggles[u].plan) \in Nat /\ reactToggles[u].base \in Nat
      BY <3>1, PlanFacts DEF TapState
    <3>3. reactToggles[u].base + Len(reactToggles[u].plan) <= reactClock'
      BY <1>1, <1>3, <3>1, <3>2 DEF Intact
    <3>4. QED
      BY <1>1, <1>2, <1>5, <2>2, <3>1, <3>3 DEF Intact
  <2>3. QED
    BY <2>1, <2>2
<1>11. ASSUME NEW u \in Toggle PROVE LandedOK(reactToggles[u])' /\ AloneOK(u)'
  <2>1. CASE u = t
    <3>1. LandedOK(reactToggles[u])'
      BY <1>1, <2>1 DEF LandedOK, tap
    <3>2. CASE QuietThread
      <4>1. \A v \in Toggle : ~Tapped(v)
        BY <3>2 DEF QuietThread, Tapped, NoToggle
      <4>2. AloneOK(u)'
        BY <1>1, <1>3, <1>6, <1>7, <1>8, <2>1, <4>1, ReactTypes DEF AloneOK, tap
      <4>3. QED
        BY <3>1, <4>2
    <3>3. CASE ~QuietThread
      BY <1>1, <2>1, <3>1, <3>3 DEF AloneOK, tap
    <3>4. QED
      BY <3>2, <3>3
  <2>2. CASE u # t
    BY <1>1, <1>2, <2>2 DEF Faithful, LandedOK, AloneOK
  <2>3. QED
    BY <2>1, <2>2
<1>12. Nested'
  <2>1. ASSUME NEW u \in Toggle \ {t}, Tapped(u)
        PROVE  Before(reactToggles[u], reactToggles[t])'
    <3>1. Intact(reactToggles[u])
      BY <2>1 DEF Faithful
    <3>2. QED
      BY <1>1, <1>2, <1>5, <3>1 DEF Intact, Before, tap
  <2>2. ASSUME NEW u \in Toggle \ {t}, NEW v \in Toggle \ {t}, Tapped(u), Tapped(v), u # v
        PROVE  (Before(reactToggles[u], reactToggles[v]) \/ Before(reactToggles[v], reactToggles[u]))'
    BY <1>2, <1>5, <2>2 DEF Faithful, Nested, Before
  <2>3. QED
    BY <1>8, <2>1, <2>2 DEF Nested
<1>13. EchoesKept'
  <2> SUFFICES ASSUME NEW e \in reactStreamed, e \notin reactShown'
               PROVE  /\ e.sender = Me /\ ~e.added
                      /\ \E o \in reactShown' : Spared(e, o)'
    BY <1>1 DEF EchoesKept
  <2>1. e.sender = Me /\ ~e.added /\ \E o \in reactShown : Spared(e, o)
    BY <1>1 DEF Faithful, EchoesKept
  <2>2. PICK o \in reactShown : Spared(e, o)
    BY <2>1
  <2>3. Spared(e, o)'
    BY <1>1, <1>2, <1>8, <2>2 DEF Spared, tap
  <2>4. QED
    BY <1>1, <2>1, <2>2, <2>3
<1>14. Answered'
  <2>1. \A e \in added : \E i \in 1..Len(tap.plan) : e = At(Me, tap.plan[i], tap.base + i)
    BY DEF added, Own
  <2>2. \A e \in added : e.sender = Me /\ Unsent(e, tap)
    BY <1>1, <1>3, <1>4, <2>1 DEF Unsent
  <2>3. ASSUME NEW e, NEW u \in Toggle, Unsent(e, reactToggles[u]) PROVE Unsent(e, reactToggles[u])'
    <3>1. u # t
      BY <1>1, <2>3 DEF Unsent, Tapped
    <3>2. QED
      BY <1>2, <2>3, <3>1 DEF Unsent
  <2>4. QED
    BY <1>1, <2>2, <2>3 DEF Faithful, Answered, Copy, tap
<1>15. QED
  BY <1>9, <1>10, <1>11, <1>12, <1>13, <1>14 DEF Faithful

\* An event that the network takes is later than all others.
LEMMA StoredKeeps ==
  ASSUME ReactInv, Faithful, NEW e \in Event, e.ns = reactClock + 1,
         reactNetwork' = reactNetwork \cup {e}, reactClock' = reactClock + 1,
         reactStreamed' = reactStreamed, reactShown' = reactShown
  PROVE  /\ Log(reactNetwork \cup reactShown)'
         /\ e \notin reactShown /\ e \notin reactNetwork
         /\ \A u \in Toggle : Tapped(u) /\ reactToggles'[u].plan = reactToggles[u].plan
               /\ reactToggles'[u].base = reactToggles[u].base
               /\ reactToggles'[u].prior = reactToggles[u].prior
                  => Intact(reactToggles[u])' /\ e.ns > reactToggles[u].base + Len(reactToggles[u].plan)
         /\ (\A u \in Toggle : Tapped(u)' => Tapped(u) /\ reactToggles'[u].prior = reactToggles[u].prior)
               => EchoesKept'
<1>1. /\ Log(reactNetwork \cup reactShown) /\ reactClock \in Nat
      /\ \A f \in reactNetwork \cup reactShown : f \in Event /\ f.ns \in Nat /\ f.ns <= reactClock
  BY ReactTypes DEF Faithful, Log
<1>2. Log(reactNetwork \cup reactShown)'
  BY <1>1 DEF Log
<1>3. e \notin reactShown /\ e \notin reactNetwork
  BY <1>1
<1>4. ASSUME NEW u \in Toggle, Tapped(u), reactToggles'[u].plan = reactToggles[u].plan,
             reactToggles'[u].base = reactToggles[u].base,
             reactToggles'[u].prior = reactToggles[u].prior
      PROVE  Intact(reactToggles[u])' /\ e.ns > reactToggles[u].base + Len(reactToggles[u].plan)
  <2>1. Intact(reactToggles[u]) /\ reactToggles[u] \in TapState
    BY <1>4, TapTypes DEF Faithful
  <2>2. Len(reactToggles[u].plan) \in Nat /\ reactToggles[u].base \in Nat
    BY <2>1, PlanFacts DEF TapState
  <2>3. reactToggles[u].base + Len(reactToggles[u].plan) <= reactClock
    BY <2>1 DEF Intact
  <2>4. Own(reactToggles'[u]) = Own(reactToggles[u])
    BY <1>4 DEF Own
  <2>5. Own(reactToggles[u]) \cap (reactNetwork \cup {e}) = {}
    BY <1>3, <2>1 DEF Intact
  <2>6. /\ reactToggles[u].base + Len(reactToggles[u].plan) <= reactClock + 1
        /\ e.ns > reactToggles[u].base + Len(reactToggles[u].plan)
    BY <1>1, <2>2, <2>3
  <2>7. QED
    BY <1>4, <2>1, <2>4, <2>5, <2>6 DEF Intact
<1>5. ASSUME \A u \in Toggle : Tapped(u)' => Tapped(u) /\ reactToggles'[u].prior = reactToggles[u].prior
      PROVE  EchoesKept'
  <2> SUFFICES ASSUME NEW k \in reactStreamed, k \notin reactShown
               PROVE  /\ k.sender = Me /\ ~k.added
                      /\ \E o \in reactShown : Spared(k, o)'
    BY DEF EchoesKept
  <2>1. k.sender = Me /\ ~k.added /\ \E o \in reactShown : Spared(k, o)
    BY DEF Faithful, EchoesKept
  <2>2. PICK o \in reactShown : Spared(k, o)
    BY <2>1
  <2>3. ~(e.ns < k.ns)
    BY <1>1, ReactTypes
  <2>4. Spared(k, o)'
    BY <1>5, <2>2, <2>3 DEF Spared
  <2>5. QED
    BY <2>1, <2>4
<1>6. QED
  BY <1>2, <1>3, <1>4, <1>5

LEMMA SentEffect ==
  ASSUME ReactInv, NEW t \in Toggle, StepSent(t)
  PROVE  /\ Tapped(t) /\ TapsTyped'
         /\ \A u \in Toggle \ {t} : reactToggles'[u] = reactToggles[u]
         /\ \/ reactToggles'[t] = NoToggle /\ reactToggles[t].sent + 1 = Len(reactToggles[t].plan)
            \/ /\ reactToggles'[t].plan = reactToggles[t].plan
               /\ reactToggles[t].sent = 0 /\ reactToggles'[t].sent = 1
               /\ reactToggles'[t].base = reactToggles[t].base
               /\ reactToggles'[t].prior = reactToggles[t].prior
               /\ reactToggles'[t].alone = reactToggles[t].alone
               /\ reactToggles'[t].landed = reactToggles[t].landed \cup {NextEvent(t)}
<1> DEFINE tap == reactToggles[t]
<1>1. tap \in TapState /\ TapOK(tap) /\ Tapped(t) /\ reactToggles \in [Toggle -> TapState]
  BY TapTypes, ReactTypes DEF StepSent
<1>2. Len(tap.plan) \in {1, 2} /\ tap.sent \in 0..1 /\ tap.sent < Len(tap.plan)
  BY <1>1, PlanFacts DEF TapState, TapOK, Tapped
<1> DEFINE next == IF tap.sent + 1 = Len(tap.plan) THEN NoToggle
                   ELSE [tap EXCEPT !.sent = tap.sent + 1,
                                    !.landed = tap.landed \cup {NextEvent(t)}]
<1>3. reactToggles' = [reactToggles EXCEPT ![t] = next]
  BY DEF StepSent
<1> HIDE DEF next
<1>7. /\ \A u \in Toggle \ {t} : reactToggles'[u] = reactToggles[u]
      /\ reactToggles'[t] = next
      /\ DOMAIN reactToggles' = Toggle /\ reactToggles' = [u \in Toggle |-> reactToggles'[u]]
  BY <1>1, <1>3
<1> USE DEF next
<1> HIDE DEF tap
<1>4. CASE tap.sent + 1 = Len(tap.plan)
  <2>1. reactToggles'[t] = NoToggle
    BY <1>7, <1>4
  <2>2. \A u \in Toggle : reactToggles'[u] \in TapState /\ TapOK(reactToggles'[u])
    BY <1>7, <2>1, NoToggleTyped, TapTypes
  <2>3. QED
    BY <1>1, <1>7, <1>4, <2>1, <2>2 DEF TapsTyped, tap
<1>5. CASE tap.sent + 1 # Len(tap.plan)
  <2>1. tap.sent = 0 /\ Len(tap.plan) = 2
    <3>1. \A a \in 0..1, b \in {1, 2} : a < b /\ a + 1 # b => a = 0 /\ b = 2
      OBVIOUS
    <3>2. QED
      BY <1>2, <1>5, <3>1
  <2>2. reactToggles'[t] = [tap EXCEPT !.sent = 1, !.landed = tap.landed \cup {NextEvent(t)}]
    BY <1>7, <1>5, <2>1
  <2>3. NextEvent(t) \in Event
    BY <1>1, NextEventFacts
  <2>4. /\ reactToggles'[t] \in TapState
        /\ reactToggles'[t].plan = tap.plan /\ reactToggles'[t].sent = 1
        /\ reactToggles'[t].base = tap.base /\ reactToggles'[t].prior = tap.prior
        /\ reactToggles'[t].alone = tap.alone
        /\ reactToggles'[t].landed = tap.landed \cup {NextEvent(t)}
    <3> DEFINE mid == [tap EXCEPT !.sent = 1]
    <3>1. /\ mid \in TapState /\ mid.plan = tap.plan /\ mid.sent = 1 /\ mid.base = tap.base
          /\ mid.prior = tap.prior /\ mid.alone = tap.alone
      BY <1>1 DEF TapState
    <3>2. tap.landed \cup {NextEvent(t)} \in SUBSET Event
      BY <1>1, <2>3 DEF TapState
    <3>3. reactToggles'[t] = [mid EXCEPT !.landed = tap.landed \cup {NextEvent(t)}]
      BY <2>2
    <3> HIDE DEF mid
    <3>4. QED
      BY <3>1, <3>2, <3>3 DEF TapState
  <2>5. TapOK(reactToggles'[t])
    <3>1. tap.plan # <<>> /\ ~tap.plan[1].added
      BY <1>1, <2>1 DEF TapOK, Tapped, tap
    <3>2. reactToggles'[t].plan = tap.plan /\ reactToggles'[t].sent = 1
      BY <2>4
    <3>3. 1 < Len(tap.plan)
      BY <2>1
    <3>4. QED
      BY <3>1, <3>2, <3>3 DEF TapOK
  <2>6. \A u \in Toggle : reactToggles'[u] \in TapState /\ TapOK(reactToggles'[u])
    BY <1>7, <2>4, <2>5, TapTypes
  <2>7. QED
    BY <1>1, <1>7, <2>1, <2>4, <2>6 DEF TapsTyped, tap
<1>6. QED
  BY <1>4, <1>5

LEMMA SentStep ==
  ASSUME ReactInv, NEW t \in Toggle, StepSent(t)
  PROVE  ReactInv'
<1> DEFINE e == NextEvent(t)
           tap == reactToggles[t]
<1>1. /\ Tapped(t) /\ TapsTyped'
      /\ \A u \in Toggle \ {t} : reactToggles'[u] = reactToggles[u]
  BY SentEffect
<1>2. \/ reactToggles'[t] = NoToggle /\ tap.sent + 1 = Len(tap.plan)
      \/ /\ reactToggles'[t].plan = tap.plan
         /\ tap.sent = 0 /\ reactToggles'[t].sent = 1
         /\ reactToggles'[t].base = tap.base /\ reactToggles'[t].prior = tap.prior
         /\ reactToggles'[t].alone = tap.alone
         /\ reactToggles'[t].landed = tap.landed \cup {e}
  BY SentEffect
<1>3. /\ e \in Event /\ e.sender = Me /\ e.ns = reactClock + 1
      /\ tap.sent + 1 \in 1..Len(tap.plan)
      /\ e.emoji = tap.plan[tap.sent + 1].emoji /\ e.added = tap.plan[tap.sent + 1].added
  BY <1>1, NextEventFacts
<1>4. /\ reactNetwork' = reactNetwork \cup {e} /\ reactClock' = reactClock + 1
      /\ reactTaps' = reactTaps /\ reactPeerNews' = reactPeerNews
      /\ reactStreamed' = reactStreamed /\ reactShown' = reactShown
      /\ reactClobbered' = reactClobbered
  BY DEF StepSent, Stored
<1>5. tap \in TapState /\ TapOK(tap) /\ tap.sent \in 0..1 /\ Len(tap.plan) \in {1, 2} /\ tap.base \in Nat
  BY <1>1, TapTypes, PlanFacts DEF TapState, Tapped
<1> HIDE DEF e, tap
<1>6. ReactionsTypeOK'
  <2>1. reactToggles' \in [Toggle -> TapState]
    BY <1>1 DEF TapsTyped
  <2>2. QED
    BY <1>3, <1>4, <2>1, ReactTypes DEF ReactionsTypeOK, TapState, Plans
<1>7. ASSUME Faithful PROVE Faithful'
  <2>1. \A u \in Toggle : Tapped(u)' =>
           /\ Tapped(u)
           /\ reactToggles'[u].plan = reactToggles[u].plan
           /\ reactToggles'[u].base = reactToggles[u].base
           /\ reactToggles'[u].prior = reactToggles[u].prior
           /\ reactToggles'[u].alone = reactToggles[u].alone
           /\ u = t => reactToggles'[t].sent = 1 /\ tap.sent = 0
    BY <1>1, <1>2 DEF Tapped, NoToggle, tap
  <2>2. /\ Log(reactNetwork \cup reactShown)'
        /\ e \notin reactShown
        /\ \A u \in Toggle : Tapped(u)' => Intact(reactToggles[u])'
        /\ EchoesKept'
        /\ \A u \in Toggle : Tapped(u)' => e.ns > reactToggles[u].base + Len(reactToggles[u].plan)
    BY <1>3, <1>4, <1>7, <2>1, StoredKeeps
  <2>3. Nested'
    <3>1. \A u \in Toggle : Tapped(u)' => Own(reactToggles'[u]) = Own(reactToggles[u])
      BY <2>1 DEF Own
    <3>2. QED
      BY <1>7, <2>1, <3>1 DEF Faithful, Nested, Before
  <2>4. ASSUME NEW u \in Toggle PROVE LandedOK(reactToggles[u])'
    <3>1. LandedOK(reactToggles[u])
      BY <1>7 DEF Faithful
    <3>2. CASE u # t
      BY <1>1, <1>4, <3>1, <3>2 DEF LandedOK
    <3>3. CASE u = t /\ reactToggles'[t] = NoToggle
      BY <3>3 DEF LandedOK, NoToggle
    <3>4. CASE u = t /\ reactToggles'[t] # NoToggle
      <4>1. /\ reactToggles'[t].plan = tap.plan
            /\ tap.sent = 0 /\ reactToggles'[t].sent = 1
            /\ reactToggles'[t].base = tap.base
            /\ reactToggles'[t].landed = tap.landed \cup {e}
        BY <1>2, <3>4
      <4>2. Tapped(t)'
        BY <1>1, <4>1 DEF Tapped, tap
      <4>3. /\ e.emoji = tap.plan[1].emoji /\ e.added = tap.plan[1].added
            /\ e.ns > tap.base + Len(tap.plan)
        BY <1>3, <2>1, <2>2, <4>1, <4>2 DEF tap
      <4>4. tap.landed = {}
        BY <3>1, <3>4, <4>1 DEF LandedOK, tap
      <4>5. QED
        BY <1>3, <1>4, <3>4, <4>1, <4>3, <4>4 DEF LandedOK
    <3>5. QED
      BY <3>2, <3>3, <3>4
  <2>5. ASSUME NEW u \in Toggle PROVE AloneOK(u)'
    <3> SUFFICES ASSUME Tapped(u)', reactToggles'[u].alone
                 PROVE  /\ \A v \in Toggle : Tapped(v)' => v = u
                        /\ \A k \in reactNetwork' : k.sender = Me /\ k.ns > reactToggles'[u].base
                              => k \in reactToggles'[u].landed
      BY DEF AloneOK
    <3>1. Tapped(u) /\ reactToggles[u].alone
      BY <2>1
    <3>2. /\ \A v \in Toggle : Tapped(v) => v = u
          /\ \A k \in reactNetwork : k.sender = Me /\ k.ns > reactToggles[u].base
                                       => k \in reactToggles[u].landed
      BY <1>7, <3>1 DEF Faithful, AloneOK
    <3>3. u = t
      BY <1>1, <3>2
    <3>4. reactToggles'[t].landed = tap.landed \cup {e}
      BY <1>2, <3>3 DEF Tapped, NoToggle
    <3>5. QED
      BY <1>4, <2>1, <3>2, <3>3, <3>4 DEF tap
  <2>6. Answered'
    <3> SUFFICES ASSUME NEW k \in reactShown, k \notin reactNetwork'
                 PROVE  /\ k.sender = Me
                        /\ \/ \E n \in reactNetwork' : Copy(k, n)
                           \/ \E u \in Toggle : Unsent(k, reactToggles[u])'
      BY <1>4 DEF Answered
    <3>1. /\ k.sender = Me
          /\ \/ \E n \in reactNetwork : Copy(k, n)
             \/ \E u \in Toggle : Unsent(k, reactToggles[u])
      BY <1>4, <1>7 DEF Faithful, Answered
    <3>2. CASE \E n \in reactNetwork : Copy(k, n)
      BY <1>4, <3>1, <3>2
    <3>3. ASSUME NEW u \in Toggle, Unsent(k, reactToggles[u]), u # t
          PROVE  Unsent(k, reactToggles[u])'
      BY <1>1, <3>3 DEF Unsent
    <3>4. ASSUME NEW i \in 1..Len(tap.plan), i > tap.sent, k = At(Me, tap.plan[i], tap.base + i)
          PROVE  Copy(k, e) \/ Unsent(k, reactToggles[t])'
      <4>1. CASE i = tap.sent + 1
        <5>1. k.emoji = e.emoji /\ k.added = e.added /\ k.ns = tap.base + i
          BY <1>3, <3>4, <4>1 DEF At
        <5>2. Log(reactNetwork \cup reactShown) /\ k.ns <= reactClock /\ k \in Event
          BY <1>7, ReactTypes DEF Faithful, Log
        <5>3. e.ns > k.ns
          BY <1>3, <5>2, ReactTypes
        <5>4. QED
          BY <1>3, <5>1, <5>3 DEF Copy
      <4>2. CASE i # tap.sent + 1
        <5>1. tap.sent = 0 /\ i = 2 /\ Len(tap.plan) = 2
          BY <1>5, <3>4, <4>2
        <5>2. /\ reactToggles'[t].plan = tap.plan /\ reactToggles'[t].sent = 1
              /\ reactToggles'[t].base = tap.base
          BY <1>2, <5>1
        <5>3. QED
          BY <3>4, <5>1, <5>2 DEF Unsent
      <4>3. QED
        BY <4>1, <4>2
    <3>5. QED
      BY <1>4, <3>1, <3>2, <3>3, <3>4 DEF Unsent, tap
  <2>7. QED
    BY <2>2, <2>3, <2>4, <2>5, <2>6 DEF Faithful
<1>8. QED
  BY <1>1, <1>4, <1>6, <1>7 DEF ReactInv

\* A tap that fails ends, and the list is what it found and the steps that landed.
LEMMA FailEffect ==
  ASSUME ReactInv, NEW t \in Toggle, StepFails(t)
  PROVE  /\ Tapped(t) /\ TapsTyped'
         /\ reactToggles'[t] = NoToggle
         /\ \A u \in Toggle \ {t} : reactToggles'[u] = reactToggles[u]
         /\ reactStreamed' = reactStreamed
         /\ reactShown' = reactToggles[t].prior \cup
                {At(Me, reactToggles[t].plan[i], reactToggles[t].base + i) : i \in 1..reactToggles[t].sent}
         /\ \/ /\ reactNetwork' = reactNetwork \cup {NextEvent(t)}
               /\ reactClock' = reactClock + 1
            \/ reactNetwork' = reactNetwork /\ reactClock' = reactClock
         /\ reactClobbered' = (reactClobbered \/ Lost(t) # {})
         /\ Lost(t) = reactShown \ ((reactToggles[t].prior \cup Own(reactToggles[t]))
                        \cup IF reactToggles[t].alone THEN reactToggles[t].landed ELSE {})
         /\ ReactionsTypeOK'
<1> DEFINE tap == reactToggles[t]
<1>1. tap \in TapState /\ TapOK(tap) /\ Tapped(t) /\ reactToggles \in [Toggle -> TapState]
  BY TapTypes, ReactTypes DEF StepFails
<1>2. reactToggles' = [reactToggles EXCEPT ![t] = NoToggle]
  BY DEF StepFails
<1>3. /\ reactToggles'[t] = NoToggle
      /\ \A u \in Toggle \ {t} : reactToggles'[u] = reactToggles[u]
      /\ reactToggles' \in [Toggle -> TapState]
  BY <1>1, <1>2, NoToggleTyped
<1>4. \A u \in Toggle : TapOK(reactToggles'[u])
  BY <1>3, NoToggleTyped, TapTypes
<1>5. TapsTyped'
  BY <1>3, <1>4 DEF TapsTyped
<1>6. reactShown' = tap.prior \cup {At(Me, tap.plan[i], tap.base + i) : i \in 1..tap.sent}
  BY DEF StepFails, ApplyReactionPlan
<1>7. /\ reactStreamed' = reactStreamed
      /\ \/ reactNetwork' = reactNetwork \cup {NextEvent(t)} /\ reactClock' = reactClock + 1
         \/ reactNetwork' = reactNetwork /\ reactClock' = reactClock
      /\ reactClobbered' = (reactClobbered \/ Lost(t) # {})
      /\ reactTaps' = reactTaps /\ reactPeerNews' = reactPeerNews
  BY DEF StepFails, Stored
<1>8. Lost(t) = reactShown \ ((tap.prior \cup Own(tap)) \cup IF tap.alone THEN tap.landed ELSE {})
  BY <1>1, OwnFacts DEF Lost
<1>9. reactShown' \subseteq Event
  <2>1. tap.sent \in 0..1 /\ tap.sent < Len(tap.plan) /\ Len(tap.plan) \in {1, 2} /\ tap.prior \subseteq Event
    BY <1>1, PlanFacts DEF TapState, TapOK, Tapped
  <2>2. \A i \in 1..tap.sent : i \in 1..Len(tap.plan)
    BY <2>1
  <2>3. QED
    BY <1>1, <1>6, <2>1, <2>2, OwnFacts
<1>10. ReactionsTypeOK'
  <2>1. NextEvent(t) \in Event
    BY <1>1, NextEventFacts
  <2>2. /\ reactClock' \in Nat /\ reactNetwork' \subseteq Event
        /\ reactStreamed' \subseteq reactNetwork'
        /\ reactTaps' \in 0..MaxTaps /\ reactPeerNews' \in 0..MaxPeerNews
        /\ reactClobbered' \in BOOLEAN
    BY <1>7, <2>1, ReactTypes
  <2>3. QED
    BY <1>3, <1>9, <2>2 DEF ReactionsTypeOK, TapState, Plans
<1>11. QED
  BY <1>1, <1>3, <1>5, <1>6, <1>7, <1>8, <1>10

LEMMA FailFaithful ==
  ASSUME ReactInv, Faithful, NEW t \in Toggle, StepFails(t), Lost(t) = {}
  PROVE  Faithful'
<1> DEFINE tap == reactToggles[t]
           landed == IF tap.alone THEN tap.landed ELSE {}
           applied == {At(Me, tap.plan[i], tap.base + i) : i \in 1..tap.sent}
<1>1. /\ Tapped(t) /\ TapsTyped' /\ reactToggles'[t] = NoToggle
      /\ \A u \in Toggle \ {t} : reactToggles'[u] = reactToggles[u]
      /\ reactStreamed' = reactStreamed /\ reactShown' = tap.prior \cup applied
      /\ \/ reactNetwork' = reactNetwork \cup {NextEvent(t)} /\ reactClock' = reactClock + 1
         \/ reactNetwork' = reactNetwork /\ reactClock' = reactClock
      /\ reactShown \subseteq (tap.prior \cup Own(tap)) \cup landed
  BY FailEffect
<1>2. tap \in TapState /\ TapOK(tap)
  BY TapTypes
<1>3. /\ tap.sent \in 0..1 /\ tap.sent < Len(tap.plan) /\ Len(tap.plan) \in {1, 2}
      /\ tap.base \in Nat /\ tap.prior \subseteq Event
  BY <1>1, <1>2, PlanFacts DEF TapState, TapOK, Tapped
<1>4. /\ Intact(tap) /\ LandedOK(tap)
      /\ Log(reactNetwork \cup reactShown)
      /\ \A e \in reactNetwork \cup reactShown : e \in Event /\ e.ns \in Nat /\ e.ns <= reactClock
  BY <1>1, ReactTypes DEF Faithful, Log
<1>5. /\ \A e \in Own(tap) : e.sender = Me /\ e.ns > tap.base /\ e.ns <= tap.base + Len(tap.plan)
      /\ Own(tap) \subseteq Event
      /\ \A i \in 1..Len(tap.plan) :
             /\ At(Me, tap.plan[i], tap.base + i) \in Own(tap)
             /\ At(Me, tap.plan[i], tap.base + i).ns = tap.base + i
  BY <1>2, OwnFacts
<1>6. /\ NextEvent(t) \in Event /\ NextEvent(t).sender = Me /\ NextEvent(t).ns = reactClock + 1
      /\ reactClock \in Nat
  BY <1>1, NextEventFacts, ReactTypes
<1>7. \A i \in 1..tap.sent : i \in 1..Len(tap.plan)
  BY <1>3
<1>8. applied \subseteq Own(tap)
  BY <1>5, <1>7
<1>9. reactShown' \subseteq reactShown
  BY <1>1, <1>4, <1>8 DEF Intact
\* The taps in flight beside it are earlier ones.
<1>10. ASSUME NEW u \in Toggle \ {t}, Tapped(u)
       PROVE  /\ Before(reactToggles[u], tap) /\ Intact(reactToggles[u])
              /\ reactToggles[u] \in TapState
  <2>1. Intact(reactToggles[u]) /\ reactToggles[u] \in TapState
    BY <1>10, TapTypes DEF Faithful
  <2>2. Before(reactToggles[u], tap) \/ Before(tap, reactToggles[u])
    BY <1>1, <1>10 DEF Faithful, Nested
  <2>3. ASSUME Before(tap, reactToggles[u]) PROVE FALSE
    <3> DEFINE later == reactToggles[u]
               first == At(Me, later.plan[1], later.base + 1)
    <3>1. later.plan \in Plans /\ later.plan # <<>> /\ later.base \in Nat
      BY <1>10, <2>1 DEF Tapped, TapState
    <3>2. Len(later.plan) \in {1, 2}
      BY <3>1, PlanFacts
    <3>3. first \in Own(later) /\ first.ns = later.base + 1
      BY <2>1, <3>2, OwnFacts
    <3>4. first \in reactShown /\ first \notin reactNetwork
      BY <2>1, <3>3 DEF Intact
    <3>5. tap.base + Len(tap.plan) <= later.base
      BY <2>3 DEF Before
    <3>6. first \notin tap.prior
      BY <1>3, <1>4, <3>1, <3>3, <3>5 DEF Intact
    <3>7. first \notin Own(tap)
      BY <1>3, <1>5, <3>1, <3>3, <3>5
    <3>8. first \notin landed
      BY <1>4, <3>4 DEF LandedOK
    <3>9. QED
      BY <1>1, <3>4, <3>6, <3>7, <3>8
  <2>4. QED
    BY <2>1, <2>2, <2>3
<1> HIDE DEF tap, landed, applied
<1>11. \A u \in Toggle : Tapped(u)' => u # t /\ Tapped(u) /\ reactToggles'[u] = reactToggles[u]
  BY <1>1 DEF Tapped, NoToggle
<1>12. Log(reactNetwork \cup reactShown)'
  BY <1>1, <1>4, <1>6, <1>9 DEF Log
<1>13. ASSUME NEW u \in Toggle, Tapped(u)' PROVE Intact(reactToggles[u])'
  <2>1. u # t /\ Tapped(u) /\ reactToggles'[u] = reactToggles[u]
    BY <1>11, <1>13
  <2>2. Before(reactToggles[u], tap) /\ Intact(reactToggles[u]) /\ reactToggles[u] \in TapState
    BY <1>10, <2>1
  <2>3. Len(reactToggles[u].plan) \in Nat /\ reactToggles[u].base \in Nat
    BY <2>2, PlanFacts DEF TapState
  <2>4. reactToggles[u].base + Len(reactToggles[u].plan) <= reactClock'
    BY <1>1, <1>6, <2>2, <2>3 DEF Intact
  <2>5. Own(reactToggles[u]) \cap reactNetwork' = {}
    BY <1>1, <1>4, <1>6, <2>2 DEF Intact
  <2>6. QED
    BY <1>1, <2>1, <2>2, <2>4, <2>5 DEF Intact, Before
<1>14. ASSUME NEW u \in Toggle PROVE LandedOK(reactToggles[u])' /\ AloneOK(u)'
  <2>1. LandedOK(reactToggles[u])'
    <3>1. CASE u = t
      BY <1>1, <3>1 DEF LandedOK, NoToggle
    <3>2. CASE u # t
      BY <1>1, <3>2 DEF Faithful, LandedOK
    <3>3. QED
      BY <3>1, <3>2
  <2>2. AloneOK(u)'
    <3> SUFFICES ASSUME Tapped(u)', reactToggles'[u].alone PROVE FALSE
      BY DEF AloneOK
    <3>1. u # t /\ Tapped(u) /\ reactToggles[u].alone
      BY <1>11
    <3>2. QED
      BY <1>1, <3>1 DEF Faithful, AloneOK
  <2>3. QED
    BY <2>1, <2>2
<1>15. Nested'
  BY <1>11 DEF Faithful, Nested
<1>16. EchoesKept'
  <2> SUFFICES ASSUME NEW e \in reactStreamed, e \notin reactShown'
               PROVE  /\ e.sender = Me /\ ~e.added /\ \E o \in reactShown' : Spared(e, o)'
    BY <1>1 DEF EchoesKept
  <2>1. e \in reactNetwork /\ e \in Event
    BY ReactTypes
  <2>2. CASE e \notin reactShown
    <3>1. PICK o \in reactShown : e.sender = Me /\ ~e.added /\ Spared(e, o)
      BY <2>2 DEF Faithful, EchoesKept
    <3>2. o \in tap.prior
      BY <1>1, <3>1 DEF Spared, tap
    <3>3. \A k \in reactNetwork' : k \in reactNetwork \/ ~(k.ns < e.ns)
      BY <1>1, <1>4, <1>6, <2>1
    <3>4. Spared(e, o)'
      BY <1>11, <3>1, <3>3 DEF Spared
    <3>5. QED
      BY <1>1, <3>1, <3>2, <3>4
  <2>3. CASE e \in reactShown
    <3>1. e \in landed
      BY <1>1, <1>4, <2>1, <2>3 DEF Intact
    <3>2. tap.alone /\ e \in tap.landed
      BY <3>1 DEF landed
    <3>3. /\ e.sender = Me /\ tap.sent = 1 /\ e.emoji = tap.plan[1].emoji
          /\ e.added = tap.plan[1].added /\ e.ns > tap.base + Len(tap.plan)
      BY <1>4, <3>2 DEF LandedOK
    <3>4. Len(tap.plan) = 2 /\ ~tap.plan[1].added
      <4>1. Len(tap.plan) = 2
        <5>1. \A b \in {1, 2} : 1 < b => b = 2
          OBVIOUS
        <5>2. QED
          BY <1>3, <3>3, <5>1
      <4>2. QED
        BY <1>2, <4>1 DEF TapOK
    <3>5. PICK o \in applied :
             /\ o.ns = tap.base + 1 /\ o.sender = Me
             /\ o.emoji = tap.plan[1].emoji /\ o.added = tap.plan[1].added
      <4>1. At(Me, tap.plan[1], tap.base + 1) \in applied
        BY <3>3 DEF applied
      <4>2. QED
        BY <4>1 DEF At
    <3>6. \A u \in Toggle : ~Tapped(u)'
      BY <1>1, <1>11, <3>2 DEF Faithful, AloneOK, tap
    <3>7. ASSUME NEW k \in reactNetwork', k.sender = Me, o.ns < k.ns, k.ns < e.ns PROVE ~k.added
      <4>1. k \in reactNetwork
        BY <1>1, <1>4, <1>6, <2>1, <3>7
      <4>2. k.ns > tap.base
        BY <1>3, <1>4, <3>5, <3>7, <4>1
      <4>3. k \in tap.landed
        BY <1>1, <3>2, <3>7, <4>1, <4>2 DEF Faithful, AloneOK, tap
      <4>4. QED
        BY <1>4, <3>4, <4>3 DEF LandedOK
    <3>8. o.ns < e.ns
      BY <1>3, <1>4, <2>1, <3>3, <3>4, <3>5
    <3>9. ~e.added /\ ~o.added
      BY <3>3, <3>4, <3>5
    <3>10. o.emoji = e.emoji
      BY <3>3, <3>5
    <3>11. Spared(e, o)'
      <4>1. \A u \in Toggle : Tapped(u)' => o \in reactToggles'[u].prior
        BY <3>6
      <4>2. \A k \in reactNetwork' : k.sender = Me /\ o.ns < k.ns /\ k.ns < e.ns => ~k.added
        BY <3>7
      <4>3. QED
        BY <3>5, <3>8, <3>9, <3>10, <4>1, <4>2 DEF Spared
    <3>12. QED
      BY <1>1, <3>3, <3>5, <3>9, <3>11
  <2>4. QED
    BY <2>2, <2>3
<1>17. Answered'
  <2> SUFFICES ASSUME NEW e \in reactShown', e \notin reactNetwork'
               PROVE  /\ e.sender = Me
                      /\ \/ \E n \in reactNetwork' : Copy(e, n)
                         \/ \E u \in Toggle : Unsent(e, reactToggles[u])'
    BY DEF Answered
  <2>1. /\ e.sender = Me
        /\ \/ \E n \in reactNetwork : Copy(e, n)
           \/ \E u \in Toggle : Unsent(e, reactToggles[u])
    BY <1>1, <1>9 DEF Faithful, Answered
  <2>2. CASE \E n \in reactNetwork : Copy(e, n)
    BY <1>1, <2>1, <2>2
  <2>3. ASSUME NEW u \in Toggle, Unsent(e, reactToggles[u]) PROVE Unsent(e, reactToggles[u])'
    <3>1. CASE u = t
      <4>1. PICK i \in 1..Len(tap.plan) : i > tap.sent /\ e = At(Me, tap.plan[i], tap.base + i)
        BY <2>3, <3>1 DEF Unsent, tap
      <4>2. e.ns = tap.base + i
        BY <4>1 DEF At
      <4>3. e \notin tap.prior
        BY <1>3, <1>4, <4>1, <4>2 DEF Intact
      <4>4. e \notin applied
        <5>1. \A f \in applied : \E j \in 1..tap.sent : f.ns = tap.base + j
          BY DEF applied, At
        <5>2. QED
          BY <1>3, <4>1, <4>2, <5>1
      <4>5. QED
        BY <1>1, <4>3, <4>4
    <3>2. CASE u # t
      BY <1>1, <2>3, <3>2 DEF Unsent
    <3>3. QED
      BY <3>1, <3>2
  <2>4. QED
    BY <2>1, <2>2, <2>3
<1>18. QED
  BY <1>12, <1>13, <1>14, <1>15, <1>16, <1>17 DEF Faithful

LEMMA FailStep ==
  ASSUME ReactInv, NEW t \in Toggle, StepFails(t)
  PROVE  ReactInv'
<1>1. TapsTyped' /\ ReactionsTypeOK'
  BY FailEffect
<1>2. ASSUME ~reactClobbered' PROVE Faithful'
  <2>1. Lost(t) = {} /\ ~reactClobbered
    BY <1>2, FailEffect
  <2>2. QED
    BY <2>1, FailFaithful DEF ReactInv
<1>3. QED
  BY <1>1, <1>2 DEF ReactInv

\* The stream brings what the network holds.
LEMMA MergeStep ==
  ASSUME ReactInv, NEW e \in reactNetwork, MergeReaction(e)
  PROVE  ReactInv'
<1>1. /\ reactStreamed' = reactStreamed \cup {e} /\ reactShown' = reactShown \cup {e}
      /\ reactClock' = reactClock /\ reactTaps' = reactTaps /\ reactPeerNews' = reactPeerNews
      /\ reactNetwork' = reactNetwork /\ reactToggles' = reactToggles
      /\ reactClobbered' = reactClobbered
  BY DEF MergeReaction
<1>2. ReactionsTypeOK' /\ TapsTyped'
  <2>1. reactToggles \in [Toggle -> TapState]
    BY ReactTypes
  <2>2. reactStreamed' \subseteq reactNetwork' /\ reactShown' \subseteq Event
    BY <1>1, ReactTypes
  <2>3. ReactionsTypeOK'
    BY <1>1, <2>1, <2>2, ReactTypes DEF ReactionsTypeOK, TapState, Plans
  <2>4. QED
    BY <1>1, <2>3 DEF ReactInv, TapsTyped
<1>3. ASSUME Faithful PROVE Faithful'
  <2>1. Log(reactNetwork \cup reactShown)'
    <3>1. (reactNetwork \cup reactShown)' = reactNetwork \cup reactShown
      BY <1>1
    <3>2. QED
      BY <1>1, <1>3, <3>1 DEF Faithful, Log
  <2>2. \A t \in Toggle : Tapped(t)' => Intact(reactToggles[t])'
    BY <1>1, <1>3 DEF Faithful, Tapped, Intact
  <2>3. \A t \in Toggle : LandedOK(reactToggles[t])' /\ AloneOK(t)'
    BY <1>1, <1>3 DEF Faithful, LandedOK, AloneOK, Tapped
  <2>4. Nested'
    BY <1>1, <1>3 DEF Faithful, Nested, Tapped
  <2>5. \A k, o : Spared(k, o) => Spared(k, o)'
    BY <1>1 DEF Spared, Tapped
  <2>6. EchoesKept'
    <3> SUFFICES ASSUME NEW k \in reactStreamed', k \notin reactShown'
                 PROVE  k.sender = Me /\ ~k.added /\ \E o \in reactShown' : Spared(k, o)'
      BY DEF EchoesKept
    <3>1. k \in reactStreamed /\ k \notin reactShown
      BY <1>1
    <3>2. k.sender = Me /\ ~k.added /\ \E o \in reactShown : Spared(k, o)
      BY <1>3, <3>1 DEF Faithful, EchoesKept
    <3>3. PICK o \in reactShown : Spared(k, o)
      BY <3>2
    <3>4. QED
      BY <1>1, <2>5, <3>2, <3>3
  <2>7. Answered'
    BY <1>1, <1>3 DEF Faithful, Answered
  <2>8. QED
    BY <2>1, <2>2, <2>3, <2>4, <2>6, <2>7 DEF Faithful
<1>4. QED
  BY <1>1, <1>2, <1>3 DEF ReactInv

LEMMA PeerStep ==
  ASSUME ReactInv, NEW p \in Peer, NEW step \in Step, PeerReacts(p, step)
  PROVE  ReactInv'
<1> DEFINE e == At(p, step, reactClock + 1)
<1>1. /\ reactNetwork' = reactNetwork \cup {e} /\ reactClock' = reactClock + 1
      /\ reactPeerNews < MaxPeerNews /\ reactPeerNews' = reactPeerNews + 1
      /\ reactTaps' = reactTaps /\ reactStreamed' = reactStreamed /\ reactShown' = reactShown
      /\ reactToggles' = reactToggles /\ reactClobbered' = reactClobbered
  BY DEF PeerReacts, Stored
<1>2. e \in Event /\ e.sender # Me /\ e.ns = reactClock + 1
  BY ReactTypes, MeAssumption DEF At, Event, Step, Reactor, Time, MeAssumption
<1> HIDE DEF e
<1>3. ReactionsTypeOK' /\ TapsTyped'
  <2>1. reactToggles \in [Toggle -> TapState]
    BY ReactTypes
  <2>2. reactClock' \in Nat /\ reactPeerNews' \in 0..MaxPeerNews
    BY <1>1, ReactTypes, MaxNewsAssumption DEF MaxNewsAssumption
  <2>3. ReactionsTypeOK'
    BY <1>1, <1>2, <2>1, <2>2, ReactTypes DEF ReactionsTypeOK, TapState, Plans
  <2>4. QED
    BY <1>1, <2>3 DEF ReactInv, TapsTyped
<1>4. ASSUME Faithful PROVE Faithful'
  <2>1. \A t \in Toggle : Tapped(t)' <=> Tapped(t)
    BY <1>1 DEF Tapped
  <2>2. /\ Log(reactNetwork \cup reactShown)'
        /\ \A t \in Toggle : Tapped(t)' => Intact(reactToggles[t])'
        /\ EchoesKept'
    BY <1>1, <1>2, <1>4, <2>1, StoredKeeps
  <2>3. \A t \in Toggle : LandedOK(reactToggles[t])' /\ AloneOK(t)'
    BY <1>1, <1>2, <1>4, <2>1 DEF Faithful, LandedOK, AloneOK
  <2>4. Nested'
    BY <1>1, <1>4, <2>1 DEF Faithful, Nested
  <2>5. Answered'
    BY <1>1, <1>4 DEF Faithful, Answered
  <2>6. QED
    BY <2>2, <2>3, <2>4, <2>5 DEF Faithful
<1>5. QED
  BY <1>1, <1>3, <1>4 DEF ReactInv

LEMMA ReactInitInv == ReactionsInit => ReactInv
<1> SUFFICES ASSUME ReactionsInit PROVE ReactInv
  OBVIOUS
<1>1. TapsTyped
  BY NoToggleTyped DEF ReactionsInit, TapsTyped
<1>2. ReactionsTypeOK
  <2>1. /\ reactClock \in Nat /\ reactTaps \in 0..MaxTaps /\ reactPeerNews \in 0..MaxPeerNews
        /\ reactClobbered \in BOOLEAN
    <3>1. 0 \in 0..MaxTaps /\ 0 \in 0..MaxPeerNews
      BY MaxNewsAssumption DEF MaxNewsAssumption
    <3>2. QED
      BY <3>1 DEF ReactionsInit
  <2>2. /\ reactStreamed \subseteq reactNetwork /\ reactNetwork \subseteq Event
        /\ reactShown \subseteq Event
    BY DEF ReactionsInit
  <2>3. QED
    BY <1>1, <2>1, <2>2, TypedFromTaps
<1>3. \A t \in Toggle : reactToggles[t] = NoToggle /\ ~Tapped(t)
  BY DEF ReactionsInit, Tapped, NoToggle
<1>4. Faithful
  <2>1. Log(reactNetwork \cup reactShown)
    BY DEF ReactionsInit, Log
  <2>2. \A t \in Toggle : LandedOK(reactToggles[t]) /\ AloneOK(t)
    BY <1>3 DEF LandedOK, AloneOK, NoToggle
  <2>3. Nested /\ EchoesKept /\ Answered
    BY <1>3 DEF ReactionsInit, Nested, EchoesKept, Answered
  <2>4. QED
    BY <1>3, <2>1, <2>2, <2>3 DEF Faithful
<1>5. QED
  BY <1>1, <1>2, <1>4 DEF ReactInv

LEMMA ReactStutter == ReactInv /\ UNCHANGED reactVars => ReactInv'
<1> SUFFICES ASSUME ReactInv, UNCHANGED reactVars PROVE ReactInv'
  OBVIOUS
<1>1. /\ reactStreamed' = reactStreamed /\ reactShown' = reactShown
      /\ reactClock' = reactClock /\ reactTaps' = reactTaps /\ reactPeerNews' = reactPeerNews
      /\ reactNetwork' = reactNetwork /\ reactToggles' = reactToggles
      /\ reactClobbered' = reactClobbered
  BY DEF reactVars
<1>2. ReactionsTypeOK' /\ TapsTyped'
  BY <1>1 DEF ReactInv, ReactionsTypeOK, TapsTyped
<1>3. ASSUME Faithful PROVE Faithful'
  BY <1>1, <1>3 DEF Faithful, Log, Intact, LandedOK, AloneOK, Nested, Before, EchoesKept, Spared,
                    Answered, Tapped
<1>4. QED
  BY <1>1, <1>2, <1>3 DEF ReactInv

LEMMA ReactStepInv == ReactInv /\ [ReactionsNext]_reactVars => ReactInv'
<1> SUFFICES ASSUME ReactInv, [ReactionsNext]_reactVars PROVE ReactInv'
  OBVIOUS
<1>1. ASSUME NEW t \in Toggle, NEW emoji \in Emoji, ToggleReaction(t, emoji) PROVE ReactInv'
  <2>1. ReactionsTypeOK' /\ TapsTyped'
    BY <1>1, TapTyped
  <2>2. reactClobbered' = reactClobbered
    BY <1>1 DEF ToggleReaction
  <2>3. QED
    BY <1>1, <2>1, <2>2, TapFaithful DEF ReactInv
<1>2. QED
  BY <1>1, SentStep, FailStep, MergeStep, PeerStep, ReactStutter DEF ReactionsNext

LEMMA AlwaysReactInv == ReactionsSpec => []ReactInv
  BY ReactInitInv, ReactStepInv, PTL DEF ReactionsSpec

-----------------------------------------------------------------------------
(* The pills *)

\* When nothing is in flight, the list and the network agree on who holds what.
LEMMA SameHolds ==
  ASSUME ReactInv, Faithful, QuietThread, NEW sender \in Reactor, NEW x \in Emoji
  PROVE  Holds(reactShown, sender, x) <=> Holds(reactNetwork, sender, x)
<1>1. reactStreamed = reactNetwork /\ \A t \in Toggle : reactToggles[t] = NoToggle
  BY DEF QuietThread
<1>2. \A t \in Toggle : \A e : ~Unsent(e, reactToggles[t])
  BY <1>1 DEF Unsent, NoToggle
<1>3. \A e \in reactShown :
         e \in reactNetwork \/ (e.sender = Me /\ \E n \in reactNetwork : Copy(e, n))
  <2>1. Answered
    BY DEF Faithful
  <2>2. QED
    BY <1>2, <2>1 DEF Answered
<1>4. \A e \in reactNetwork :
         e \in reactShown \/ (e.sender = Me /\ ~e.added /\ \E o \in reactShown : Spared(e, o))
  BY <1>1 DEF Faithful, EchoesKept
<1>5. /\ \A e \in reactNetwork \cup reactShown : e.ns \in Nat /\ e.added \in BOOLEAN
      /\ \A e, f \in reactNetwork \cup reactShown : e.ns = f.ns => e = f
  BY ReactTypes DEF Faithful, Log
<1>6. ASSUME Holds(reactShown, sender, x) PROVE Holds(reactNetwork, sender, x)
  <2>1. PICK e \in reactShown :
          /\ e.sender = sender /\ e.added /\ e.emoji = x
          /\ \A later \in reactShown :
               later.sender = sender /\ later.ns > e.ns => ~later.added /\ later.emoji # x
    BY <1>6 DEF Holds
  <2>2. e \in reactNetwork
    <3> SUFFICES ASSUME e \notin reactNetwork PROVE FALSE
      OBVIOUS
    <3>1. PICK n \in reactNetwork : Copy(e, n)
      BY <1>3
    <3>2. n \in reactShown
      BY <1>4, <2>1, <3>1 DEF Copy
    <3>3. sender = Me
      BY <1>3, <2>1
    <3>4. QED
      BY <2>1, <3>1, <3>2, <3>3 DEF Copy
  <2>3. ASSUME NEW later \in reactNetwork, later.sender = sender, later.ns > e.ns
        PROVE  ~later.added /\ later.emoji # x
    <3>1. CASE later \in reactShown
      BY <2>1, <2>3, <3>1
    <3>2. CASE later \notin reactShown
      <4>1. PICK o \in reactShown : later.sender = Me /\ ~later.added /\ Spared(later, o)
        BY <1>4, <3>2
      <4>2. CASE o.ns > e.ns
        BY <2>1, <2>3, <4>1, <4>2 DEF Spared
      <4>3. CASE ~(o.ns > e.ns)
        <5>1. o # e
          BY <2>1, <4>1 DEF Spared
        <5>2. o.ns < e.ns
          BY <1>5, <4>3, <5>1
        <5>3. QED
          BY <1>5, <2>1, <2>2, <2>3, <4>1, <5>2 DEF Spared
      <4>4. QED
        BY <4>2, <4>3
    <3>3. QED
      BY <3>1, <3>2
  <2>4. QED
    BY <2>1, <2>2, <2>3 DEF Holds
<1>7. ASSUME Holds(reactNetwork, sender, x) PROVE Holds(reactShown, sender, x)
  <2>1. PICK e \in reactNetwork :
          /\ e.sender = sender /\ e.added /\ e.emoji = x
          /\ \A later \in reactNetwork :
               later.sender = sender /\ later.ns > e.ns => ~later.added /\ later.emoji # x
    BY <1>7 DEF Holds
  <2>2. e \in reactShown
    BY <1>4, <2>1
  <2>3. ASSUME NEW later \in reactShown, later.sender = sender, later.ns > e.ns
        PROVE  ~later.added /\ later.emoji # x
    <3>1. CASE later \in reactNetwork
      BY <2>1, <2>3, <3>1
    <3>2. CASE later \notin reactNetwork
      <4>1. PICK n \in reactNetwork : later.sender = Me /\ Copy(later, n)
        BY <1>3, <3>2
      <4>2. n.ns > e.ns
        BY <1>5, <2>3, <4>1 DEF Copy
      <4>3. ~n.added /\ n.emoji # x
        BY <2>1, <2>3, <4>1, <4>2 DEF Copy
      <4>4. QED
        BY <4>1, <4>3 DEF Copy
    <3>3. QED
      BY <3>1, <3>2
  <2>4. QED
    BY <2>1, <2>2, <2>3 DEF Holds
<1>8. QED
  BY <1>6, <1>7

LEMMA PillsFromInv == ReactInv => PillsAgree
<1> SUFFICES ASSUME ReactInv, QuietThread, ~reactClobbered
             PROVE  SummarizeReactions(reactShown) =
                      {[emoji |-> x,
                        count |-> Cardinality({s \in Reactor : Holds(reactNetwork, s, x)}),
                        mine |-> Holds(reactNetwork, Me, x)] :
                          x \in {y \in Emoji : \E s \in Reactor : Holds(reactNetwork, s, y)}}
  BY DEF PillsAgree
<1>1. Faithful /\ reactClock \in Nat /\ Me \in Reactor
  BY ReactTypes DEF ReactInv, Reactor
<1>2. Log(reactShown)
  BY <1>1 DEF Faithful, Log
<1>3. \A s \in Reactor : /\ Live(reactShown, s) \in Emoji \cup {NoEmoji}
                         /\ \A x \in Emoji : Live(reactShown, s) = x <=> Holds(reactNetwork, s, x)
  BY <1>1, <1>2, LiveHolds, SameHolds
<1>4. {Live(reactShown, s) : s \in Reactor} \ {NoEmoji}
        = {y \in Emoji : \E s \in Reactor : Holds(reactNetwork, s, y)}
  BY <1>3, EmojiAssumption DEF EmojiAssumption
<1>5. \A x \in Emoji :
         /\ {s \in Reactor : Live(reactShown, s) = x} = {s \in Reactor : Holds(reactNetwork, s, x)}
         /\ (Live(reactShown, Me) = x) = Holds(reactNetwork, Me, x)
  <2> SUFFICES ASSUME NEW x \in Emoji
               PROVE  /\ {s \in Reactor : Live(reactShown, s) = x}
                            = {s \in Reactor : Holds(reactNetwork, s, x)}
                      /\ (Live(reactShown, Me) = x) = Holds(reactNetwork, Me, x)
    OBVIOUS
  <2>1. {s \in Reactor : Live(reactShown, s) = x} = {s \in Reactor : Holds(reactNetwork, s, x)}
    BY <1>3
  <2>2. Live(reactShown, Me) = x <=> Holds(reactNetwork, Me, x)
    BY <1>1, <1>3
  <2>3. Holds(reactNetwork, Me, x) \in BOOLEAN
    BY DEF Holds
  <2>4. QED
    BY <2>1, <2>2, <2>3
<1> DEFINE X == {y \in Emoji : \E s \in Reactor : Holds(reactNetwork, s, y)}
<1>6. \A x \in X :
         [emoji |-> x, count |-> Cardinality({s \in Reactor : Live(reactShown, s) = x}),
          mine |-> Live(reactShown, Me) = x]
         = [emoji |-> x, count |-> Cardinality({s \in Reactor : Holds(reactNetwork, s, x)}),
            mine |-> Holds(reactNetwork, Me, x)]
  BY <1>5
<1>7. SummarizeReactions(reactShown) =
         {[emoji |-> x, count |-> Cardinality({s \in Reactor : Live(reactShown, s) = x}),
           mine |-> Live(reactShown, Me) = x] : x \in X}
  BY <1>4 DEF SummarizeReactions
<1> DEFINE pill(x) == [emoji |-> x,
                       count |-> Cardinality({s \in Reactor : Live(reactShown, s) = x}),
                       mine |-> Live(reactShown, Me) = x]
           held(x) == [emoji |-> x,
                       count |-> Cardinality({s \in Reactor : Holds(reactNetwork, s, x)}),
                       mine |-> Holds(reactNetwork, Me, x)]
<1>8. {pill(x) : x \in X} = {held(x) : x \in X}
  <2>1. \A x \in X : pill(x) = held(x)
    BY <1>6
  <2> HIDE DEF pill, held, X
  <2>2. QED
    BY <2>1
<1>9. QED
  BY <1>7, <1>8

-----------------------------------------------------------------------------
(* Theorems *)

\* With no tap in flight and the stream drained, the pills that the replay computes from the
\* list are what the network holds, for every set of members and emoji and whatever taps
\* overlapped, failed half-way or were echoed late, unless a failing tap threw something away.
THEOREM PillsAreTrue == ReactionsSpec => []PillsAgree
  BY AlwaysReactInv, PillsFromInv, PTL

\* Every variable of the reactions keeps its type.
THEOREM ReactionsTyped == ReactionsSpec => []ReactionsTypeOK
<1>1. ReactInv => ReactionsTypeOK
  BY DEF ReactInv
<1>2. QED
  BY <1>1, AlwaysReactInv, PTL
=============================================================================
