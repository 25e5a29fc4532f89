-------------------------- MODULE ClientFilesProofs --------------------------
EXTENDS ClientFiles, TLAPS

(* Boxes and buttons *)

\* What the page has drawn follows from the list and the selection.
Drawn == ~undrawn =>
  /\ checked = selectedFiles \cap fileList
  /\ buttons = updateBatchButtons(fileList, selectedFiles, checked)

LEMMA RenderDraws ==
  ASSUME NEW list, NEW chosen, renderFileList(list, chosen)
  PROVE  Drawn'
BY DEF renderFileList, Ticked, Drawn

LEMMA NothingDrawn == ASSUME Drawn, UNCHANGED drawnVars PROVE Drawn'
BY DEF Drawn, drawnVars

LEMMA TickDraws ==
  ASSUME NEW chosen, NEW ticked, Tick(chosen, ticked),
         ~undrawn => ticked = chosen \cap fileList
  PROVE  Drawn'
BY DEF Tick, Drawn

LEMMA DrawnKept == ASSUME Drawn, [Next]_vars PROVE Drawn'
<1>1. ASSUME NEW l \in Loads, ListRead(l) \/ ListApplied(l) \/ ListFails(l) PROVE Drawn'
  BY <1>1, RenderDraws, NothingDrawn DEF ListRead, ListApplied, ListFails
<1>2. CASE UploadStep
  BY <1>2, NothingDrawn DEF UploadStep, handleFiles, calculateMD5, Saved, Uploaded,
        UploadFails, BarTimer
<1>3. CASE PanelClick
  BY <1>3, NothingDrawn DEF PanelClick
<1>4. CASE SelectAllClick
  <2>1. CASE buttons.all = "all"
    <3>1. Tick(selectedFiles \ fileList, {})
      BY <1>4, <2>1 DEF SelectAllClick
    <3> QED BY <3>1, TickDraws
  <2>2. CASE buttons.all # "all"
    <3>1. Tick(selectedFiles \cup fileList, fileList)
      BY <1>4, <2>2 DEF SelectAllClick
    <3> QED BY <3>1, TickDraws
  <2> QED BY <2>1, <2>2
<1>5. ASSUME NEW f \in Files, BoxClick(f) PROVE Drawn'
  <2>1. CASE f \in checked
    <3>1. Tick(selectedFiles \ {f}, checked \ {f})
      BY <1>5, <2>1 DEF BoxClick
    <3> QED BY <3>1, TickDraws DEF Drawn
  <2>2. CASE f \notin checked
    <3>1. f \in fileList /\ Tick(selectedFiles \cup {f}, checked \cup {f})
      BY <1>5, <2>2 DEF BoxClick
    <3> QED BY <3>1, TickDraws DEF Drawn
  <2> QED BY <2>1, <2>2
<1>6. ASSUME NEW b \in Batches,
             \/ InstallClick(b) \/ InstallOpens(b) \/ InstallAnswered(b)
             \/ PushClick(b) \/ PushAnswered(b) \/ NoDevices(b)
             \/ DeleteClick(b) \/ CleanupOpens(b) \/ CleanupAnswered(b)
             \/ DeletionBegins(b) \/ DeleteFile(b) \/ Removed(b) \/ DeletionLeft(b)
             \/ LeftEnds(b) \/ BatchFails(b)
      PROVE  Drawn'
  BY <1>6, NothingDrawn DEF InstallClick, InstallOpens, InstallAnswered, PushClick,
        PushAnswered, NoDevices, DeleteClick, CleanupOpens, CleanupAnswered, BatchFails,
        DeletionBegins, DeleteFile, Removed, DeletionLeft, LeftEnds
<1>7. ASSUME NEW b \in Batches, InstallDone(b) \/ PushOpens(b) \/ PushDone(b) PROVE Drawn'
  BY <1>7, RenderDraws DEF InstallDone, PushOpens, PushDone
<1>8. ASSUME NEW b \in Batches, handleBatchDelete(b) \/ runCleanup(b) PROVE Drawn'
  BY <1>8 DEF handleBatchDelete, runCleanup, Cleared, Drawn
<1>9. CASE UNCHANGED vars
  BY <1>9, NothingDrawn DEF vars
<1> QED BY <1>1, <1>2, <1>3, <1>4, <1>5, <1>6, <1>7, <1>8, <1>9
        DEF Next, ListStep, UserStep, BatchStep

\* ButtonsTruthful, at any time, for any files, uploads, batches and lists: the boxes
\* and buttons of files.js:276-403 follow the selection.
THEOREM ButtonsFollowSelection == Spec => []ButtonsTruthful
<1>1. Init => Drawn
  BY DEF Init, Drawn
<1>2. ASSUME Drawn, ~undrawn PROVE ButtonsTruthful
  <2>1. checked = selectedFiles \cap fileList
    BY <1>2 DEF Drawn
  <2>2. /\ buttons.delete = IF selectedFiles # {} THEN "delete"
                            ELSE IF fileList # {} THEN "cleanup" ELSE "off"
        /\ buttons.install = (selectedFiles # {} /\ selectedFiles \subseteq fileList \cap Apks)
        /\ buttons.push = (selectedFiles # {})
        /\ buttons.all = Mark(fileList, checked)
    BY <1>2 DEF Drawn, updateBatchButtons
  <2>3. (buttons.all = "all") = (fileList # {} /\ fileList \subseteq selectedFiles)
    <3>1. Mark(fileList, checked) = "all" <=> fileList # {} /\ fileList \subseteq checked
      BY DEF Mark
    <3> QED BY <2>1, <2>2, <3>1
  <2>4. (buttons.delete = "delete") = (selectedFiles # {})
    BY <2>2
  <2>5. buttons.install => \A f \in selectedFiles : f \in fileList \cap Apks
    BY <2>2
  <2> QED BY <2>1, <2>2, <2>3, <2>4, <2>5 DEF ButtonsTruthful
<1>3. undrawn => ButtonsTruthful
  BY DEF ButtonsTruthful
<1>4. Drawn => ButtonsTruthful
  BY <1>2, <1>3
<1> QED BY <1>1, <1>4, DrawnKept, PTL DEF Spec

(* Progress bars *)

Upload == [at : {"idle", "md5", "sending", "saved"}, queue : Seq(Files)]

UploadsOK ==
  /\ uploads \in [Uploads -> Upload]
  /\ \A u \in Uploads : uploads[u] # NoUpload => uploads[u].queue # <<>>

BarsOK == bars \in [Bars -> Nat] /\ made \in Nat

BarTypes == fresh \subseteq Files /\ UploadsOK /\ BarsOK

LEMMA DropsAreQueues ==
  ASSUME fresh \subseteq Files, NEW queue \in Drops
  PROVE  queue \in Seq(Files) /\ queue # <<>>
<1> DEFINE free == fresh \ Waiting
<1>1. free \subseteq Files
  OBVIOUS
<1>2. CASE queue \in {<<f>> : f \in free}
  <2>1. PICK f \in free : queue = <<f>>
    BY <1>2
  <2> QED BY <1>1, <2>1
<1>3. CASE queue \in {q \in free \X free : q[1] # q[2]}
  <2>1. PICK f \in free, g \in free : queue = <<f, g>>
    BY <1>3
  <2> QED BY <1>1, <2>1
<1> QED BY <1>2, <1>3 DEF Drops

LEMMA HeadAndTail ==
  ASSUME UploadsOK, NEW u \in Uploads, uploads[u] # NoUpload
  PROVE  Current(u) \in Files /\ BarOf[Current(u)] \in Bars /\ Tail(uploads[u].queue) \in Seq(Files)
<1>1. uploads[u].queue \in Seq(Files) /\ uploads[u].queue # <<>>
  BY DEF UploadsOK, Upload
<1>2. Head(uploads[u].queue) \in Files /\ Tail(uploads[u].queue) \in Seq(Files)
  BY <1>1
<1> QED BY <1>2 DEF Current, Bars

LEMMA ShowKeepsTypes ==
  ASSUME UploadsOK, BarsOK, NEW u \in Uploads, NEW queue \in Seq(Files),
         showUploadProgress(u, queue)
  PROVE  UploadsOK' /\ BarsOK'
<1>1. CASE queue = <<>>
  <2>1. uploads' = [uploads EXCEPT ![u] = NoUpload] /\ UNCHANGED <<bars, made>>
    BY <1>1 DEF showUploadProgress
  <2>2. NoUpload \in Upload
    BY DEF NoUpload, Upload
  <2> QED BY <2>1, <2>2 DEF UploadsOK, BarsOK
<1>2. CASE queue # <<>>
  <2>1. UploadsOK'
    <3>1. uploads' = [uploads EXCEPT ![u] = [at |-> "md5", queue |-> queue]]
      BY <1>2 DEF showUploadProgress
    <3> QED BY <1>2, <3>1 DEF UploadsOK, Upload
  <2>2. BarsOK'
    <3>1. BarOf[Head(queue)] \in Bars
      BY <1>2 DEF Bars
    <3> QED BY <1>2, <3>1 DEF showUploadProgress, BarsOK
  <2> QED BY <2>1, <2>2
<1> QED BY <1>1, <1>2

\* The bar that is shown for a file has its upload as an owner.
LEMMA ShowKeepsOwners ==
  ASSUME UploadsOK, BarsOK, BarHasOwner, NEW u \in Uploads, NEW queue \in Seq(Files),
         showUploadProgress(u, queue), timers \subseteq timers',
         \/ uploads[u] = NoUpload
         \/ BarShown(BarOf[Current(u)]) => bars[BarOf[Current(u)]] \in timers'
  PROVE  BarHasOwner'
<1> SUFFICES ASSUME NEW i \in Bars, bars'[i] # 0
             PROVE  \/ bars'[i] \in timers'
                    \/ \E v \in Uploads : uploads'[v] # NoUpload
                                         /\ BarOf[Head(uploads'[v].queue)] = i
  BY DEF BarHasOwner, BarShown, Current
<1>1. CASE bars'[i] = bars[i] /\ bars[i] \notin timers
  <2>1. PICK v \in Uploads : uploads[v] # NoUpload /\ BarOf[Current(v)] = i
    BY <1>1 DEF BarHasOwner, BarShown
  <2>2. CASE v = u
    BY <1>1, <2>1, <2>2 DEF BarShown
  <2>3. CASE v # u
    <3>1. uploads'[v] = uploads[v]
      BY <2>3 DEF showUploadProgress, UploadsOK
    <3> QED BY <2>1, <3>1 DEF Current
  <2> QED BY <2>2, <2>3
<1>2. CASE bars'[i] = bars[i] /\ bars[i] \in timers
  BY <1>2
<1>3. CASE bars'[i] # bars[i]
  <2>1. queue # <<>> /\ i = BarOf[Head(queue)]
    BY <1>3 DEF showUploadProgress, BarsOK
  <2>2. uploads'[u] = [at |-> "md5", queue |-> queue]
    BY <2>1 DEF showUploadProgress, UploadsOK
  <2>3. uploads'[u] # NoUpload
    BY <2>2 DEF NoUpload
  <2> QED BY <2>1, <2>2, <2>3
<1> QED BY <1>1, <1>2, <1>3

BarInv == BarTypes /\ BarHasOwner

LEMMA BarsUntouched ==
  ASSUME BarInv, UNCHANGED <<fresh, uploadVars>> PROVE BarInv'
BY DEF BarInv, BarTypes, UploadsOK, BarsOK, BarHasOwner, BarShown, Current, uploadVars, barVars

\* An upload that only moves on keeps its queue.
LEMMA MovingOnKeeps ==
  ASSUME BarInv, fresh' \subseteq Files, UNCHANGED barVars,
         NEW u \in Uploads, uploads[u] # NoUpload,
         NEW p \in {"md5", "sending", "saved"}, uploads' = [uploads EXCEPT ![u].at = p]
  PROVE  BarInv'
<1>1. UploadsOK' /\ \A v \in Uploads : uploads'[v].queue = uploads[v].queue
  BY DEF BarInv, BarTypes, UploadsOK, Upload, NoUpload
<1>2. \A v \in Uploads : uploads[v] # NoUpload => uploads'[v] # NoUpload
  BY <1>1 DEF BarInv, BarTypes, UploadsOK, Upload, NoUpload
<1>3. BarHasOwner'
  BY <1>1, <1>2 DEF BarInv, BarHasOwner, BarShown, Current, barVars
<1> QED BY <1>1, <1>3 DEF BarInv, BarTypes, BarsOK, barVars

LEMMA HidingKeeps ==
  ASSUME BarInv, fresh' \subseteq Files, NEW u \in Uploads, uploads[u] # NoUpload,
         hideUploadProgress(u)
  PROVE  BarInv'
<1>1. Tail(uploads[u].queue) \in Seq(Files)
  BY HeadAndTail DEF BarInv, BarTypes
<1>2. /\ timers \subseteq timers'
      /\ BarShown(BarOf[Current(u)]) => bars[BarOf[Current(u)]] \in timers'
  BY DEF hideUploadProgress, Hidden
<1>3. showUploadProgress(u, Tail(uploads[u].queue))
  BY DEF hideUploadProgress
<1> QED BY <1>1, <1>2, <1>3, ShowKeepsTypes, ShowKeepsOwners DEF BarInv, BarTypes

LEMMA BarInvKept == ASSUME BarInv, [Next]_vars PROVE BarInv'
<1>1. ASSUME NEW u \in Uploads, NEW queue \in Drops, handleFiles(u, queue) PROVE BarInv'
  <2>1. queue \in Seq(Files)
    BY DropsAreQueues DEF BarInv, BarTypes
  <2>2. /\ uploads[u] = NoUpload /\ showUploadProgress(u, queue)
        /\ timers' = timers /\ fresh' = fresh
    BY <1>1 DEF handleFiles, storeVars
  <2> QED BY <2>1, <2>2, ShowKeepsTypes, ShowKeepsOwners DEF BarInv, BarTypes
<1>2. ASSUME NEW u \in Uploads, calculateMD5(u) PROVE BarInv'
  <2>1. uploads[u] # NoUpload /\ uploads' = [uploads EXCEPT ![u].at = "sending"]
    BY <1>2 DEF calculateMD5, NoUpload
  <2>2. fresh' \subseteq Files /\ UNCHANGED barVars
    BY <1>2 DEF calculateMD5, storeVars, BarInv, BarTypes
  <2> QED BY <2>1, <2>2, MovingOnKeeps
<1>3. ASSUME NEW u \in Uploads, Saved(u) PROVE BarInv'
  <2>1. uploads[u] # NoUpload /\ uploads' = [uploads EXCEPT ![u].at = "saved"]
    BY <1>3 DEF Saved, NoUpload
  <2>2. fresh' \subseteq Files /\ UNCHANGED barVars
    BY <1>3 DEF Saved, BarInv, BarTypes
  <2> QED BY <2>1, <2>2, MovingOnKeeps
<1>4. ASSUME NEW u \in Uploads, Uploaded(u) PROVE BarInv'
  BY <1>4, HidingKeeps DEF Uploaded, storeVars, NoUpload, BarInv, BarTypes
<1>5. ASSUME NEW u \in Uploads, UploadFails(u) PROVE BarInv'
  BY <1>5, HidingKeeps DEF UploadFails, BarInv, BarTypes
<1>6. ASSUME NEW c \in timers, BarTimer(c) PROVE BarInv'
  <2>1. bars' = [i \in Bars |-> IF bars[i] = c THEN 0 ELSE bars[i]] /\ timers' = timers \ {c}
    BY <1>6 DEF BarTimer
  <2>2. UNCHANGED <<fresh, uploads, made>>
    BY <1>6 DEF BarTimer, storeVars
  <2>3. BarHasOwner'
    BY <2>1, <2>2 DEF BarInv, BarHasOwner, BarShown, Current
  <2>4. BarTypes'
    BY <2>1, <2>2 DEF BarInv, BarTypes, BarsOK, UploadsOK
  <2> QED BY <2>3, <2>4 DEF BarInv
<1>7. CASE ListStep
  BY <1>7, BarsUntouched DEF ListStep, ListRead, ListApplied, ListFails, storeVars
<1>8. CASE UserStep
  BY <1>8, BarsUntouched
     DEF UserStep, PanelClick, SelectAllClick, BoxClick, Tick, storeVars
<1>9. CASE BatchStep
  BY <1>9, BarsUntouched
     DEF BatchStep, InstallClick, InstallOpens, InstallAnswered, InstallDone, PushClick,
         PushOpens, PushAnswered, PushDone, NoDevices, DeleteClick, CleanupOpens,
         CleanupAnswered, DeletionBegins, DeleteFile, Removed, DeletionLeft, LeftEnds,
         handleBatchDelete, runCleanup, Cleared, BatchFails, storeVars
<1>10. CASE UNCHANGED vars
  BY <1>10, BarsUntouched DEF vars, storeVars
<1>11. CASE UploadStep
  BY <1>1, <1>2, <1>3, <1>4, <1>5, <1>6, <1>11 DEF UploadStep
<1> QED BY <1>7, <1>8, <1>9, <1>10, <1>11 DEF Next

\* BarHasOwner for any number of files, bars and uploads, whichever names share a bar:
\* a progress bar of files.js:1123 is hidden by an upload or by the timeout at 1471.
THEOREM BarsGoAway == Spec => []BarHasOwner
<1>1. Init => BarInv
  BY DEF Init, BarInv, BarTypes, UploadsOK, Upload, BarsOK, BarHasOwner, BarShown, NoUpload
<1>2. BarInv => BarHasOwner
  BY DEF BarInv
<1> QED BY <1>1, <1>2, BarInvKept, PTL DEF Spec

(* The list: types *)

Load  == [at : {"idle", "sent", "read"}, list : SUBSET Files, old : BOOLEAN]
Batch == [ kind : Kinds \cup {"none", "delete"}, files : SUBSET Files, restore : BOOLEAN,
           at : {"idle", "devices", "modal", "request", "deleting", "left", "removed"} ]

PageOK ==
  /\ store \subseteq Files /\ fileList \subseteq Files /\ selectedFiles \subseteq Files
  /\ panel \in BOOLEAN /\ known \in BOOLEAN /\ lost \in BOOLEAN

LoadsOK   == loads \in [Loads -> Load]
BatchesOK == batches \in [Batches -> Batch]

\* A batch whose dialog is open waits for it.
DialogsWait ==
  /\ modal \in [Kinds -> Batches \cup {None}]
  /\ \A k \in Kinds : modal[k] # None =>
       batches[modal[k]].at = "modal" /\ batches[modal[k]].kind = k

ListTypes == PageOK /\ LoadsOK /\ BatchesOK /\ DialogsWait

LEMMA NoneTyped == NoLoad \in Load /\ Asked \in Load /\ NoBatch \in Batch
<1>1. {} \in SUBSET Files
  OBVIOUS
<1>2. NoLoad \in Load /\ Asked \in Load
  BY <1>1 DEF Load, NoLoad, Asked
<1>3. NoBatch \in Batch
  BY <1>1 DEF Batch, NoBatch
<1> QED BY <1>2, <1>3

LEMMA LoadBegins == ASSUME LoadsOK, loadFileList PROVE LoadsOK'
BY NoneTyped DEF LoadsOK, loadFileList

LEMMA StoreChanges ==
  ASSUME LoadsOK, NEW files, StoreBecomes(files), known \in BOOLEAN
  PROVE  LoadsOK' /\ store' = files /\ known' \in BOOLEAN
<1>1. CASE files = store
  BY <1>1 DEF StoreBecomes, LoadsOK
<1>2. CASE files # store
  <2>1. /\ loads' = [l \in Loads |-> [loads[l] EXCEPT !.old = loads[l].at = "read"]]
        /\ store' = files /\ known' = FALSE
    BY <1>2 DEF StoreBecomes
  <2>2. ASSUME NEW l \in Loads PROVE [loads[l] EXCEPT !.old = loads[l].at = "read"] \in Load
    <3>1. loads[l] \in Load /\ (loads[l].at = "read") \in BOOLEAN
      BY DEF LoadsOK
    <3> QED BY <3>1 DEF Load
  <2> QED BY <2>1, <2>2 DEF LoadsOK
<1> QED BY <1>1, <1>2

\* A step of a batch without an open dialog.
LEMMA BatchMoves ==
  ASSUME BatchesOK, DialogsWait, NEW b \in Batches, batches[b].at # "modal",
         NEW r \in Batch, batches' = [batches EXCEPT ![b] = r], UNCHANGED modal
  PROVE  BatchesOK' /\ DialogsWait'
<1>1. BatchesOK'
  BY DEF BatchesOK
<1>2. ASSUME NEW k \in Kinds, modal[k] # None
      PROVE  batches'[modal[k]] = batches[modal[k]]
  BY <1>2 DEF BatchesOK, DialogsWait
<1> QED BY <1>1, <1>2 DEF DialogsWait

\* A dialog opens for b, in the place of the one that was open, if any.
LEMMA DialogOpens ==
  ASSUME BatchesOK, DialogsWait, NEW b \in Batches, NEW kind \in Kinds,
         batches[b].at # "modal", batches'[b].at = "modal", batches'[b].kind = kind,
         batches' \in [Batches -> Batch], modal' = [modal EXCEPT ![kind] = b],
         \A c \in Batches \ {b} : c # modal[kind] => batches'[c] = batches[c]
  PROVE  BatchesOK' /\ DialogsWait'
<1>1. ASSUME NEW k \in Kinds, k # kind, modal[k] # None
      PROVE  batches'[modal[k]] = batches[modal[k]]
  <2>1. modal[k] # b /\ modal[k] # modal[kind]
    BY <1>1 DEF DialogsWait
  <2> QED BY <1>1, <2>1 DEF DialogsWait
<1>2. modal' \in [Kinds -> Batches \cup {None}]
  BY DEF DialogsWait
<1>3. ASSUME NEW k \in Kinds, modal'[k] # None
      PROVE  batches'[modal'[k]].at = "modal" /\ batches'[modal'[k]].kind = k
  <2>1. CASE k = kind
    BY <2>1 DEF DialogsWait
  <2>2. CASE k # kind
    BY <1>1, <1>3, <2>2 DEF DialogsWait
  <2> QED BY <2>1, <2>2
<1> QED BY <1>2, <1>3 DEF BatchesOK, DialogsWait

LEMMA DialogCloses ==
  ASSUME BatchesOK, DialogsWait, NEW b \in Batches, NEW kind \in Kinds, Closes(b, kind),
         batches' \in {[batches EXCEPT ![b].at = "request"], [batches EXCEPT ![b] = NoBatch]}
  PROVE  BatchesOK' /\ DialogsWait'
<1>1. BatchesOK'
  <2>1. [batches[b] EXCEPT !.at = "request"] \in Batch
    BY DEF BatchesOK, Batch
  <2>2. \/ batches' = [batches EXCEPT ![b] = [batches[b] EXCEPT !.at = "request"]]
        \/ batches' = [batches EXCEPT ![b] = NoBatch]
    OBVIOUS
  <2> QED BY <2>1, <2>2, NoneTyped DEF BatchesOK
<1>2. b # None
  BY FilesAssumption
<1>3. ASSUME NEW k \in Kinds, k # kind, modal[k] # None
      PROVE  batches'[modal[k]] = batches[modal[k]]
  <2>1. modal[k] # b
    BY <1>2, <1>3 DEF DialogsWait, Closes
  <2> QED BY <2>1, <1>3 DEF DialogsWait, BatchesOK
<1>4. modal' = [modal EXCEPT ![kind] = None]
  BY DEF Closes
<1> QED BY <1>1, <1>3, <1>4 DEF DialogsWait

LEMMA Removing ==
  ASSUME PageOK, LoadsOK, NEW files \in SUBSET Files, StoreBecomes(files),
         UNCHANGED <<fileList, selectedFiles, panel, lost>>
  PROVE  PageOK' /\ LoadsOK'
BY StoreChanges DEF PageOK

LEMMA ListTypesKept == ASSUME BarInv, ListTypes, [Next]_vars PROVE ListTypes'
<1> USE DEF storeVars, ghostVars, drawnVars, batchVars
<1>1. ASSUME NEW l \in Loads, ListRead(l) PROVE ListTypes'
  <2>1. [at |-> "read", list |-> store, old |-> FALSE] \in Load
    BY DEF ListTypes, PageOK, Load
  <2>2. LoadsOK'
    BY <1>1, <2>1 DEF ListRead, ListTypes, LoadsOK
  <2> QED BY <1>1, <2>2 DEF ListRead, ListTypes, PageOK, BatchesOK, DialogsWait
<1>2. ASSUME NEW l \in Loads, ListApplied(l) PROVE ListTypes'
  <2>1. LoadsOK'
    BY <1>2, NoneTyped DEF ListApplied, ListTypes, LoadsOK
  <2>2. loads[l].list \subseteq Files /\ loads[l].old \in BOOLEAN
    BY DEF ListTypes, LoadsOK, Load
  <2>3. PageOK'
    BY <1>2, <2>2 DEF ListApplied, renderFileList, ListTypes, PageOK
  <2> QED BY <1>2, <2>1, <2>3 DEF ListApplied, ListTypes, BatchesOK, DialogsWait
<1>3. ASSUME NEW l \in Loads, ListFails(l) PROVE ListTypes'
  BY <1>3, NoneTyped DEF ListFails, ListTypes, PageOK, LoadsOK, BatchesOK, DialogsWait
<1>4. CASE PanelClick
  <2>1. LoadsOK'
    BY <1>4, LoadBegins DEF PanelClick, ListTypes, LoadsOK
  <2> QED BY <1>4, <2>1 DEF PanelClick, ListTypes, PageOK, BatchesOK, DialogsWait
<1>5. ASSUME NEW chosen \in SUBSET Files, NEW ticked, Tick(chosen, ticked) PROVE ListTypes'
  BY <1>5 DEF Tick, ListTypes, PageOK, LoadsOK, BatchesOK, DialogsWait
<1>6. CASE SelectAllClick
  BY <1>5, <1>6 DEF SelectAllClick, ListTypes, PageOK
<1>7. ASSUME NEW f \in Files, BoxClick(f) PROVE ListTypes'
  BY <1>5, <1>7 DEF BoxClick, ListTypes, PageOK
<1>8. ASSUME NEW u \in Uploads,
             \/ \E queue \in Drops : handleFiles(u, queue)
             \/ calculateMD5(u) \/ UploadFails(u)
      PROVE  ListTypes'
  BY <1>8 DEF handleFiles, calculateMD5, UploadFails, ListTypes, PageOK, LoadsOK,
        BatchesOK, DialogsWait
<1>9. ASSUME NEW u \in Uploads, Saved(u) PROVE ListTypes'
  <2>1. Current(u) \in Files
    BY <1>9, HeadAndTail DEF Saved, NoUpload, BarInv, BarTypes
  <2>2. store \cup {Current(u)} \in SUBSET Files
    BY <2>1 DEF ListTypes, PageOK
  <2>3. PageOK' /\ LoadsOK'
    BY <1>9, <2>2, Removing DEF Saved, ListTypes
  <2> QED BY <1>9, <2>3 DEF Saved, ListTypes, BatchesOK, DialogsWait
<1>10. ASSUME NEW u \in Uploads, Uploaded(u) PROVE ListTypes'
  <2>1. LoadsOK'
    BY <1>10, LoadBegins DEF Uploaded, Reload, ListTypes
  <2> QED BY <1>10, <2>1 DEF Uploaded, ListTypes, PageOK, BatchesOK, DialogsWait
<1>11. ASSUME NEW c \in timers, BarTimer(c) PROVE ListTypes'
  BY <1>11 DEF BarTimer, ListTypes, PageOK, LoadsOK, BatchesOK, DialogsWait
<1>12. CASE UNCHANGED vars
  BY <1>12 DEF vars, ListTypes, PageOK, LoadsOK, BatchesOK, DialogsWait
<1>13. ASSUME NEW b \in Batches,
              \/ InstallClick(b) \/ PushClick(b) \/ NoDevices(b) \/ InstallDone(b)
              \/ PushDone(b) \/ DeleteClick(b) \/ DeletionBegins(b) \/ DeleteFile(b)
              \/ Removed(b) \/ DeletionLeft(b) \/ LeftEnds(b) \/ BatchFails(b)
              \/ handleBatchDelete(b) \/ runCleanup(b)
       PROVE  BatchesOK' /\ DialogsWait'
  <2>1. batches[b].at # "modal" /\ UNCHANGED modal
    BY <1>13 DEF InstallClick, PushClick, Began, NoBatch, NoDevices, InstallDone, PushDone,
          IsAt, DeleteClick, DeletionBegins, DeleteFile, Removed, DeletionLeft, LeftEnds,
          BatchFails, handleBatchDelete, runCleanup, Cleared
  <2>2. PICK r \in Batch : batches' = [batches EXCEPT ![b] = r]
    <3>1. CASE InstallClick(b)
      <4>1. [kind |-> "install", at |-> "devices", files |-> {}, restore |-> FALSE] \in Batch
        BY DEF Batch, Kinds
      <4> QED BY <3>1, <4>1 DEF InstallClick, Began
    <3>2. CASE PushClick(b)
      <4>1. [kind |-> "push", at |-> "devices", files |-> {}, restore |-> FALSE] \in Batch
        BY DEF Batch, Kinds
      <4> QED BY <3>2, <4>1 DEF PushClick, Began
    <3>3. CASE DeleteClick(b)
      <4>1. [kind |-> "delete", at |-> "request", files |-> selectedFiles, restore |-> FALSE]
              \in Batch
        BY DEF Batch, ListTypes, PageOK
      <4> QED BY <3>3, <4>1 DEF DeleteClick, Began
    <3>4. CASE Removed(b) \/ DeletionLeft(b)
      <4>1. ASSUME NEW at \in {"removed", "left"} PROVE [batches[b] EXCEPT !.at = at] \in Batch
        BY DEF ListTypes, BatchesOK, Batch
      <4>2. \E at \in {"removed", "left"} :
              batches' = [batches EXCEPT ![b] = [batches[b] EXCEPT !.at = at]]
        BY <3>4 DEF Removed, DeletionLeft
      <4> QED BY <4>1, <4>2
    <3>6. CASE DeletionBegins(b)
      <4> DEFINE asked == IF batches[b].kind = "delete" THEN {batches[b].files} ELSE SUBSET store
      <4>3. asked \subseteq SUBSET Files
        BY DEF ListTypes, PageOK, BatchesOK, Batch
      <4>4. PICK files \in asked :
              batches' = [batches EXCEPT ![b].at = "deleting", ![b].files = files]
        BY <3>6 DEF DeletionBegins
      <4> HIDE DEF asked
      <4>1. /\ files \in SUBSET Files
            /\ batches' = [batches EXCEPT ![b] = [batches[b] EXCEPT !.at = "deleting", !.files = files]]
        BY <4>3, <4>4
      <4>2. [batches[b] EXCEPT !.at = "deleting", !.files = files] \in Batch
        BY <4>1 DEF ListTypes, BatchesOK, Batch
      <4> QED BY <4>1, <4>2
    <3>7. CASE DeleteFile(b)
      <4>1. PICK f : batches' = [batches EXCEPT ![b].files = batches[b].files \ {f}]
        BY <3>7 DEF DeleteFile
      <4>2. [batches[b] EXCEPT !.files = batches[b].files \ {f}] \in Batch
        BY DEF ListTypes, BatchesOK, Batch
      <4> QED BY <4>1, <4>2
    <3>5. CASE \/ NoDevices(b) \/ InstallDone(b) \/ PushDone(b) \/ BatchFails(b) \/ LeftEnds(b)
               \/ handleBatchDelete(b) \/ runCleanup(b)
      BY <3>5, NoneTyped DEF NoDevices, InstallDone, PushDone, BatchFails, LeftEnds,
            handleBatchDelete, runCleanup, Cleared, Ended
    <3> QED BY <1>13, <3>1, <3>2, <3>3, <3>4, <3>5, <3>6, <3>7
  <2> QED BY <2>1, <2>2, BatchMoves DEF ListTypes
<1>14. ASSUME NEW b \in Batches, InstallOpens(b) \/ PushOpens(b) \/ CleanupOpens(b)
       PROVE  BatchesOK' /\ DialogsWait'
  <2>1. CASE InstallOpens(b)
    <3> DEFINE r == [batches[b] EXCEPT !.at = "modal", !.restore = panel]
    <3>1. r \in Batch /\ r.at = "modal" /\ r.kind = "install" /\ batches[b].at # "modal"
      BY <2>1 DEF InstallOpens, IsAt, ListTypes, BatchesOK, Batch, PageOK
    <3>2. batches' = [batches EXCEPT ![b] = r] /\ modal' = [modal EXCEPT !["install"] = b]
      BY <2>1 DEF InstallOpens
    <3> HIDE DEF r
    <3> QED BY <3>1, <3>2, DialogOpens DEF ListTypes, BatchesOK, Kinds
  <2>2. CASE PushOpens(b)
    <3> DEFINE r == [batches[b] EXCEPT !.at = "modal"]
    <3>1. r \in Batch /\ r.at = "modal" /\ r.kind = "push" /\ batches[b].at # "modal"
      BY <2>2 DEF PushOpens, IsAt, ListTypes, BatchesOK, Batch
    <3>2. /\ batches' = [c \in Batches |-> IF c = b THEN r
                                           ELSE IF c = modal["push"] THEN NoBatch ELSE batches[c]]
          /\ modal' = [modal EXCEPT !["push"] = b]
      BY <2>2 DEF PushOpens
    <3> HIDE DEF r
    <3> QED BY <3>1, <3>2, NoneTyped, DialogOpens DEF ListTypes, BatchesOK, Kinds
  <2>3. CASE CleanupOpens(b)
    <3> DEFINE r == [kind |-> "cleanup", at |-> "modal", files |-> {}, restore |-> FALSE]
    <3>1. r \in Batch /\ r.at = "modal" /\ r.kind = "cleanup" /\ batches[b].at # "modal"
      BY <2>3 DEF CleanupOpens, Began, NoBatch, Batch, Kinds
    <3>2. batches' = [batches EXCEPT ![b] = r] /\ modal' = [modal EXCEPT !["cleanup"] = b]
      BY <2>3 DEF CleanupOpens, Began
    <3> HIDE DEF r
    <3> QED BY <3>1, <3>2, DialogOpens DEF ListTypes, BatchesOK, Kinds
  <2> QED BY <1>14, <2>1, <2>2, <2>3
<1>15. ASSUME NEW b \in Batches, InstallAnswered(b) \/ PushAnswered(b) \/ CleanupAnswered(b)
       PROVE  BatchesOK' /\ DialogsWait'
  BY <1>15, DialogCloses DEF InstallAnswered, PushAnswered, CleanupAnswered, ListTypes, Kinds
<1>16. ASSUME NEW b \in Batches,
              \/ InstallClick(b) \/ InstallOpens(b) \/ InstallAnswered(b) \/ InstallDone(b)
              \/ PushClick(b) \/ PushOpens(b) \/ PushAnswered(b) \/ PushDone(b) \/ NoDevices(b)
              \/ DeleteClick(b) \/ CleanupOpens(b) \/ CleanupAnswered(b) \/ BatchFails(b)
              \/ DeletionBegins(b) \/ Removed(b) \/ DeletionLeft(b) \/ LeftEnds(b)
       PROVE  PageOK' /\ LoadsOK'
  <2>1. UNCHANGED <<loads, store, fileList, known>>
    BY <1>16 DEF InstallClick, InstallOpens, InstallAnswered, InstallDone, PushClick, PushOpens,
          PushAnswered, PushDone, NoDevices, DeleteClick, CleanupOpens, CleanupAnswered,
          BatchFails, DeletionBegins, Removed, DeletionLeft, LeftEnds, renderFileList
  <2>2. selectedFiles' \in {selectedFiles, {}}
    BY <1>16 DEF InstallClick, InstallOpens, InstallAnswered, InstallDone, PushClick, PushOpens,
          PushAnswered, PushDone, NoDevices, DeleteClick, CleanupOpens, CleanupAnswered,
          BatchFails, DeletionBegins, Removed, DeletionLeft, LeftEnds, renderFileList
  <2>3. lost' \in BOOLEAN
    BY <1>16 DEF InstallClick, InstallOpens, InstallAnswered, InstallDone, PushClick, PushOpens,
          PushAnswered, PushDone, NoDevices, DeleteClick, CleanupOpens, CleanupAnswered,
          BatchFails, DeletionBegins, Removed, DeletionLeft, LeftEnds, ListTypes, PageOK
  <2>4. panel' \in BOOLEAN
    <3>1. batches[b].restore \in BOOLEAN
      BY DEF ListTypes, BatchesOK, Batch
    <3> QED BY <1>16, <3>1 DEF InstallClick, InstallOpens, InstallAnswered, InstallDone,
          PushClick, PushOpens, PushAnswered, PushDone, NoDevices, DeleteClick, CleanupOpens,
          CleanupAnswered, BatchFails, DeletionBegins, Removed, DeletionLeft, LeftEnds, ListTypes, PageOK
  <2> QED BY <2>1, <2>2, <2>3, <2>4 DEF ListTypes, PageOK, LoadsOK
<1>17. ASSUME NEW b \in Batches, DeleteFile(b) PROVE PageOK' /\ LoadsOK'
  <2>1. PICK files \in SUBSET Files : StoreBecomes(files)
    BY <1>17 DEF DeleteFile, ListTypes, PageOK
  <2> QED BY <1>17, <2>1, Removing DEF DeleteFile, ListTypes
<1>18. ASSUME NEW b \in Batches, handleBatchDelete(b) \/ runCleanup(b)
       PROVE  PageOK' /\ LoadsOK'
  <2>1. loadFileList /\ selectedFiles' = {} /\ UNCHANGED <<store, fileList, panel, ghostVars>>
    BY <1>18 DEF handleBatchDelete, runCleanup, Cleared
  <2> QED BY <2>1, LoadBegins DEF ListTypes, PageOK
<1>19. CASE BatchStep
  BY <1>13, <1>14, <1>15, <1>16, <1>17, <1>18, <1>19 DEF BatchStep, ListTypes
<1> QED BY <1>1, <1>2, <1>3, <1>4, <1>6, <1>7, <1>8, <1>9, <1>10, <1>11, <1>12, <1>19
        DEF Next, ListStep, UploadStep, UserStep

(* The list: what is owed *)

\* A list that was read and is not old is the one the server has.
FreshLists == \A l \in Loads :
  /\ loads[l].old => loads[l].at = "read"
  /\ loads[l].at = "read" /\ ~loads[l].old => loads[l].list = store

Promised(l) == loads[l].at # "idle" /\ ~loads[l].old

\* A deletion whose answer, or the lack of one, the page has still to hear of.
Deleting == {"deleting", "left", "removed"}

\* A list that is not old is on its way, or somebody will ask for one.
ListOwed ==
  \/ \E l \in Loads : Promised(l)
  \/ \E u \in Uploads : uploads[u].at = "saved"
  \/ \E b \in Batches : batches[b].at \in Deleting

ListRight == ~lost => IF known THEN fileList = store ELSE ListOwed

ListInv == FreshLists /\ ListRight

LEMMA NobodyOwesLess ==
  ASSUME ListInv, UNCHANGED <<store, fileList, loads, known, lost>>,
         \A u \in Uploads : uploads[u].at = "saved" => uploads'[u].at = "saved",
         \A b \in Batches : batches[b].at \in Deleting => batches'[b].at \in Deleting
  PROVE  ListInv'
BY DEF ListInv, FreshLists, ListRight, ListOwed, Promised

LEMMA AskedAgain ==
  ASSUME ListInv, LoadsOK, loadFileList, UNCHANGED <<store, fileList, known, lost>>
  PROVE  ListInv'
<1>1. PICK l \in IdleLoads : loads' = [loads EXCEPT ![l] = Asked]
  BY DEF loadFileList
<1>2. loads'[l] = Asked /\ \A m \in Loads \ {l} : loads'[m] = loads[m]
  BY <1>1 DEF IdleLoads, LoadsOK
<1>3. FreshLists'
  BY <1>2 DEF ListInv, FreshLists, Asked
<1>4. \E m \in Loads : Promised(m)'
  BY <1>2 DEF IdleLoads, Promised, Asked
<1> QED BY <1>3, <1>4 DEF ListInv, ListRight, ListOwed

LEMMA GivenUp ==
  ASSUME ListInv, UNCHANGED <<store, loads>>, lost' PROVE ListInv'
BY DEF ListInv, FreshLists, ListRight

LEMMA StoreOwes ==
  ASSUME ListInv, LoadsOK, NEW files, StoreBecomes(files), UNCHANGED <<fileList, lost>>,
         \/ \E u \in Uploads : uploads'[u].at = "saved"
         \/ \E b \in Batches : batches'[b].at \in Deleting
  PROVE  ListInv'
<1>1. ListOwed'
  BY DEF ListOwed
<1>2. CASE files = store
  <2>1. UNCHANGED <<store, loads, known>>
    BY <1>2 DEF StoreBecomes
  <2> QED BY <1>1, <2>1 DEF ListInv, FreshLists, ListRight
<1>3. CASE files # store
  <2>1. /\ loads' = [l \in Loads |-> [loads[l] EXCEPT !.old = loads[l].at = "read"]]
        /\ known' = FALSE
    BY <1>3 DEF StoreBecomes
  <2>2. ASSUME NEW l \in Loads
        PROVE  loads'[l].at = loads[l].at /\ loads'[l].old = (loads[l].at = "read")
    BY <2>1 DEF LoadsOK, Load
  <2>3. FreshLists'
    BY <2>2 DEF FreshLists
  <2> QED BY <1>1, <2>1, <2>3 DEF ListInv, ListRight
<1> QED BY <1>2, <1>3

LEMMA ListApplies ==
  ASSUME ListInv, ListTypes, NEW l \in Loads, ListApplied(l) PROVE ListInv'
<1>1. /\ loads' = [loads EXCEPT ![l] = NoLoad] /\ loads[l].at = "read"
      /\ fileList' = loads[l].list /\ UNCHANGED <<store, uploads, batches>>
  BY DEF ListApplied, renderFileList, storeVars, batchVars, uploadVars
<1>2. loads'[l] = NoLoad /\ \A m \in Loads \ {l} : loads'[m] = loads[m]
  BY <1>1 DEF ListTypes, LoadsOK
<1>3. FreshLists'
  BY <1>1, <1>2 DEF ListInv, FreshLists, NoLoad
<1>4. CASE ~loads[l].old
  <2>1. known' /\ ~lost' /\ loads[l].list = store
    BY <1>1, <1>4 DEF ListApplied, ListInv, FreshLists
  <2> QED BY <1>1, <1>3, <2>1 DEF ListInv, ListRight
<1>5. CASE loads[l].old
  <2>1. (known' <=> known) /\ (lost' <=> (known \/ lost))
    BY <1>5 DEF ListApplied, ListTypes, PageOK
  <2>2. CASE known \/ lost
    BY <1>3, <2>1, <2>2 DEF ListInv, ListRight
  <2>3. CASE ~known /\ ~lost
    <3>1. ListOwed'
      BY <1>1, <1>2, <1>5, <2>3 DEF ListInv, ListRight, ListOwed, Promised
    <3> QED BY <1>3, <2>1, <2>3, <3>1 DEF ListInv, ListRight
  <2> QED BY <2>2, <2>3
<1> QED BY <1>4, <1>5

LEMMA ListInvKept == ASSUME BarInv, ListTypes, ListInv, [Next]_vars PROVE ListInv'
<1> USE DEF storeVars, ghostVars, drawnVars, batchVars
<1>1. ASSUME NEW l \in Loads, ListRead(l) PROVE ListInv'
  <2>1. /\ loads'[l] = [at |-> "read", list |-> store, old |-> FALSE]
        /\ \A m \in Loads \ {l} : loads'[m] = loads[m]
        /\ UNCHANGED <<store, fileList, known, lost>>
    BY <1>1 DEF ListRead, ListTypes, LoadsOK
  <2>2. FreshLists' /\ Promised(l)'
    BY <2>1 DEF ListInv, FreshLists, Promised
  <2> QED BY <2>1, <2>2 DEF ListInv, ListRight, ListOwed
<1>2. ASSUME NEW l \in Loads, ListFails(l) PROVE ListInv'
  <2>1. /\ loads'[l] = NoLoad /\ \A m \in Loads \ {l} : loads'[m] = loads[m]
        /\ lost' /\ UNCHANGED store
    BY <1>2 DEF ListFails, ListTypes, LoadsOK
  <2> QED BY <2>1 DEF ListInv, FreshLists, ListRight, NoLoad
<1>3. CASE UserStep
  <2>1. CASE PanelClick
    BY <2>1, AskedAgain, NobodyOwesLess DEF PanelClick, uploadVars, ListTypes
  <2>2. ASSUME NEW chosen, NEW ticked, Tick(chosen, ticked) PROVE ListInv'
    BY <2>2, NobodyOwesLess DEF Tick, uploadVars
  <2> QED BY <1>3, <2>1, <2>2 DEF UserStep, SelectAllClick, BoxClick
<1>4. ASSUME NEW u \in Uploads, NEW queue \in Drops, handleFiles(u, queue) PROVE ListInv'
  <2>1. \A v \in Uploads : uploads[v].at = "saved" => uploads'[v].at = "saved"
    BY <1>4 DEF handleFiles, showUploadProgress, NoUpload, BarInv, BarTypes, UploadsOK
  <2> QED BY <1>4, <2>1, NobodyOwesLess DEF handleFiles
<1>5. ASSUME NEW u \in Uploads, calculateMD5(u) PROVE ListInv'
  <2>1. \A v \in Uploads : uploads[v].at = "saved" => uploads'[v].at = "saved"
    BY <1>5 DEF calculateMD5, BarInv, BarTypes, UploadsOK
  <2> QED BY <1>5, <2>1, NobodyOwesLess DEF calculateMD5
<1>6. ASSUME NEW u \in Uploads, Saved(u) PROVE ListInv'
  <2>1. uploads'[u].at = "saved"
    BY <1>6 DEF Saved, BarInv, BarTypes, UploadsOK, Upload
  <2> QED BY <1>6, <2>1, StoreOwes DEF Saved, ListTypes
<1>7. ASSUME NEW u \in Uploads, Uploaded(u) PROVE ListInv'
  BY <1>7, AskedAgain DEF Uploaded, Reload, ListTypes
<1>8. ASSUME NEW u \in Uploads, UploadFails(u) PROVE ListInv'
  <2>1. CASE uploads[u].at = "saved"
    BY <1>8, <2>1, GivenUp DEF UploadFails
  <2>2. CASE uploads[u].at # "saved"
    <3>1. \A v \in Uploads \ {u} : uploads'[v] = uploads[v]
      <4>1. showUploadProgress(u, Tail(uploads[u].queue))
        BY <1>8 DEF UploadFails, hideUploadProgress
      <4>2. PICK w : uploads' = [uploads EXCEPT ![u] = w]
        BY <4>1, Zenon DEF showUploadProgress
      <4>3. uploads \in [Uploads -> Upload]
        BY DEF BarInv, BarTypes, UploadsOK
      <4> QED BY <4>2, <4>3
    <3>2. lost' = lost
      BY <1>8, <2>2 DEF UploadFails, ListTypes, PageOK
    <3>3. UNCHANGED <<store, fileList, loads, known, batches>>
      BY <1>8 DEF UploadFails
    <3> QED BY <2>2, <3>1, <3>2, <3>3, NobodyOwesLess
  <2> QED BY <2>1, <2>2
<1>9. ASSUME NEW c \in timers, BarTimer(c) PROVE ListInv'
  BY <1>9, NobodyOwesLess DEF BarTimer
<1>10. CASE UNCHANGED vars
  BY <1>10, NobodyOwesLess DEF vars, uploadVars
<1>11. ASSUME NEW b \in Batches,
              \/ InstallClick(b) \/ PushClick(b) \/ NoDevices(b) \/ InstallDone(b)
              \/ PushDone(b) \/ DeleteClick(b) \/ InstallOpens(b) \/ CleanupOpens(b)
              \/ InstallAnswered(b) \/ PushAnswered(b) \/ CleanupAnswered(b) \/ PushOpens(b)
       PROVE  ListInv'
  <2>1. UNCHANGED <<store, fileList, loads, known, lost, uploads>>
    BY <1>11 DEF InstallClick, InstallOpens, InstallAnswered, InstallDone, PushClick, PushOpens,
          PushAnswered, PushDone, NoDevices, DeleteClick, CleanupOpens, CleanupAnswered,
          renderFileList, uploadVars
  <2>2. ASSUME NEW k \in Kinds, Closes(b, k) PROVE batches[b].at = "modal"
    BY <2>2, FilesAssumption DEF Closes, ListTypes, DialogsWait
  <2>3. batches[b].at \notin Deleting
    BY <1>11, <2>2 DEF InstallClick, InstallOpens, InstallAnswered, InstallDone, PushClick,
          PushOpens, PushAnswered, PushDone, NoDevices, DeleteClick, CleanupOpens,
          CleanupAnswered, Began, NoBatch, IsAt, Kinds, Deleting
  <2>4. CASE PushOpens(b)
    <3>1. ASSUME NEW c \in Batches, c = modal["push"] PROVE batches[c].at = "modal"
      BY <3>1, FilesAssumption DEF ListTypes, DialogsWait, Kinds
    <3>2. batches' = [c \in Batches |->
                        IF c = b THEN [batches[b] EXCEPT !.at = "modal"]
                        ELSE IF c = modal["push"] THEN NoBatch ELSE batches[c]]
      BY <2>4 DEF PushOpens
    <3> QED BY <2>1, <2>3, <3>1, <3>2, NobodyOwesLess DEF Deleting
  <2>5. CASE ~PushOpens(b)
    <3>1. \A c \in Batches \ {b} : batches'[c] = batches[c]
      BY <1>11, <2>5 DEF InstallClick, InstallOpens, InstallAnswered, InstallDone, PushClick,
            PushAnswered, PushDone, NoDevices, DeleteClick, CleanupOpens, CleanupAnswered,
            Began, Ended, ListTypes, BatchesOK
    <3> QED BY <2>1, <2>3, <3>1, NobodyOwesLess
  <2> QED BY <2>4, <2>5
<1>12. ASSUME NEW b \in Batches, DeleteFile(b) PROVE ListInv'
  <2>1. batches'[b].at \in Deleting
    BY <1>12 DEF DeleteFile, Deleting, ListTypes, BatchesOK, Batch
  <2>2. PICK files : StoreBecomes(files)
    BY <1>12 DEF DeleteFile
  <2> QED BY <1>12, <2>1, <2>2, StoreOwes DEF DeleteFile, ListTypes
<1>15. ASSUME NEW b \in Batches, DeletionBegins(b) \/ Removed(b) \/ DeletionLeft(b) PROVE ListInv'
  <2>1. UNCHANGED <<store, fileList, loads, known, lost, uploads>>
    BY <1>15 DEF DeletionBegins, Removed, DeletionLeft, uploadVars
  <2>2. batches'[b].at \in Deleting
    BY <1>15 DEF DeletionBegins, Removed, DeletionLeft, Deleting, ListTypes, BatchesOK, Batch
  <2>3. \A c \in Batches \ {b} : batches'[c] = batches[c]
    BY <1>15 DEF DeletionBegins, Removed, DeletionLeft, ListTypes, BatchesOK
  <2> QED BY <2>1, <2>2, <2>3, NobodyOwesLess
<1>16. ASSUME NEW b \in Batches, LeftEnds(b) PROVE ListInv'
  BY <1>16, GivenUp DEF LeftEnds
<1>13. ASSUME NEW b \in Batches, handleBatchDelete(b) \/ runCleanup(b) PROVE ListInv'
  BY <1>13, AskedAgain DEF handleBatchDelete, runCleanup, Cleared, ListTypes
<1>14. ASSUME NEW b \in Batches, BatchFails(b) PROVE ListInv'
  <2>1. CASE batches[b].at = "removed"
    BY <1>14, <2>1, GivenUp DEF BatchFails
  <2>2. CASE batches[b].at # "removed"
    <3>1. lost' = lost /\ UNCHANGED <<store, fileList, loads, known, uploads>>
      BY <1>14, <2>2 DEF BatchFails, ListTypes, PageOK, uploadVars
    <3>2. \A c \in Batches \ {b} : batches'[c] = batches[c]
      BY <1>14 DEF BatchFails, Ended, ListTypes, BatchesOK
    <3>3. batches[b].at \notin Deleting
      BY <1>14, <2>2 DEF BatchFails, Deleting
    <3> QED BY <3>1, <3>2, <3>3, NobodyOwesLess
  <2> QED BY <2>1, <2>2
<1> QED BY <1>1, <1>2, <1>3, <1>4, <1>5, <1>6, <1>7, <1>8, <1>9, <1>10, <1>11, <1>12, <1>13,
           <1>14, <1>15, <1>16, ListApplies DEF Next, ListStep, UploadStep, BatchStep

\* ListCatchesUp for any uploads, batches and loads that overlap in any way: each answer
\* to a change of the store asks for the list again (files.js:143, 1249, 1288), and
\* once all lists have come the page shows what the server has, unless one was overtaken
\* or lost.
THEOREM ListsCatchUp == Spec => []ListCatchesUp
<1>1. Init => BarInv /\ ListTypes /\ ListInv
  <2> SUFFICES ASSUME Init PROVE BarInv /\ ListTypes /\ ListInv
    OBVIOUS
  <2>1. PICK first \in Loads : loads = [l \in Loads |-> IF l = first THEN Asked ELSE NoLoad]
    BY DEF Init
  <2>2. BarInv
    BY DEF Init, BarInv, BarTypes, UploadsOK, Upload, BarsOK, BarHasOwner, BarShown, NoUpload
  <2>3. PageOK /\ DialogsWait
    BY DEF Init, PageOK, DialogsWait
  <2>4. LoadsOK /\ BatchesOK
    BY <2>1, NoneTyped DEF Init, LoadsOK, BatchesOK
  <2>5. FreshLists /\ Promised(first)
    BY <2>1 DEF FreshLists, Promised, Asked, NoLoad
  <2> QED BY <2>2, <2>3, <2>4, <2>5 DEF ListTypes, ListInv, ListRight, ListOwed, Init
<1>2. ListInv => ListCatchesUp
  BY DEF ListInv, ListRight, ListOwed, Promised, ListCatchesUp, IdleLoads, NoLoad,
        Deleting
<1> QED BY <1>1, <1>2, BarInvKept, ListTypesKept, ListInvKept, PTL DEF Spec
=============================================================================
