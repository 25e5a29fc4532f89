---------------------------- MODULE ClientFiles ----------------------------
(***************************************************************************)
(* The file page of the browser (assets/web/static/js/files.js): uploads,  *)
(* the list and what is ticked in it, and the batches that install, push   *)
(* or delete what is ticked.                                               *)
(*                                                                         *)
(* A file has one id, which is new when it is uploaded; no other page uses *)
(* the server. Paths, sizes, the MD5 and the dialogs' contents are left    *)
(* out, and so is which devices are selected: fetching them may fail.      *)
(***************************************************************************)
EXTENDS Naturals, FiniteSets, Sequences

CONSTANTS
  Files,
  Apks,      \* the files that can be installed
  BarOf,     \* file -> id of its progress bar; different names may share one
  Uploads,   \* calls of handleFiles
  Batches,   \* calls of handleBatchInstall, handleBatchPush and the like
  Loads,     \* calls of loadFileList
  MaxCalls,  \* calls under way at once when the user begins another
  None

ASSUME FilesAssumption ==
  /\ IsFiniteSet(Files) /\ Apks \subseteq Files
  /\ BarOf = [f \in Files |-> BarOf[f]]
  /\ IsFiniteSet(Uploads) /\ IsFiniteSet(Batches) /\ None \notin Batches
  /\ IsFiniteSet(Loads) /\ MaxCalls \in Nat

Bars  == {BarOf[f] : f \in Files}
Kinds == {"install", "push", "cleanup"}

NoLoad   == [at |-> "idle", list |-> {}, old |-> FALSE]
Asked    == [at |-> "sent", list |-> {}, old |-> FALSE]
\* Which files are installed or pushed is left out.
NoBatch  == [kind |-> "none", at |-> "idle", files |-> {}, restore |-> FALSE]
NoUpload == [at |-> "idle", queue |-> <<>>]

VARIABLES
  store,    \* files on the server
  fresh,    \* files never uploaded
  loads,    \* calls of loadFileList
  fileList,
  selectedFiles,
  checked,  \* files whose box is ticked
  buttons,  \* what updateBatchButtons last set
  undrawn,  \* the selection was cleared and the list not drawn since
  panel,    \* the panel is shown
  modal,    \* kind -> the batch whose dialog is open
  batches,
  uploads,
  bars,     \* id -> the progress element that is shown, 0 for none
  made,     \* progress elements made so far
  timers,   \* elements that hideUploadProgress will remove
  known,    \* a list was applied that was read after the last change of the store
  lost      \* an older one came after it, or an answer did not arrive

storeVars  == <<store, fresh>>
drawnVars  == <<fileList, selectedFiles, checked, buttons, undrawn>>
batchVars  == <<panel, modal, batches>>
barVars    == <<bars, made, timers>>
uploadVars == <<uploads, barVars>>
ghostVars  == <<known, lost>>
vars == <<storeVars, loads, drawnVars, batchVars, uploadVars, ghostVars>>

Mark(shown, ticked) ==
  IF shown \cap ticked = {} THEN "none" ELSE IF shown \subseteq ticked THEN "all" ELSE "some"

updateBatchButtons(list, chosen, ticked) ==
  [ delete  |-> IF chosen # {} THEN "delete" ELSE IF list # {} THEN "cleanup" ELSE "off",
    install |-> chosen # {} /\ chosen \subseteq list \cap Apks,
    push    |-> chosen # {},
    all     |-> Mark(list, ticked) ]

\* initFileManager has called loadFileList.
Init ==
  /\ store \in SUBSET Files /\ fresh = Files \ store
  /\ \E first \in Loads : loads = [l \in Loads |-> IF l = first THEN Asked ELSE NoLoad]
  /\ fileList = {} /\ selectedFiles = {} /\ checked = {} /\ undrawn = FALSE
  /\ buttons = updateBatchButtons({}, {}, {})
  /\ panel = FALSE /\ modal = [k \in Kinds |-> None]
  /\ batches = [b \in Batches |-> NoBatch]
  /\ uploads = [u \in Uploads |-> NoUpload]
  /\ bars = [i \in Bars |-> 0] /\ made = 0 /\ timers = {}
  /\ known = FALSE /\ lost = FALSE

-----------------------------------------------------------------------------
(* The list.                                                               *)

IdleLoads == {l \in Loads : loads[l] = NoLoad}

\* Nothing numbers the calls.
loadFileList ==
  \E l \in IdleLoads : loads' = [loads EXCEPT ![l] = Asked]

\* Lists that were read before are older now.
StoreBecomes(files) ==
  /\ store' = files
  /\ IF files = store THEN UNCHANGED <<loads, known>>
     ELSE /\ loads' = [l \in Loads |-> [loads[l] EXCEPT !.old = loads[l].at = "read"]]
          /\ known' = FALSE

ListRead(l) ==
  /\ loads[l].at = "sent"
  /\ loads' = [loads EXCEPT ![l] = [at |-> "read", list |-> store, old |-> FALSE]]
  /\ UNCHANGED <<storeVars, drawnVars, batchVars, uploadVars, ghostVars>>

\* createFileItem ticks the box of a file that was selected before.
TickedNone(list, chosen) == {}
Ticked(list, chosen) == list \cap chosen

\* Nobody removes from chosen what is not listed any more.
renderFileList(list, chosen) ==
  /\ fileList' = list /\ selectedFiles' = chosen
  /\ checked' = Ticked(list, chosen)
  /\ buttons' = updateBatchButtons(list, chosen, checked')
  /\ undrawn' = FALSE

ListApplied(l) ==
  /\ loads[l].at = "read"
  /\ loads' = [loads EXCEPT ![l] = NoLoad]
  /\ renderFileList(loads[l].list, selectedFiles)
  /\ known' = (known \/ ~loads[l].old)
  /\ lost' = (loads[l].old /\ (known \/ lost))
  /\ UNCHANGED <<storeVars, batchVars, uploadVars>>

ListFails(l) ==
  /\ loads[l] # NoLoad
  /\ loads' = [loads EXCEPT ![l] = NoLoad]
  /\ lost' = TRUE
  /\ UNCHANGED <<storeVars, drawnVars, batchVars, uploadVars, known>>

-----------------------------------------------------------------------------
(* The panel. A dialog covers it.                                          *)

Clickable == \A k \in Kinds : modal[k] = None
InPanel   == panel /\ Clickable

UnderWay == Cardinality({u \in Uploads : uploads[u] # NoUpload})
            + Cardinality({b \in Batches : batches[b] # NoBatch})
            + Cardinality(Loads \ IdleLoads)
MayBegin == UnderWay < MaxCalls

PanelClick ==
  /\ Clickable
  /\ panel' = ~panel
  /\ IF panel THEN UNCHANGED loads ELSE MayBegin /\ loadFileList
  /\ UNCHANGED <<storeVars, drawnVars, modal, batches, uploadVars, ghostVars>>

Tick(chosen, ticked) ==
  /\ InPanel
  /\ selectedFiles' = chosen /\ checked' = ticked
  /\ buttons' = updateBatchButtons(fileList, chosen, ticked)
  /\ UNCHANGED <<storeVars, loads, fileList, undrawn, batchVars, uploadVars, ghostVars>>

BoxClick(f) ==
  /\ f \in fileList
  /\ IF f \in checked THEN Tick(selectedFiles \ {f}, checked \ {f})
                      ELSE Tick(selectedFiles \cup {f}, checked \cup {f})

\* A box that is half ticked becomes ticked.
SelectAllClick ==
  /\ fileList # {}
  /\ IF buttons.all = "all" THEN Tick(selectedFiles \ fileList, {})
                            ELSE Tick(selectedFiles \cup fileList, fileList)

-----------------------------------------------------------------------------
(* Uploads: a call uploads its files one after the other.                  *)

BarShown(i) == bars[i] # 0

\* uploadFile for the head of queue, or the end of the call.
showUploadProgress(u, queue) ==
  IF queue = <<>>
  THEN /\ uploads' = [uploads EXCEPT ![u] = NoUpload]
       /\ UNCHANGED <<bars, made>>
  ELSE /\ uploads' = [uploads EXCEPT ![u] = [at |-> "md5", queue |-> queue]]
       /\ IF BarShown(BarOf[Head(queue)]) THEN UNCHANGED <<bars, made>>
          ELSE /\ made' = made + 1
               /\ bars' = [bars EXCEPT ![BarOf[Head(queue)]] = made + 1]

handleFiles(u, queue) ==
  /\ InPanel /\ MayBegin /\ uploads[u] = NoUpload
  /\ showUploadProgress(u, queue)
  /\ UNCHANGED <<storeVars, loads, drawnVars, batchVars, timers, ghostVars>>

Current(u) == Head(uploads[u].queue)

calculateMD5(u) ==
  /\ uploads[u].at = "md5"
  /\ uploads' = [uploads EXCEPT ![u].at = "sending"]
  /\ UNCHANGED <<storeVars, loads, drawnVars, batchVars, barVars, ghostVars>>

\* The server saves the file.
Saved(u) ==
  /\ uploads[u].at = "sending"
  /\ uploads' = [uploads EXCEPT ![u].at = "saved"]
  /\ StoreBecomes(store \cup {Current(u)})
  /\ fresh' = fresh \ {Current(u)}
  /\ UNCHANGED <<drawnVars, batchVars, barVars, lost>>

\* The element that is shown now is removed a second later, whoever made it.
HiddenNever(i) == timers
Hidden(i) == IF BarShown(i) THEN timers \cup {bars[i]} ELSE timers

hideUploadProgress(u) ==
  /\ timers' = Hidden(BarOf[Current(u)])
  /\ showUploadProgress(u, Tail(uploads[u].queue))

ReloadForgotten == UNCHANGED loads
Reload == loadFileList

Uploaded(u) ==
  /\ uploads[u].at = "saved"
  /\ hideUploadProgress(u)
  /\ Reload
  /\ UNCHANGED <<storeVars, drawnVars, batchVars, ghostVars>>

\* Also when only the answer is lost.
UploadFails(u) ==
  /\ uploads[u] # NoUpload
  /\ hideUploadProgress(u)
  /\ fresh' = fresh \ {Current(u)}
  /\ lost' = (lost \/ uploads[u].at = "saved")
  /\ UNCHANGED <<store, loads, drawnVars, batchVars, known>>

BarTimer(c) ==
  /\ c \in timers /\ timers' = timers \ {c}
  /\ bars' = [i \in Bars |-> IF bars[i] = c THEN 0 ELSE bars[i]]
  /\ UNCHANGED <<storeVars, loads, drawnVars, batchVars, uploads, made, ghostVars>>

-----------------------------------------------------------------------------
(* Batches.                                                                *)

Began(b, kind, at, files) ==
  /\ InPanel /\ MayBegin /\ batches[b] = NoBatch
  /\ batches' = [batches EXCEPT ![b] =
                   [kind |-> kind, at |-> at, files |-> files, restore |-> FALSE]]

IsAt(b, kind, at) == batches[b].kind = kind /\ batches[b].at = at
Ended(b) == batches' = [batches EXCEPT ![b] = NoBatch]

\* handleBatchInstall takes its files before it asks for the devices,
InstallClick(b) ==
  /\ buttons.install /\ selectedFiles \cap fileList \cap Apks # {}
  /\ Began(b, "install", "devices", {})
  /\ UNCHANGED <<storeVars, loads, drawnVars, panel, modal, uploadVars, ghostVars>>

\* handleBatchPush when it has them.
PushClick(b) ==
  /\ buttons.push /\ selectedFiles # {}
  /\ Began(b, "push", "devices", {})
  /\ UNCHANGED <<storeVars, loads, drawnVars, panel, modal, uploadVars, ghostVars>>

\* None selected, none online, or no answer.
NoDevices(b) ==
  /\ batches[b].at = "devices"
  /\ Ended(b)
  /\ UNCHANGED <<storeVars, loads, drawnVars, panel, modal, uploadVars, ghostVars>>

\* An open dialog is replaced; the call that waits for it waits for ever.
InstallOpens(b) ==
  /\ IsAt(b, "install", "devices")
  /\ batches' = [batches EXCEPT ![b].at = "modal", ![b].restore = panel]
  /\ modal' = [modal EXCEPT !["install"] = b]
  /\ panel' = FALSE
  /\ UNCHANGED <<storeVars, loads, drawnVars, uploadVars, ghostVars>>

\* The dialog is open and the selection is cleared, whatever its answer will be.
PushOpens(b) ==
  /\ IsAt(b, "push", "devices")
  /\ batches' = [c \in Batches |->
       IF c = b THEN [batches[b] EXCEPT !.at = "modal"]
       ELSE IF c = modal["push"] THEN NoBatch ELSE batches[c]]
  /\ modal' = [modal EXCEPT !["push"] = b]
  /\ renderFileList(fileList, {})
  /\ UNCHANGED <<storeVars, loads, panel, uploadVars, ghostVars>>

Closes(b, kind) == modal[kind] = b /\ modal' = [modal EXCEPT ![kind] = None]

InstallAnswered(b) ==
  /\ Closes(b, "install")
  /\ batches' \in {[batches EXCEPT ![b].at = "request"], [batches EXCEPT ![b] = NoBatch]}
  /\ panel' = (panel \/ batches[b].restore)
  /\ UNCHANGED <<storeVars, loads, drawnVars, uploadVars, ghostVars>>

PushAnswered(b) ==
  /\ Closes(b, "push")
  /\ batches' \in {[batches EXCEPT ![b].at = "request"], [batches EXCEPT ![b] = NoBatch]}
  /\ UNCHANGED <<storeVars, loads, drawnVars, panel, uploadVars, ghostVars>>

\* The install answer clears the selection even when it reports a failure.
InstallDone(b) ==
  /\ IsAt(b, "install", "request")
  /\ Ended(b)
  /\ renderFileList(fileList, {})
  /\ UNCHANGED <<storeVars, loads, panel, modal, uploadVars, ghostVars>>

PushDone(b) ==
  /\ IsAt(b, "push", "request")
  /\ Ended(b)
  /\ renderFileList(fileList, {})
  /\ UNCHANGED <<storeVars, loads, panel, modal, uploadVars, ghostVars>>

\* The handlers look at selectedFiles, not at what the button says.
DeleteClick(b) ==
  /\ buttons.delete # "off" /\ selectedFiles # {}
  /\ Began(b, "delete", "request", selectedFiles)
  /\ UNCHANGED <<storeVars, loads, drawnVars, panel, modal, uploadVars, ghostVars>>

CleanupOpens(b) ==
  /\ buttons.delete # "off" /\ selectedFiles = {} /\ fileList # {}
  /\ Began(b, "cleanup", "modal", {})
  /\ modal' = [modal EXCEPT !["cleanup"] = b]
  /\ UNCHANGED <<storeVars, loads, drawnVars, panel, uploadVars, ghostVars>>

CleanupAnswered(b) ==
  /\ Closes(b, "cleanup")
  /\ batches' \in {[batches EXCEPT ![b].at = "request"], [batches EXCEPT ![b] = NoBatch]}
  /\ UNCHANGED <<storeVars, loads, drawnVars, panel, uploadVars, ghostVars>>

\* The server goes through the files it was asked for, or those that are old enough,
DeletionBegins(b) ==
  /\ batches[b].at = "request" /\ batches[b].kind \in {"delete", "cleanup"}
  /\ \E files \in IF batches[b].kind = "delete" THEN {batches[b].files} ELSE SUBSET store :
       batches' = [batches EXCEPT ![b].at = "deleting", ![b].files = files]
  /\ UNCHANGED <<storeVars, loads, drawnVars, panel, modal, uploadVars, ghostVars>>

\* and deletes one after the other. It may fail at one and goes on.
DeleteFile(b) ==
  /\ batches[b].at \in {"deleting", "left"}
  /\ \E f \in batches[b].files :
       /\ batches' = [batches EXCEPT ![b].files = batches[b].files \ {f}]
       /\ \E files \in {store, store \ {f}} : StoreBecomes(files)
  /\ UNCHANGED <<fresh, drawnVars, panel, modal, uploadVars, lost>>

Removed(b) ==
  /\ batches[b].at = "deleting" /\ batches[b].files = {}
  /\ batches' = [batches EXCEPT ![b].at = "removed"]
  /\ UNCHANGED <<storeVars, loads, drawnVars, panel, modal, uploadVars, ghostVars>>

\* The selection of the moment is cleared, the boxes wait for the list.
Cleared(b, kind) ==
  /\ IsAt(b, kind, "removed")
  /\ Ended(b)
  /\ selectedFiles' = {} /\ undrawn' = TRUE
  /\ loadFileList
  /\ UNCHANGED <<storeVars, fileList, checked, buttons, panel, modal, uploadVars, ghostVars>>

handleBatchDelete(b) == Cleared(b, "delete")
runCleanup(b) == Cleared(b, "cleanup")

\* An error, or no answer: a message is all the user gets.
BatchFails(b) ==
  /\ batches[b].at \in {"request", "removed"}
  /\ Ended(b)
  /\ lost' = (lost \/ batches[b].at = "removed")
  /\ UNCHANGED <<storeVars, loads, drawnVars, panel, modal, uploadVars, known>>

\* The server goes on without the page.
DeletionLeft(b) ==
  /\ batches[b].at = "deleting"
  /\ batches' = [batches EXCEPT ![b].at = "left"]
  /\ UNCHANGED <<storeVars, loads, drawnVars, panel, modal, uploadVars, ghostVars>>

LeftEnds(b) ==
  /\ batches[b].at = "left" /\ batches[b].files = {}
  /\ Ended(b)
  /\ lost' = TRUE
  /\ UNCHANGED <<storeVars, loads, drawnVars, panel, modal, uploadVars, known>>

-----------------------------------------------------------------------------
Waiting == UNION {{uploads[u].queue[i] : i \in 1..Len(uploads[u].queue)} : u \in Uploads}

\* Files that are dropped together; a file is dropped once.
Drops ==
  LET free == fresh \ Waiting IN
  {<<f>> : f \in free} \cup {q \in free \X free : q[1] # q[2]}

ListStep == \E l \in Loads : ListRead(l) \/ ListApplied(l) \/ ListFails(l)

UploadStep ==
  \/ \E u \in Uploads : \/ \E queue \in Drops : handleFiles(u, queue)
                        \/ calculateMD5(u) \/ Saved(u) \/ Uploaded(u) \/ UploadFails(u)
  \/ \E c \in timers : BarTimer(c)

UserStep == PanelClick \/ SelectAllClick \/ \E f \in Files : BoxClick(f)

BatchStep == \E b \in Batches :
  \/ InstallClick(b) \/ InstallOpens(b) \/ InstallAnswered(b) \/ InstallDone(b)
  \/ PushClick(b) \/ PushOpens(b) \/ PushAnswered(b) \/ PushDone(b) \/ NoDevices(b)
  \/ DeleteClick(b) \/ CleanupOpens(b) \/ CleanupAnswered(b)
  \/ DeletionBegins(b) \/ DeleteFile(b) \/ Removed(b) \/ DeletionLeft(b) \/ LeftEnds(b)
  \/ handleBatchDelete(b) \/ runCleanup(b) \/ BatchFails(b)

Next == ListStep \/ UploadStep \/ UserStep \/ BatchStep

Spec == Init /\ [][Next]_vars
-----------------------------------------------------------------------------
(* What the page promises.                                                 *)

\* Boxes and buttons follow the selection through reloads, uploads and batches, but
\* for the time after a deletion until the list arrives: install is offered only for
\* APKs that are still listed, "clean up" only when nothing is selected.
ButtonsTruthful ==
  ~undrawn =>
    /\ checked = selectedFiles \cap fileList
    /\ buttons.push = (selectedFiles # {})
    /\ buttons.install => \A f \in selectedFiles : f \in fileList \cap Apks
    /\ (buttons.delete = "delete") = (selectedFiles # {})
    /\ (buttons.all = "all") = (fileList # {} /\ fileList \subseteq selectedFiles)

\* Whatever uploads, deletions and lists overlapped: when all of them have been
\* answered the list shows what the server has, unless a list overtook a newer one
\* or an answer was lost.
ListCatchesUp ==
  /\ IdleLoads = Loads /\ ~lost
  /\ \A u \in Uploads : uploads[u].at # "saved"
  /\ \A b \in Batches : batches[b].at \notin {"deleting", "left", "removed"}
  => fileList = store

\* A progress bar goes away: it belongs to an upload that will hide it, or its timer
\* runs, also when uploads share an element or one upload's timer removes another's.
BarHasOwner ==
  \A i \in Bars : BarShown(i) =>
    \/ bars[i] \in timers
    \/ \E u \in Uploads : uploads[u] # NoUpload /\ BarOf[Current(u)] = i
=============================================================================
