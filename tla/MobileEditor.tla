---------------------------- MODULE MobileEditor ----------------------------
(* The mobile app's library and track editor (mobile/frontend/src/App.tsx)    *)
(* with the inbox of files that other apps share (useIncomingGPX.ts).         *)
(*                                                                            *)
(* A document is the revision of its content, the library file it belongs to, *)
(* and whether it has unsaved edits.  A callback works with the document of   *)
(* the render that made it; what `run` waits for is a task.  One boolean says *)
(* that the app is busy: whichever task ends first takes it back.             *)
EXTENDS Integers, Sequences, SequencesExt, FiniteSets

CONSTANTS
    Files,          \* names of the library
    Shared,         \* files that other apps share, each once
    HistoryLimit,   \* edits that can be undone
    MaxRevs,        \* bound: revisions ever made
    MaxTasks        \* bound: tasks at a time

VARIABLES
    library,        \* server: revision of each file, 0 without one
    doc, history, choices,      \* the open document, or NoDoc
    dialog,         \* NoDialog, or what is asked and the document it was asked about
    tasks, busy,
    revs,
    inbox,          \* native: shared files that are not acknowledged
    pending,        \* the one the app offers, or "none"
    reading,        \* NoRead, or the file that is read, and whether the user confirmed it
    acking,         \* the file whose acknowledgement is awaited, or "none"
    polled,         \* the inbox as a poll saw it, or NotPolled
    inboxError, handled,
    arrived,        \* history: files that were shared
    imported        \* history: how often each file was imported

editor == <<library, doc, history, choices, dialog, tasks, busy, revs>>
shared == <<inbox, pending, reading, acking, polled, inboxError, handled, arrived, imported>>
mobileVars == <<editor, shared>>

NoDoc == [rev |-> 0, file |-> "none", dirty |-> FALSE]
NoDialog == [asks |-> "nothing"]
NoRead == [file |-> "none", confirmed |-> FALSE]
NotPolled == {"not polled"}
Doc(rev, file, dirty) == [rev |-> rev, file |-> file, dirty |-> dirty]

MobileInit ==
    /\ library = [f \in Files |-> 1] /\ doc = NoDoc /\ history = <<>> /\ choices = <<>>
    /\ dialog = NoDialog /\ tasks = {} /\ busy = FALSE /\ revs = 1
    /\ inbox = {} /\ pending = "none" /\ reading = NoRead /\ acking = "none" /\ polled = NotPolled
    /\ inboxError = FALSE /\ handled = {} /\ arrived = {} /\ imported = [s \in Shared |-> 0]

Free == dialog = NoDialog /\ choices = <<>>        \* modals cover the rest
Blocked == busy \/ ~Free
Working == reading # NoRead \/ acking # "none"

-----------------------------------------------------------------------------
(* Opening and editing                                                         *)
OpenDocument(value) == doc' = value /\ history' = <<>> /\ choices' = <<>>

Parts == /\ revs + 2 <= MaxRevs /\ revs' = revs + 2
         /\ choices' = <<Doc(revs + 1, "none", TRUE), Doc(revs + 2, "none", TRUE)>>

(* A file with one track opens; of several the user chooses.  One that is not   *)
(* in the library is unsaved.                                                   *)
ImportContent ==
    \/ revs < MaxRevs /\ OpenDocument(Doc(revs + 1, "none", TRUE)) /\ revs' = revs + 1
    \/ Parts /\ UNCHANGED <<doc, history>>

(* The edit of `of`, the document of the handler's render.                      *)
EditOf(of) ==
    /\ revs < MaxRevs /\ revs' = revs + 1
    /\ history' = LET all == Append(history, of)
                  IN IF Len(all) > HistoryLimit THEN Tail(all) ELSE all
    /\ doc' = Doc(revs + 1, of.file, TRUE)

Edit == Free /\ doc # NoDoc /\ EditOf(doc) /\ UNCHANGED <<library, choices, dialog, tasks, busy, shared>>

(* The earlier document returns with the flags it had.                          *)
Undo == /\ Free /\ doc # NoDoc /\ history # <<>>
        /\ doc' = Last(history) /\ history' = Front(history)
        /\ UNCHANGED <<library, choices, dialog, tasks, busy, revs, shared>>

SplitAtStart == Free /\ doc # NoDoc /\ Parts /\ UNCHANGED <<library, doc, history, dialog, tasks, busy, shared>>

Choose(i) == /\ dialog = NoDialog /\ i \in DOMAIN choices /\ OpenDocument(choices[i])
             /\ UNCHANGED <<library, dialog, tasks, busy, revs, shared>>

(* The chooser is closed by its button or by Android's back.                    *)
CloseChooser == /\ dialog = NoDialog /\ choices # <<>> /\ choices' = <<>>
                /\ UNCHANGED <<library, doc, history, dialog, tasks, busy, revs, shared>>

-----------------------------------------------------------------------------
(* Tasks and questions                                                          *)
Task(does, file, of) == [does |-> does, file |-> file, of |-> of, asked |-> FALSE]

Reads(item) == ~Working /\ item \notin handled

BeginRead(item, confirmed) == /\ reading' = [file |-> item, confirmed |-> confirmed] /\ inboxError' = FALSE

(* A task begins; the user's "Open shared GPX" begins a reading, or is done.     *)
Start(task) ==
    LET reads == task.does = "shared" /\ Reads(task.file)
    IN  /\ Cardinality(tasks) < MaxTasks /\ task \notin tasks /\ busy' = TRUE
        /\ tasks' = tasks \union {IF reads THEN [task EXCEPT !.does = "reading"] ELSE task}
        /\ IF reads THEN BeginRead(task.file, TRUE) ELSE UNCHANGED <<reading, inboxError>>
        /\ UNCHANGED <<inbox, pending, acking, polled, handled, arrived, imported>>

Run(task) == Start(task) /\ UNCHANGED <<library, doc, history, choices, dialog, revs>>

Ask(asks, of) == /\ Free /\ dialog' = [asks |-> asks, of |-> of]
                 /\ UNCHANGED <<library, doc, history, choices, tasks, busy, revs, shared>>

(* Another track replaces unsaved edits only when the user says so.             *)
ConfirmReplace(task) == IF doc.dirty THEN Ask("replace", task) ELSE Run(task)

OpenCard(f) == Free /\ doc = NoDoc /\ ~busy /\ library[f] # 0 /\ Run(Task("open", f, NoDoc))

(* "Open another GPX" is not disabled while the app is busy.                    *)
ImportFile == Free /\ (doc = NoDoc => ~busy) /\ ConfirmReplace(Task("import", "none", NoDoc))

OpenShared == /\ pending # "none" /\ ~busy /\ ~Working /\ Free
              /\ ConfirmReplace(Task("shared", pending, NoDoc))

SaveDocument == /\ Free /\ doc # NoDoc /\ ~busy
                /\ IF doc.file # "none" THEN Run(Task("save", doc.file, doc))
                   ELSE Ask("saveAs", doc)

CloseTrack == /\ Free /\ doc # NoDoc
              /\ IF doc.dirty THEN Ask("close", doc)
                 ELSE doc' = NoDoc /\ UNCHANGED <<library, history, choices, dialog, tasks, busy, revs, shared>>

DeleteTrack(f) == Free /\ doc = NoDoc /\ ~busy /\ library[f] # 0 /\ Ask("delete", Task("delete", f, NoDoc))

RefreshElevation == Free /\ doc # NoDoc /\ ~busy /\ Run(Task("elevation", "none", doc))

SavePart(i, f) == /\ dialog = NoDialog /\ i \in DOMAIN choices /\ ~busy
                  /\ Run(Task("part", f, choices[i]))

AskForEdit == \E asks \in {"simplify", "stages"} : doc # NoDoc /\ Ask(asks, doc)

CancelDialog == /\ dialog # NoDialog /\ dialog' = NoDialog
                /\ UNCHANGED <<library, doc, history, choices, tasks, busy, revs, shared>>

(* What is asked is done with what it was asked about.  The question stays until *)
(* the task it started succeeded, and that takes back whatever is asked then.   *)
Submit ==
    /\ dialog # NoDialog /\ ~busy /\ UNCHANGED library
    /\ \/ /\ dialog.asks = "close" /\ doc' = NoDoc /\ dialog' = NoDialog
          /\ UNCHANGED <<history, choices, tasks, busy, revs, shared>>
       \/ /\ dialog.asks = "simplify" /\ EditOf(dialog.of) /\ dialog' = NoDialog
          /\ UNCHANGED <<choices, tasks, busy, shared>>
       \/ /\ dialog.asks = "stages" /\ Parts /\ dialog' = NoDialog
          /\ UNCHANGED <<doc, history, tasks, busy, shared>>
       \/ /\ dialog.asks = "saveAs" /\ UNCHANGED <<doc, history, choices, dialog, revs>>
          /\ \E f \in Files : Start([Task("saveAs", f, dialog.of) EXCEPT !.asked = TRUE])
       \/ /\ dialog.asks \in {"replace", "delete"} /\ UNCHANGED <<doc, history, choices, dialog, revs>>
          /\ Start([dialog.of EXCEPT !.asked = TRUE])

Ends(task) == tasks' = tasks \ {task} /\ busy' = FALSE

TaskFails(task) == Ends(task) /\ UNCHANGED <<library, doc, history, choices, dialog, revs, shared>>

TaskDone(task) ==
    /\ Ends(task)
    /\ dialog' = IF task.asked THEN NoDialog ELSE dialog
    /\ CASE task.does = "open" -> library[task.file] # 0 /\ UNCHANGED library /\
                \/ OpenDocument(Doc(library[task.file], task.file, FALSE)) /\ UNCHANGED revs
                \/ Parts /\ UNCHANGED <<doc, history>>
         [] task.does = "import" -> ImportContent /\ UNCHANGED library
         [] task.does = "save" ->
                /\ library' = [library EXCEPT ![task.file] = task.of.rev]
                /\ doc' = IF doc = task.of THEN [doc EXCEPT !.dirty = FALSE] ELSE doc
                /\ UNCHANGED <<history, choices, revs>>
         [] task.does = "saveAs" ->             \* a name that is taken is refused
                /\ library[task.file] = 0
                /\ library' = [library EXCEPT ![task.file] = task.of.rev]
                /\ doc' = Doc(task.of.rev, task.file, FALSE)
                /\ UNCHANGED <<history, choices, revs>>
         [] task.does = "shared" -> UNCHANGED <<library, doc, history, choices, revs>>
         [] task.does = "part" ->
                /\ library[task.file] = 0 /\ library' = [library EXCEPT ![task.file] = task.of.rev]
                /\ UNCHANGED <<doc, history, choices, revs>>
         [] task.does = "delete" ->
                library' = [library EXCEPT ![task.file] = 0] /\ UNCHANGED <<doc, history, choices, revs>>
         [] task.does = "elevation" ->
                /\ IF doc = task.of THEN EditOf(doc) ELSE UNCHANGED <<doc, history, revs>>
                /\ UNCHANGED <<library, choices>>
    /\ UNCHANGED shared

-----------------------------------------------------------------------------
(* The inbox: a file is read, imported, and then acknowledged                    *)
FileShared(s) == /\ s \notin arrived /\ arrived' = arrived \union {s} /\ inbox' = inbox \union {s}
                 /\ UNCHANGED <<editor, pending, reading, acking, polled, inboxError, handled, imported>>

Poll == /\ polled = NotPolled /\ polled' = inbox
        /\ UNCHANGED <<editor, inbox, pending, reading, acking, inboxError, handled, arrived, imported>>

\* Mutant: what is acknowledged once more is forgotten, heard or not.
ForgetsAcknowledged(items) == {}
Remembered(items) == handled \intersect items

(* What was handled and is still there is acknowledged once more.               *)
Polled ==
    /\ polled # NotPolled /\ polled' = NotPolled
    /\ handled' = Remembered(polled)
    /\ \E kept \in SUBSET (handled \intersect polled) : inbox' = inbox \ ((handled \intersect polled) \ kept)
    /\ pending' \in IF pending # "none" \/ polled \subseteq handled' THEN {pending} ELSE polled \ handled'
    /\ UNCHANGED <<editor, reading, acking, inboxError, arrived, imported>>

(* The effect: nothing is in the way.                                           *)
OpenPending ==
    /\ pending # "none" /\ ~Blocked /\ ~doc.dirty /\ ~inboxError /\ Reads(pending)
    /\ BeginRead(pending, FALSE)
    /\ UNCHANGED <<editor, inbox, pending, acking, polled, handled, arrived, imported>>

\* The task that waits for a confirmed reading ends with it, and its question.
Readers == {t \in tasks : t.does = "reading"}
ReadingEnds == /\ tasks' = tasks \ Readers
               /\ busy' = (busy /\ Readers = {})
               /\ dialog' = IF \E t \in Readers : t.asked THEN NoDialog ELSE dialog

\* Mutant: what happened while the file was read is not looked at.
TakesAnyway == TRUE
Takes == reading.confirmed \/ ~(doc.dirty \/ Blocked)

(* The file was read: it is imported, or left for later when the user has       *)
(* begun something else meanwhile.                                              *)
ReadDone ==
    /\ reading # NoRead /\ acking = "none" /\ reading.file \in inbox
    /\ IF Takes
       THEN /\ ImportContent
            /\ imported' = [imported EXCEPT ![reading.file] = @ + 1]
            /\ handled' = handled \union {reading.file} /\ pending' = "none"
            /\ acking' = reading.file
            /\ UNCHANGED <<tasks, busy, dialog, reading>>
       ELSE /\ reading' = NoRead /\ ReadingEnds
            /\ UNCHANGED <<doc, history, choices, revs, imported, handled, pending, acking>>
    /\ UNCHANGED <<library, inbox, polled, inboxError, arrived>>

ReadFails == /\ reading # NoRead /\ acking = "none"
             /\ reading' = NoRead /\ inboxError' = TRUE /\ ReadingEnds
             /\ UNCHANGED <<library, doc, history, choices, revs, inbox, pending, acking, polled, handled, arrived, imported>>

(* Heard or not, the file is gone from the screen.                              *)
Acknowledged ==
    /\ acking # "none" /\ acking' = "none" /\ reading' = NoRead /\ ReadingEnds
    /\ inbox' \in {inbox, inbox \ {acking}}
    /\ UNCHANGED <<library, doc, history, choices, revs, pending, polled, inboxError, handled, arrived, imported>>

Dismiss == /\ pending # "none" /\ ~Working
           /\ \/ /\ inbox' = inbox \ {pending} /\ handled' = handled \union {pending}
                 /\ pending' = "none" /\ inboxError' = FALSE
              \/ UNCHANGED <<inbox, handled, pending, inboxError>>
           /\ UNCHANGED <<editor, reading, acking, polled, arrived, imported>>

MobileNext ==
    \/ Edit \/ Undo \/ SplitAtStart \/ CloseChooser \/ ImportFile \/ OpenShared \/ SaveDocument \/ CloseTrack
    \/ RefreshElevation \/ AskForEdit \/ CancelDialog \/ Submit
    \/ Poll \/ Polled \/ OpenPending \/ ReadDone \/ ReadFails \/ Acknowledged \/ Dismiss
    \/ \E i \in {1, 2} : Choose(i)
    \/ \E f \in Files : OpenCard(f) \/ DeleteTrack(f) \/ \E i \in {1, 2} : SavePart(i, f)
    \/ \E s \in Shared : FileShared(s)
    \/ \E task \in tasks : task.does # "reading" /\ (TaskDone(task) \/ TaskFails(task))

(* A file that another app shared is opened once in a session, however often its *)
(* acknowledgement is lost, repeated or overtaken by a poll.  `handled` is lost  *)
(* with the page: reloaded before an acknowledgement arrived, it opens the file  *)
(* again.  A behaviour is one session.                                          *)
SharedOnce == \A s \in Shared : imported[s] <= 1

(* Nothing that was shared replaces unsaved edits by itself: unless the user     *)
(* said so, a file is imported over a document without edits, with no task, no  *)
(* question and no choice in its way.                                           *)
SharedWaits == [][imported' = imported \/ reading.confirmed \/ (~doc.dirty /\ ~Blocked)]_mobileVars
=============================================================================
