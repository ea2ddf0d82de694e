---------------------------- MODULE MobileProofs ----------------------------
(***************************************************************************)
(* What the mobile app's parts promise, and the region manager and the     *)
(* configuration that it shares with the page, for any values of their     *)
(* bounds.                                                                 *)
(***************************************************************************)
EXTENDS Client, TLAPS

Revisions == Nat \ {0}
Writes == [rev : Revisions, sent : BOOLEAN]

DraftTyped ==
    /\ content \in Revisions /\ changes \in Revisions /\ draftTimer \in Nat /\ draftFile \in Nat
    /\ hydrated \in BOOLEAN /\ canPersist \in BOOLEAN /\ failed \in BOOLEAN
    /\ line \in Seq(Writes)

(* Nothing is written unless the draft was read.                                *)
WritesAfterReading ==
    /\ canPersist => hydrated
    /\ ~canPersist => draftTimer = 0 /\ line = <<>>

(* What waits for the timer, or else is last in line, is what is on the screen.  *)
NewestIsLast ==
    /\ draftTimer # 0 => draftTimer = content
    /\ draftTimer = 0 /\ line # <<>> => line[Len(line)].rev = content

(* Only the first in line has reached the file, and then it is what is there.    *)
FirstIsStored ==
    \A i \in DOMAIN line : line[i].sent => i = 1 /\ draftFile = line[i].rev

RideInv == DraftTyped /\ WritesAfterReading /\ NewestIsLast /\ FirstIsStored /\ Ride!DraftKept

-----------------------------------------------------------------------------
(* The line without its first write.                                            *)
LEMMA LineRest ==
    ASSUME NEW s \in Seq(Writes), s # <<>>
    PROVE  /\ Ride!RemoveAt(s, 1) \in Seq(Writes) /\ Len(Ride!RemoveAt(s, 1)) = Len(s) - 1
           /\ \A i \in 1 .. Len(s) - 1 : Ride!RemoveAt(s, 1)[i] = s[i + 1]
<1>1. Ride!RemoveAt(s, 1) = SubSeq(s, 1, 0) \o SubSeq(s, 2, Len(s))
  BY DEF Ride!RemoveAt
<1>2. SubSeq(s, 1, 0) = <<>> /\ SubSeq(s, 2, Len(s)) = Tail(s)
  OBVIOUS
<1>3. Ride!RemoveAt(s, 1) = Tail(s)
  BY <1>1, <1>2
<1> QED
  BY <1>3

LEMMA RideElsewhere == ASSUME RideInv, UNCHANGED Ride!draftVars PROVE RideInv'
BY DEF RideInv, Ride!draftVars, DraftTyped, WritesAfterReading, NewestIsLast, FirstIsStored, Ride!DraftKept

LEMMA ChangeKeeps == ASSUME RideInv, Ride!Change PROVE RideInv'
BY DEF Ride!Change, Ride!Remember, RideInv, DraftTyped, Revisions, WritesAfterReading, NewestIsLast, FirstIsStored, Ride!DraftKept

LEMMA ReadingKeeps == ASSUME RideInv, Ride!DraftRead PROVE RideInv'
<1>1. hydrated' /\ content' \in Revisions /\ UNCHANGED <<changes, line, draftFile, failed>> /\ line = <<>>
  BY DEF Ride!DraftRead, RideInv, DraftTyped, Revisions, WritesAfterReading
<1>2. \/ canPersist' = TRUE /\ draftTimer' = content'
      \/ UNCHANGED <<canPersist, content, draftTimer>>
  BY DEF Ride!DraftRead, Ride!Remember
<1>3. draftTimer = 0 /\ ~canPersist
  BY DEF Ride!DraftRead, RideInv, WritesAfterReading
<1>4. DraftTyped'
  BY <1>1, <1>2, <1>3 DEF RideInv, DraftTyped, Revisions
<1>5. FirstIsStored'
  BY <1>1 DEF FirstIsStored
<1>6. WritesAfterReading' /\ NewestIsLast' /\ Ride!DraftKept'
  <2>1. content' # 0 /\ line' = <<>>
    BY <1>1 DEF Revisions
  <2> QED
    BY <1>1, <1>2, <1>3, <2>1 DEF WritesAfterReading, NewestIsLast, Ride!DraftKept
<1> QED
  BY <1>4, <1>5, <1>6 DEF RideInv

LEMMA TimerKeeps == ASSUME RideInv, Ride!TimerFires PROVE RideInv'
<1> DEFINE last == [rev |-> draftTimer, sent |-> FALSE]
<1>1. draftTimer # 0 /\ draftTimer = content /\ last \in Writes
  BY DEF Ride!TimerFires, RideInv, NewestIsLast, DraftTyped, Writes, Revisions
<1>2. /\ line \in Seq(Writes) /\ line' = Append(line, last)
      /\ draftTimer' = 0 /\ UNCHANGED <<content, changes, hydrated, canPersist, draftFile, failed>>
  BY DEF Ride!TimerFires, RideInv, DraftTyped
<1>3. /\ line' \in Seq(Writes) /\ Len(line') = Len(line) + 1 /\ line'[Len(line')] = last
      /\ \A i \in 1 .. Len(line) : line'[i] = line[i]
  BY <1>1, <1>2
<1>4. DraftTyped' /\ WritesAfterReading' /\ NewestIsLast' /\ Ride!DraftKept'
  BY <1>1, <1>2, <1>3 DEF RideInv, DraftTyped, WritesAfterReading, NewestIsLast, Ride!DraftKept
<1>5. FirstIsStored'
  BY <1>1, <1>2, <1>3 DEF RideInv, FirstIsStored
<1> QED
  BY <1>4, <1>5 DEF RideInv

LEMMA StoringKeeps == ASSUME RideInv, NEW i \in Ride!InLine, Ride!Stores(i) PROVE RideInv'
<1>1. i = 1 /\ 1 \in DOMAIN line /\ line \in Seq(Writes)
  BY DEF Ride!InLine, RideInv, DraftTyped
<1>2. /\ line' = [line EXCEPT ![1].sent = TRUE] /\ draftFile' = line[1].rev
      /\ UNCHANGED <<content, changes, hydrated, canPersist, draftTimer, failed>>
  BY <1>1 DEF Ride!Stores
<1> DEFINE w == [line[1] EXCEPT !.sent = TRUE]
<1>w. line[1] \in Writes
  BY <1>1
<1>v. w \in Writes /\ w.rev = line[1].rev
  BY <1>w DEF Writes
<1>3. /\ line' \in Seq(Writes) /\ Len(line') = Len(line) /\ line' # <<>>
      /\ \A k \in DOMAIN line : line'[k].rev = line[k].rev /\ (k # 1 => line'[k] = line[k])
  <2> HIDE DEF w
  <2>1. line' = [line EXCEPT ![1] = w]
    BY <1>2 DEF w
  <2> QED
    BY <1>1, <1>v, <2>1
<1>4. draftFile' \in Nat
  BY <1>w, <1>2 DEF Writes, Revisions
<1>5. DraftTyped' /\ WritesAfterReading' /\ NewestIsLast' /\ Ride!DraftKept'
  BY <1>1, <1>2, <1>3, <1>4 DEF RideInv, DraftTyped, WritesAfterReading, NewestIsLast, Ride!DraftKept
<1>6. FirstIsStored'
  BY <1>1, <1>2, <1>3 DEF RideInv, FirstIsStored
<1> QED
  BY <1>5, <1>6 DEF RideInv

LEMMA WritingKeeps == ASSUME RideInv, NEW i \in Ride!InLine, Ride!Written(i) PROVE RideInv'
<1>1. i = 1 /\ line # <<>> /\ line \in Seq(Writes)
  BY DEF Ride!InLine, RideInv, DraftTyped
<1>2. /\ line' = Ride!RemoveAt(line, 1)
      /\ UNCHANGED <<content, changes, hydrated, canPersist, draftTimer, draftFile>>
      /\ (line[1].sent /\ failed' = FALSE) \/ failed' = TRUE
  BY <1>1 DEF Ride!Written
<1>3. /\ line' \in Seq(Writes) /\ Len(line') = Len(line) - 1
      /\ \A k \in 1 .. Len(line) - 1 : line'[k] = line[k + 1]
  BY <1>1, <1>2, LineRest
<1>4. DraftTyped' /\ WritesAfterReading'
  BY <1>1, <1>2, <1>3 DEF RideInv, DraftTyped, WritesAfterReading
<1>5. NewestIsLast'
  <2>1. ASSUME line' # <<>> PROVE line'[Len(line')] = line[Len(line)]
    <3>1. Len(line') \in 1 .. Len(line) - 1 /\ Len(line') + 1 = Len(line)
      BY <1>1, <1>3, <2>1
    <3> QED
      BY <1>3, <3>1
  <2> QED
    BY <1>1, <1>2, <2>1 DEF RideInv, NewestIsLast
<1>6. FirstIsStored'
  BY <1>1, <1>2, <1>3 DEF RideInv, FirstIsStored
<1>7. Ride!DraftKept'
  BY <1>1, <1>2, <1>3 DEF RideInv, NewestIsLast, FirstIsStored, Ride!DraftKept
<1> QED
  BY <1>4, <1>5, <1>6, <1>7 DEF RideInv

LEMMA RestartKeeps == ASSUME RideInv, Ride!Restart PROVE RideInv'
<1>1. /\ content' = 1 /\ hydrated' = FALSE /\ canPersist' = FALSE /\ draftTimer' = 0 /\ line' = <<>> /\ failed' = FALSE
      /\ UNCHANGED <<changes, draftFile>>
  BY DEF Ride!Restart
<1>2. DraftTyped'
  <2>1. <<>> \in Seq(Writes) /\ 1 \in Revisions
    BY DEF Revisions
  <2> QED
    BY <1>1, <2>1 DEF RideInv, DraftTyped
<1>3. FirstIsStored'
  BY <1>1 DEF FirstIsStored
<1> QED
  BY <1>1, <1>2, <1>3 DEF RideInv, WritesAfterReading, NewestIsLast, Ride!DraftKept

-----------------------------------------------------------------------------
LEMMA RideStarts == Ride!RideInit => RideInv
<1> SUFFICES ASSUME Ride!RideInit PROVE RideInv
  OBVIOUS
<1>1. /\ content = 1 /\ changes = 1 /\ hydrated = FALSE /\ canPersist = FALSE /\ draftTimer = 0 /\ line = <<>>
      /\ draftFile = 0 /\ failed = FALSE
  BY DEF Ride!RideInit
<1>2. DraftTyped
  <2>1. <<>> \in Seq(Writes) /\ 1 \in Revisions
    BY DEF Revisions
  <2> QED
    BY <1>1, <2>1 DEF DraftTyped
<1>3. FirstIsStored
  BY <1>1 DEF FirstIsStored
<1> QED
  BY <1>1, <1>2, <1>3 DEF RideInv, WritesAfterReading, NewestIsLast, Ride!DraftKept

LEMMA RideKeeps == RideInv /\ [Ride!RideNext]_rideVars => RideInv'
<1> SUFFICES ASSUME RideInv, [Ride!RideNext]_rideVars PROVE RideInv'
  OBVIOUS
<1>1. CASE Ride!DraftNext
  BY <1>1, ChangeKeeps, ReadingKeeps, TimerKeeps, StoringKeeps, WritingKeeps, RestartKeeps DEF Ride!DraftNext
<1>2. CASE Ride!RouteNext \/ Ride!ScreenNext \/ UNCHANGED rideVars
  BY <1>2, RideElsewhere DEF Ride!RouteNext, Ride!ScreenNext, Ride!draftVars, rideVars
<1> QED
  BY <1>1, <1>2 DEF Ride!RideNext

(* Once nothing is left to write and the last write was not refused, the file    *)
(* that brings the ride back has what is on the screen: a write that comes late  *)
(* takes nothing back, however often the app is killed.                        *)
THEOREM DraftHeld == Spec => []DraftKept
<1>1. Init => RideInv
  BY RideStarts DEF Init
<1>2. RideInv /\ [Next]_clientVars => RideInv'
  BY RideKeeps DEF Next, clientVars
<1>3. RideInv => DraftKept
  BY DEF RideInv, DraftKept
<1> QED
  BY <1>1, <1>2, <1>3, PTL DEF Spec

-----------------------------------------------------------------------------
(* The shared inbox.  A file the app has in hand has arrived, and a poll that is *)
(* under way saw it if it is still there: so a poll forgets nothing that was      *)
(* imported and may be offered again.                                           *)
Known(s) == s \in arrived /\ (polled # Mobile!NotPolled /\ s \in inbox => s \in polled)

InboxTyped ==
    /\ imported \in [Shared -> Nat] /\ arrived \subseteq Shared /\ inbox \subseteq arrived
    /\ pending \in Shared \union {"none"} /\ (reading # Mobile!NoRead => reading.file \in Shared)
    /\ polled = Mobile!NotPolled \/ polled \subseteq arrived

\* What the question to replace or to delete is about.
Asked == [does : {"import", "shared", "delete"}, file : Files \union Shared \union {"none"},
          of : {Mobile!NoDoc}, asked : {FALSE}]

QuestionIsKnown ==
    dialog.asks \in {"replace", "delete"} =>
        dialog.of \in Asked /\ (dialog.of.does = "shared" => dialog.of.file \in Shared /\ Known(dialog.of.file))

InHandIsKnown ==
    /\ pending # "none" => Known(pending)
    /\ reading # Mobile!NoRead => Known(reading.file)
    /\ \A s \in Shared : imported[s] >= 1 => Known(s)

ImportedIsHandled == \A s \in Shared : imported[s] >= 1 => s \in handled \/ s \notin inbox

ReadIsNew == reading # Mobile!NoRead /\ acking = "none" => imported[reading.file] = 0 \/ reading.file \notin inbox

InboxInv == InboxTyped /\ QuestionIsKnown /\ InHandIsKnown /\ ImportedIsHandled /\ ReadIsNew /\ Mobile!SharedOnce

inboxVars == <<inbox, pending, reading, acking, polled, handled, arrived, imported>>

\* Without a step of the inbox, the question is what matters.
LEMMA AskedElsewhere ==
    ASSUME InboxInv, UNCHANGED inboxVars, dialog' = dialog \/ QuestionIsKnown'
    PROVE  InboxInv'
<1>1. /\ InboxTyped' /\ InHandIsKnown' /\ ImportedIsHandled' /\ ReadIsNew' /\ Mobile!SharedOnce'
  BY DEF InboxInv, inboxVars, InboxTyped, InHandIsKnown, Known, ImportedIsHandled, ReadIsNew, Mobile!SharedOnce
<1>2. QuestionIsKnown'
  BY DEF InboxInv, inboxVars, QuestionIsKnown, Known
<1> QED
  BY <1>1, <1>2 DEF InboxInv

\* Nobody asks while there is nothing to ask about.
LEMMA NothingAsked == dialog = Mobile!NoDialog => QuestionIsKnown
BY DEF QuestionIsKnown, Mobile!NoDialog

LEMMA AskKeeps ==
    ASSUME InboxInv, NEW asks, NEW of, Mobile!Ask(asks, of),
           asks \in {"replace", "delete"} => of \in Asked /\ (of.does = "shared" => of.file \in Shared /\ Known(of.file))
    PROVE  InboxInv'
<1>1. UNCHANGED inboxVars /\ dialog' = [asks |-> asks, of |-> of]
  BY DEF Mobile!Ask, Mobile!shared, inboxVars
<1>2. dialog'.asks = asks /\ dialog'.of = of
  BY <1>1
<1>3. Known(of.file) => Known(of.file)'
  BY <1>1 DEF Known, inboxVars
<1>4. QuestionIsKnown'
  BY <1>2, <1>3 DEF QuestionIsKnown
<1> QED
  BY <1>1, <1>4, AskedElsewhere

(* A reading begins with what has arrived and was not imported, or is gone.     *)
LEMMA ReadingBegins ==
    ASSUME InboxInv, NEW item \in Shared, NEW confirmed, Known(item), Mobile!Reads(item),
           Mobile!BeginRead(item, confirmed), UNCHANGED <<inbox, pending, acking, polled, handled, arrived, imported, dialog>>
    PROVE  InboxInv'
<1>1. reading'.file = item /\ item \notin handled
  BY DEF Mobile!BeginRead, Mobile!Reads
<1>2. InboxTyped'
  BY <1>1 DEF InboxInv, InboxTyped
<1>3. InHandIsKnown' /\ QuestionIsKnown' /\ ImportedIsHandled' /\ Mobile!SharedOnce'
  BY <1>1 DEF InboxInv, InHandIsKnown, Known, QuestionIsKnown, ImportedIsHandled, Mobile!SharedOnce
<1>4. imported[item] = 0 \/ item \notin inbox
  <2>1. imported[item] \in Nat
    BY DEF InboxInv, InboxTyped
  <2>2. imported[item] = 0 \/ imported[item] >= 1
    BY <2>1
  <2> QED
    BY <1>1, <2>2 DEF InboxInv, ImportedIsHandled
<1>5. ReadIsNew'
  BY <1>1, <1>4 DEF ReadIsNew
<1> QED
  BY <1>2, <1>3, <1>5 DEF InboxInv

LEMMA StartKeeps ==
    ASSUME InboxInv, NEW t, Mobile!Start(t), UNCHANGED dialog,
           t.does = "shared" => t.file \in Shared /\ Known(t.file)
    PROVE  InboxInv'
<1>1. CASE t.does = "shared" /\ Mobile!Reads(t.file)
  <2>1. Mobile!BeginRead(t.file, TRUE) /\ UNCHANGED <<inbox, pending, acking, polled, handled, arrived, imported, dialog>>
    BY <1>1 DEF Mobile!Start
  <2> QED
    BY <1>1, <2>1, ReadingBegins
<1>2. CASE ~(t.does = "shared" /\ Mobile!Reads(t.file))
  <2>1. UNCHANGED inboxVars
    BY <1>2 DEF Mobile!Start, inboxVars
  <2> QED
    BY <2>1, AskedElsewhere
<1> QED
  BY <1>1, <1>2

\* What is run or asked on the way to another track.
LEMMA ReplaceKeeps ==
    ASSUME InboxInv, NEW t \in Asked, Mobile!ConfirmReplace(t),
           t.does = "shared" => t.file \in Shared /\ Known(t.file)
    PROVE  InboxInv'
<1>1. CASE Mobile!Ask("replace", t)
  BY <1>1, AskKeeps
<1>2. CASE Mobile!Run(t)
  BY <1>2, StartKeeps DEF Mobile!Run
<1> QED
  BY <1>1, <1>2 DEF Mobile!ConfirmReplace

LEMMA TasksAreAsked ==
    ASSUME NEW does \in {"import", "shared", "delete"}, NEW file \in Files \union Shared \union {"none"}
    PROVE  LET t == Mobile!Task(does, file, Mobile!NoDoc)
           IN t \in Asked /\ t.does = does /\ t.file = file
BY DEF Mobile!Task, Asked

(* The user answers the question.                                               *)
LEMMA SubmitKeeps ==
    ASSUME InboxInv, Mobile!Submit
    PROVE  InboxInv'
<1>1. CASE dialog' = Mobile!NoDialog /\ UNCHANGED Mobile!shared
  BY <1>1, NothingAsked, AskedElsewhere DEF Mobile!shared, inboxVars, QuestionIsKnown, Mobile!NoDialog
<1>2. ASSUME dialog.asks = "saveAs", UNCHANGED dialog, NEW f \in Files,
             Mobile!Start([Mobile!Task("saveAs", f, dialog.of) EXCEPT !.asked = TRUE])
      PROVE  InboxInv'
  <2> DEFINE t == [Mobile!Task("saveAs", f, dialog.of) EXCEPT !.asked = TRUE]
  <2>1. t.does = "saveAs"
    BY DEF Mobile!Task
  <2> QED
    BY <1>2, <2>1, StartKeeps
<1>3. ASSUME dialog.asks \in {"replace", "delete"}, UNCHANGED dialog,
             Mobile!Start([dialog.of EXCEPT !.asked = TRUE])
      PROVE  InboxInv'
  <2> DEFINE t == [dialog.of EXCEPT !.asked = TRUE]
  <2>1. dialog.of \in Asked /\ (dialog.of.does = "shared" => dialog.of.file \in Shared /\ Known(dialog.of.file))
    BY <1>3 DEF InboxInv, QuestionIsKnown
  <2>2. t.does = dialog.of.does /\ t.file = dialog.of.file
    BY <2>1 DEF Asked
  <2> QED
    BY <1>3, <2>1, <2>2, StartKeeps
<1> QED
  BY <1>1, <1>2, <1>3 DEF Mobile!Submit

-----------------------------------------------------------------------------
LEMMA SharingKeeps ==
    ASSUME InboxInv, NEW s \in Shared, Mobile!FileShared(s)
    PROVE  InboxInv'
<1>1. /\ s \notin arrived /\ arrived' = arrived \union {s} /\ inbox' = inbox \union {s}
      /\ UNCHANGED <<dialog, pending, reading, acking, polled, handled, imported>>
  BY DEF Mobile!FileShared, Mobile!editor
<1>2. \A t : Known(t) => Known(t)' /\ t # s
  BY <1>1 DEF Known
<1>3. InboxTyped'
  BY <1>1 DEF InboxInv, InboxTyped
<1>4. InHandIsKnown' /\ QuestionIsKnown'
  BY <1>1, <1>2 DEF InboxInv, InHandIsKnown, QuestionIsKnown
<1>5. ImportedIsHandled' /\ ReadIsNew' /\ Mobile!SharedOnce'
  BY <1>1, <1>2 DEF InboxInv, InHandIsKnown, ImportedIsHandled, ReadIsNew, Mobile!SharedOnce
<1> QED
  BY <1>3, <1>4, <1>5 DEF InboxInv

LEMMA PollKeeps ==
    ASSUME InboxInv, Mobile!Poll
    PROVE  InboxInv'
<1>1. polled' = inbox /\ UNCHANGED <<dialog, inbox, pending, reading, acking, handled, arrived, imported>>
  BY DEF Mobile!Poll, Mobile!editor
<1>2. \A t : Known(t) => Known(t)'
  BY <1>1 DEF Known
<1>3. InboxTyped'
  BY <1>1 DEF InboxInv, InboxTyped
<1>4. InHandIsKnown' /\ QuestionIsKnown'
  BY <1>1, <1>2 DEF InboxInv, InHandIsKnown, QuestionIsKnown
<1>5. ImportedIsHandled' /\ ReadIsNew' /\ Mobile!SharedOnce'
  BY <1>1 DEF InboxInv, ImportedIsHandled, ReadIsNew, Mobile!SharedOnce
<1> QED
  BY <1>3, <1>4, <1>5 DEF InboxInv

(* A poll forgets what is no longer there; what was imported and still is there   *)
(* it has seen.                                                                *)
LEMMA PolledKeeps ==
    ASSUME InboxInv, Mobile!Polled
    PROVE  InboxInv'
<1>1. /\ polled # Mobile!NotPolled /\ polled' = Mobile!NotPolled /\ handled' = handled \intersect polled
      /\ pending' = pending \/ pending' \in polled
      /\ UNCHANGED <<dialog, reading, acking, arrived, imported>>
  BY DEF Mobile!Polled, Mobile!Remembered, Mobile!editor
<1>2. inbox' \subseteq inbox
  BY DEF Mobile!Polled
<1>3. \A t : Known(t) => Known(t)'
  BY <1>1 DEF Known
<1>4. InboxTyped' /\ (pending' \in polled => Known(pending)')
  BY <1>1, <1>2 DEF InboxInv, InboxTyped, Known
<1>5. InHandIsKnown' /\ QuestionIsKnown'
  BY <1>1, <1>3, <1>4 DEF InboxInv, InHandIsKnown, QuestionIsKnown
<1>6. ImportedIsHandled' /\ ReadIsNew' /\ Mobile!SharedOnce'
  BY <1>1, <1>2 DEF InboxInv, InHandIsKnown, Known, ImportedIsHandled, ReadIsNew, Mobile!SharedOnce
<1> QED
  BY <1>4, <1>5, <1>6 DEF InboxInv

(* A file that is taken was never imported, and is remembered as handled.        *)
LEMMA TakingKeeps ==
    ASSUME InboxInv, reading # Mobile!NoRead, acking = "none", reading.file \in inbox,
           imported' = [imported EXCEPT ![reading.file] = @ + 1],
           handled' = handled \union {reading.file}, pending' = "none", acking' = reading.file,
           UNCHANGED <<dialog, reading, inbox, polled, arrived>>
    PROVE  InboxInv'
<1>1. reading.file \in Shared /\ imported[reading.file] = 0 /\ imported \in [Shared -> Nat]
  BY DEF InboxInv, InboxTyped, ReadIsNew
<1>2. /\ imported' \in [Shared -> Nat] /\ imported'[reading.file] = 1
      /\ \A s \in Shared : s # reading.file => imported'[s] = imported[s]
  BY <1>1
<1>3. \A t : Known(t) => Known(t)'
  BY DEF Known
<1>4. InboxTyped'
  BY <1>2 DEF InboxInv, InboxTyped
<1>5. InHandIsKnown' /\ QuestionIsKnown'
  BY <1>2, <1>3 DEF InboxInv, InHandIsKnown, QuestionIsKnown
<1>6. ImportedIsHandled' /\ Mobile!SharedOnce'
  BY <1>1, <1>2 DEF InboxInv, ImportedIsHandled, Mobile!SharedOnce
<1>7. ReadIsNew'
  BY <1>1, ClientAssumption DEF ReadIsNew
<1> QED
  BY <1>4, <1>5, <1>6, <1>7 DEF InboxInv

(* A reading ends without a file, or when its acknowledgement is answered.       *)
LEMMA EndingKeeps ==
    ASSUME InboxInv, reading' = Mobile!NoRead, inbox' \subseteq inbox, dialog' \in {dialog, Mobile!NoDialog},
           UNCHANGED <<pending, polled, handled, arrived, imported>>
    PROVE  InboxInv'
<1>1. \A t : Known(t) => Known(t)'
  BY DEF Known
<1>2. InboxTyped'
  BY DEF InboxInv, InboxTyped
<1>3. InHandIsKnown'
  BY <1>1 DEF InboxInv, InHandIsKnown
<1>4. QuestionIsKnown'
  BY <1>1 DEF InboxInv, QuestionIsKnown, Mobile!NoDialog
<1>5. ImportedIsHandled' /\ ReadIsNew' /\ Mobile!SharedOnce'
  BY DEF InboxInv, ImportedIsHandled, ReadIsNew, Mobile!SharedOnce
<1> QED
  BY <1>2, <1>3, <1>4, <1>5 DEF InboxInv

LEMMA InboxReadKeeps ==
    ASSUME InboxInv, Mobile!ReadDone \/ Mobile!ReadFails \/ Mobile!Acknowledged
    PROVE  InboxInv'
<1>1. CASE Mobile!ReadDone /\ Mobile!Takes
  BY <1>1, TakingKeeps DEF Mobile!ReadDone
<1>2. CASE Mobile!ReadDone /\ ~Mobile!Takes
  BY <1>2, EndingKeeps DEF Mobile!ReadDone, Mobile!ReadingEnds
<1>3. CASE Mobile!ReadFails
  BY <1>3, EndingKeeps DEF Mobile!ReadFails, Mobile!ReadingEnds
<1>4. CASE Mobile!Acknowledged
  BY <1>4, EndingKeeps DEF Mobile!Acknowledged, Mobile!ReadingEnds
<1> QED
  BY <1>1, <1>2, <1>3, <1>4

LEMMA DismissKeeps ==
    ASSUME InboxInv, Mobile!Dismiss
    PROVE  InboxInv'
<1>1. /\ pending' = "none" \/ pending' = pending
      /\ (inbox' = inbox \ {pending} /\ handled' = handled \union {pending}) \/ UNCHANGED <<inbox, handled>>
      /\ UNCHANGED <<dialog, reading, acking, polled, arrived, imported>>
  BY DEF Mobile!Dismiss, Mobile!editor
<1>2. inbox' \subseteq inbox /\ handled \subseteq handled'
  BY <1>1
<1>3. \A t : Known(t) => Known(t)'
  BY <1>1, <1>2 DEF Known
<1>4. InboxTyped'
  BY <1>1, <1>2 DEF InboxInv, InboxTyped
<1>5. InHandIsKnown' /\ QuestionIsKnown'
  BY <1>1, <1>3 DEF InboxInv, InHandIsKnown, QuestionIsKnown
<1>6. ImportedIsHandled' /\ ReadIsNew' /\ Mobile!SharedOnce'
  BY <1>1, <1>2 DEF InboxInv, ImportedIsHandled, ReadIsNew, Mobile!SharedOnce
<1> QED
  BY <1>4, <1>5, <1>6 DEF InboxInv

-----------------------------------------------------------------------------
(* The user's steps and the tasks: what they start and what they ask.            *)
LEMMA UserKeeps ==
    ASSUME InboxInv,
           \/ Mobile!ImportFile \/ Mobile!OpenShared \/ Mobile!SaveDocument \/ Mobile!CloseTrack
           \/ Mobile!RefreshElevation \/ Mobile!AskForEdit \/ Mobile!CancelDialog
    PROVE  InboxInv'
<1>1. CASE Mobile!ImportFile
  <2>1. LET t == Mobile!Task("import", "none", Mobile!NoDoc)
        IN Mobile!ConfirmReplace(t) /\ t \in Asked /\ t.does = "import"
    BY <1>1, TasksAreAsked DEF Mobile!ImportFile
  <2> QED
    BY <2>1, ReplaceKeeps
<1>2. CASE Mobile!OpenShared
  <2>1. pending \in Shared /\ Known(pending)
    BY <1>2 DEF Mobile!OpenShared, InboxInv, InboxTyped, InHandIsKnown
  <2>2. LET t == Mobile!Task("shared", pending, Mobile!NoDoc)
        IN Mobile!ConfirmReplace(t) /\ t \in Asked /\ t.file = pending
    BY <1>2, <2>1, TasksAreAsked DEF Mobile!OpenShared
  <2> QED
    BY <2>1, <2>2, ReplaceKeeps
<1>3. CASE Mobile!SaveDocument
  <2>1. Mobile!Task("save", doc.file, doc).does = "save"
    BY DEF Mobile!Task
  <2> QED
    BY <1>3, <2>1, StartKeeps, AskKeeps DEF Mobile!SaveDocument, Mobile!Run
<1>4. CASE Mobile!CloseTrack
  <2>1. CASE Mobile!Ask("close", doc)
    BY <2>1, AskKeeps
  <2>2. CASE UNCHANGED Mobile!shared /\ UNCHANGED dialog
    BY <2>2, AskedElsewhere DEF Mobile!shared, inboxVars
  <2> QED
    BY <1>4, <2>1, <2>2 DEF Mobile!CloseTrack
<1>5. CASE Mobile!RefreshElevation
  <2>1. Mobile!Task("elevation", "none", doc).does = "elevation"
    BY DEF Mobile!Task
  <2> QED
    BY <1>5, <2>1, StartKeeps DEF Mobile!RefreshElevation, Mobile!Run
<1>6. CASE Mobile!AskForEdit
  BY <1>6, AskKeeps DEF Mobile!AskForEdit
<1>7. CASE Mobile!CancelDialog
  BY <1>7, NothingAsked, AskedElsewhere DEF Mobile!CancelDialog, Mobile!shared, inboxVars, QuestionIsKnown, Mobile!NoDialog
<1> QED
  BY <1>1, <1>2, <1>3, <1>4, <1>5, <1>6, <1>7

LEMMA LibraryKeeps ==
    ASSUME InboxInv, NEW f \in Files,
           Mobile!OpenCard(f) \/ Mobile!DeleteTrack(f) \/ \E i \in {1, 2} : Mobile!SavePart(i, f)
    PROVE  InboxInv'
<1>1. CASE Mobile!OpenCard(f)
  <2>1. Mobile!Task("open", f, Mobile!NoDoc).does = "open"
    BY DEF Mobile!Task
  <2> QED
    BY <1>1, <2>1, StartKeeps DEF Mobile!OpenCard, Mobile!Run
<1>2. CASE Mobile!DeleteTrack(f)
  <2>1. LET t == Mobile!Task("delete", f, Mobile!NoDoc)
        IN Mobile!Ask("delete", t) /\ t \in Asked /\ t.does = "delete"
    BY <1>2, TasksAreAsked DEF Mobile!DeleteTrack
  <2> QED
    BY <2>1, AskKeeps
<1>3. ASSUME NEW i \in {1, 2}, Mobile!SavePart(i, f)
      PROVE  InboxInv'
  <2>1. Mobile!Task("part", f, choices[i]).does = "part"
    BY DEF Mobile!Task
  <2> QED
    BY <1>3, <2>1, StartKeeps DEF Mobile!SavePart, Mobile!Run
<1> QED
  BY <1>1, <1>2, <1>3

LEMMA TasksKeep ==
    ASSUME InboxInv, NEW t, Mobile!TaskDone(t) \/ Mobile!TaskFails(t)
    PROVE  InboxInv'
<1>1. UNCHANGED inboxVars /\ dialog' \in {dialog, Mobile!NoDialog}
  BY DEF Mobile!TaskDone, Mobile!TaskFails, Mobile!shared, inboxVars
<1>2. dialog' = dialog \/ QuestionIsKnown'
  BY <1>1 DEF QuestionIsKnown, Mobile!NoDialog
<1> QED
  BY <1>1, <1>2, AskedElsewhere

LEMMA InboxStarts == Mobile!MobileInit => InboxInv
BY DEF Mobile!MobileInit, InboxInv, InboxTyped, QuestionIsKnown, Mobile!NoDialog, InHandIsKnown, Known,
       ImportedIsHandled, ReadIsNew, Mobile!SharedOnce

LEMMA InboxKeeps == InboxInv /\ [Mobile!MobileNext]_mobileVars => InboxInv'
<1> SUFFICES ASSUME InboxInv, [Mobile!MobileNext]_mobileVars PROVE InboxInv'
  OBVIOUS
<1>1. CASE \/ Mobile!Edit \/ Mobile!Undo \/ Mobile!SplitAtStart \/ Mobile!CloseChooser \/ UNCHANGED mobileVars
           \/ \E i \in {1, 2} : Mobile!Choose(i)
  <2>1. UNCHANGED inboxVars /\ UNCHANGED dialog
    BY <1>1 DEF Mobile!Edit, Mobile!Undo, Mobile!SplitAtStart, Mobile!CloseChooser, Mobile!Choose, mobileVars,
                Mobile!shared, inboxVars
  <2> QED
    BY <2>1, AskedElsewhere
<1>2. CASE Mobile!OpenPending
  <2>1. pending \in Shared /\ Known(pending)
    BY <1>2 DEF Mobile!OpenPending, InboxInv, InboxTyped, InHandIsKnown
  <2> QED
    BY <1>2, <2>1, ReadingBegins DEF Mobile!OpenPending, Mobile!editor
<1>3. ASSUME NEW t \in tasks, Mobile!TaskDone(t) \/ Mobile!TaskFails(t)
      PROVE  InboxInv'
  BY <1>3, TasksKeep
<1> QED
  BY <1>1, <1>2, <1>3, UserKeeps, LibraryKeeps, SubmitKeeps, SharingKeeps, PollKeeps, PolledKeeps, InboxReadKeeps,
     DismissKeeps DEF Mobile!MobileNext

(* A file that another app shared is opened once in a session, however often its *)
(* acknowledgement is lost, repeated or overtaken by a poll.                    *)
THEOREM OpenedOnce == Spec => []SharedOnce
<1>1. Init => InboxInv
  BY InboxStarts DEF Init
<1>2. InboxInv /\ [Next]_clientVars => InboxInv'
  BY InboxKeeps DEF Next, clientVars
<1>3. InboxInv => SharedOnce
  BY DEF InboxInv, SharedOnce
<1> QED
  BY <1>1, <1>2, <1>3, PTL DEF Spec

(* Nothing that was shared replaces unsaved edits by itself, nor a question, a    *)
(* choice or a task: unless the user said so, it waits.                         *)
THEOREM WaitsForUser == Spec => SharedWaits
<1>1. ASSUME [Next]_clientVars
      PROVE  [imported' = imported \/ reading.confirmed \/ (~doc.dirty /\ ~Mobile!Blocked)]_Mobile!mobileVars
  <2>1. CASE UNCHANGED mobileVars
    BY <2>1 DEF mobileVars, Mobile!mobileVars, Mobile!editor, Mobile!shared
  <2>2. CASE Mobile!MobileNext
    <3>1. CASE Mobile!ReadDone
      BY <3>1 DEF Mobile!ReadDone, Mobile!Takes
    <3>2. CASE ~Mobile!ReadDone
      <4>1. imported' = imported
        BY <2>2, <3>2 DEF Mobile!MobileNext, Mobile!Edit, Mobile!Undo, Mobile!SplitAtStart, Mobile!CloseChooser,
          Mobile!ImportFile, Mobile!OpenShared, Mobile!SaveDocument, Mobile!CloseTrack, Mobile!RefreshElevation,
          Mobile!AskForEdit, Mobile!CancelDialog, Mobile!Submit, Mobile!Poll, Mobile!Polled, Mobile!OpenPending,
          Mobile!ReadFails, Mobile!Acknowledged, Mobile!Dismiss, Mobile!Choose, Mobile!OpenCard, Mobile!DeleteTrack,
          Mobile!SavePart, Mobile!FileShared, Mobile!TaskDone, Mobile!TaskFails, Mobile!ConfirmReplace, Mobile!Ask,
          Mobile!Run, Mobile!Start, Mobile!shared
      <4> QED
        BY <4>1
    <3> QED
      BY <3>1, <3>2
  <2> QED
    BY <1>1, <2>1, <2>2 DEF Next, clientVars
<1> QED
  BY <1>1, PTL DEF Spec, SharedWaits, Mobile!SharedWaits

-----------------------------------------------------------------------------
(* A request is told by its region and by whether it was aborted, so that at    *)
(* most one that was not is under way.                                         *)
AskedAreRequests ==
    \A q \in estimateAsked : q.aborted \in BOOLEAN /\ q = [region |-> q.region, aborted |-> q.aborted]

RegionsInv == AskedAreRequests /\ Regions!EstimateFits

-----------------------------------------------------------------------------
(* What is wanted depends on the screen, the area that is open and the status.   *)
LEMMA WantedKept ==
    ASSUME UNCHANGED <<screen, managerOpen, managerDetail, job, installed>>
    PROVE  Regions!Wanted' = Regions!Wanted
BY DEF Regions!Wanted, Regions!Needed, Regions!RoutingBusy, Regions!DetailRegion, Regions!RegionIds

(* A step that touches neither that nor the requests.                           *)
LEMMA RegionsElsewhere ==
    ASSUME RegionsInv, UNCHANGED <<screen, managerOpen, managerDetail, job, installed, estimate, estimateAsked>>
    PROVE  RegionsInv'
<1>1. Regions!Wanted' = Regions!Wanted
  BY WantedKept
<1> QED
  BY <1>1 DEF RegionsInv, AskedAreRequests, Regions!EstimateFits

(* The effect, whatever the step before it did to the manager.                  *)
LEMMA EffectKeeps ==
    ASSUME RegionsInv, Regions!EstimateEffect
    PROVE  RegionsInv'
<1>1. CASE Regions!Wanted' = Regions!Wanted
  BY <1>1 DEF Regions!EstimateEffect, Regions!estimateVars, RegionsInv, AskedAreRequests, Regions!EstimateFits
<1>2. CASE Regions!Wanted' # Regions!Wanted
  <2> DEFINE old == {[region |-> q.region, aborted |-> TRUE] : q \in {r \in estimateAsked : ~r.aborted}}
             new == IF Regions!Wanted' = "" THEN {} ELSE {[region |-> Regions!Wanted', aborted |-> FALSE]}
  <2>1. /\ estimate' = IF Regions!Wanted' = "" THEN Regions!NoEstimate ELSE [region |-> Regions!Wanted', loading |-> TRUE]
        /\ estimateAsked' = old \union new
    BY <1>2 DEF Regions!EstimateEffect
  <2>2. \A q \in old : q.aborted = TRUE /\ q = [region |-> q.region, aborted |-> q.aborted]
    <3> SUFFICES ASSUME NEW r \in estimateAsked
                 PROVE  LET q == [region |-> r.region, aborted |-> TRUE]
                        IN q.aborted = TRUE /\ q = [region |-> q.region, aborted |-> q.aborted]
      OBVIOUS
    <3> QED
      OBVIOUS
  <2>3. \A q \in new : q.aborted = FALSE /\ q.region = Regions!Wanted' /\ q = [region |-> q.region, aborted |-> q.aborted]
    <3> SUFFICES ASSUME NEW q \in new
                 PROVE  q.aborted = FALSE /\ q.region = Regions!Wanted' /\ q = [region |-> q.region, aborted |-> q.aborted]
      OBVIOUS
    <3>1. q = [region |-> Regions!Wanted', aborted |-> FALSE]
      OBVIOUS
    <3> QED
      BY <3>1
  <2>4. AskedAreRequests'
    BY <2>1, <2>2, <2>3 DEF AskedAreRequests
  <2>5. Regions!EstimateFits'
    <3> HIDE DEF old
    <3>1. CASE Regions!Wanted' = ""
      BY <2>1, <2>2, <3>1 DEF Regions!EstimateFits, Regions!NoEstimate
    <3>2. CASE Regions!Wanted' # ""
      <4>1. [region |-> Regions!Wanted', aborted |-> FALSE] \in estimateAsked'
        BY <2>1, <3>2
      <4>2. estimate'.region = Regions!Wanted' /\ estimate'.loading = TRUE
        BY <2>1, <3>2
      <4>3. \A q \in estimateAsked' : ~q.aborted => q.region = Regions!Wanted'
        BY <2>1, <2>2, <2>3
      <4> QED
        BY <4>1, <4>2, <4>3 DEF Regions!EstimateFits
    <3> QED
      BY <3>1, <3>2
  <2> QED
    BY <2>4, <2>5 DEF RegionsInv
<1> QED
  BY <1>1, <1>2

(* An answer ends the only request that is heard, or one that is not.           *)
LEMMA EstimateAnswerKeeps ==
    ASSUME RegionsInv, NEW q \in estimateAsked, Regions!EstimateAnswered(q)
    PROVE  RegionsInv'
<1>1. Regions!Wanted' = Regions!Wanted
  BY WantedKept DEF Regions!EstimateAnswered, Regions!wayVars, Regions!downloadVars
<1>2. estimateAsked' = estimateAsked \ {q}
  BY DEF Regions!EstimateAnswered
<1>3. AskedAreRequests'
  BY <1>2 DEF RegionsInv, AskedAreRequests
<1>4. CASE q.aborted
  BY <1>1, <1>2, <1>3, <1>4 DEF Regions!EstimateAnswered, RegionsInv, Regions!EstimateFits
<1>5. CASE ~q.aborted
  <2>1. q.region = Regions!Wanted
    BY <1>5 DEF RegionsInv, Regions!EstimateFits
  <2>2. \A r \in estimateAsked' : r.aborted
    <3> SUFFICES ASSUME NEW r \in estimateAsked', ~r.aborted
                 PROVE  FALSE
      OBVIOUS
    <3>1. r \in estimateAsked /\ r # q
      BY <1>2
    <3>2. r.region = Regions!Wanted
      BY <3>1 DEF RegionsInv, Regions!EstimateFits
    <3>3. r.aborted = FALSE /\ q.aborted = FALSE
      BY <1>5, <3>1 DEF RegionsInv, AskedAreRequests
    <3> QED
      BY <2>1, <3>1, <3>2, <3>3 DEF RegionsInv, AskedAreRequests
  <2>3. estimate' = [region |-> Regions!Wanted, loading |-> FALSE]
    BY <1>5, <2>1 DEF Regions!EstimateAnswered
  <2> QED
    BY <1>1, <1>3, <2>2, <2>3 DEF RegionsInv, Regions!EstimateFits
<1> QED
  BY <1>4, <1>5

-----------------------------------------------------------------------------
LEMMA RegionsStart == Regions!ManagerInit => RegionsInv
<1> SUFFICES ASSUME Regions!ManagerInit PROVE RegionsInv
  OBVIOUS
<1>1. Regions!Wanted = ""
  BY DEF Regions!ManagerInit, Regions!Wanted, Regions!Needed
<1> QED
  BY <1>1 DEF Regions!ManagerInit, Regions!NoEstimate, RegionsInv, AskedAreRequests, Regions!EstimateFits

LEMMA RegionsKeep == RegionsInv /\ [Regions!ManagerNext]_regionVars => RegionsInv'
<1> SUFFICES ASSUME RegionsInv, [Regions!ManagerNext]_regionVars PROVE RegionsInv'
  OBVIOUS
<1> USE DEF Regions!listVars, Regions!wayVars, Regions!downloadVars, Regions!estimateVars
<1>1. CASE Regions!OpenManager \/ Regions!Close \/ Regions!CatalogueListed \/ Regions!ChooseCity
  BY <1>1, EffectKeeps DEF Regions!OpenManager, Regions!Close, Regions!Left, Regions!CatalogueListed, Regions!ChooseCity
<1>2. CASE Regions!Back
  BY <1>2, EffectKeeps DEF Regions!Back, Regions!Left
<1>3. CASE Regions!CatalogueRefused
  BY <1>3, RegionsElsewhere DEF Regions!CatalogueRefused
<1>4. CASE Regions!ShowTab \/ Regions!ShowKind \/ Regions!Filter \/ Regions!FindCities \/ Regions!CitiesFound
  BY <1>4, RegionsElsewhere DEF Regions!ShowTab, Regions!ShowKind, Regions!Filter, Regions!FindCities, Regions!CitiesFound, Regions!StaysAtList
<1>5. CASE \E r \in Regions!Merged : Regions!ChooseRegion(r) \/ Regions!DownloadRegion(r)
  BY <1>5, EffectKeeps DEF Regions!ChooseRegion, Regions!DownloadRegion
<1>6. CASE \E a \in DOMAIN storedMaps : Regions!OpenStored(a) \/ Regions!AskRemove(a) \/ Regions!MapsEnd(a)
  <2> SUFFICES ASSUME NEW a \in DOMAIN storedMaps, Regions!OpenStored(a) \/ Regions!AskRemove(a) \/ Regions!MapsEnd(a)
               PROVE  RegionsInv'
    BY <1>6
  <2>1. CASE Regions!AskRemove(a)
    BY <2>1, RegionsElsewhere DEF Regions!AskRemove
  <2> QED
    BY <2>1, EffectKeeps DEF Regions!OpenStored, Regions!MapsEnd, Regions!Ends
<1>7. CASE \E d \in Regions!Parts : Regions!OpenPart(d)
  BY <1>7, EffectKeeps DEF Regions!OpenPart
<1>8. CASE managerOpen /\ managerDetail # <<>> /\ Regions!Download(Head(managerDetail))
  BY <1>8, RegionsElsewhere DEF Regions!Download, Regions!Starts
<1>9. CASE managerOpen /\ managerDetail # <<>> /\ Regions!UseRegion(Head(managerDetail))
  BY <1>9, EffectKeeps DEF Regions!UseRegion
<1>10. CASE Regions!StopDownloads
  BY <1>10, EffectKeeps DEF Regions!StopDownloads
<1>11. CASE Regions!Started \/ Regions!StartRefused \/ Regions!RoutingEnds \/ Regions!OthersPrepare
  BY <1>11, EffectKeeps DEF Regions!Started, Regions!StartRefused, Regions!RoutingEnds, Regions!OthersPrepare, Regions!Ends
<1>12. CASE \E q \in estimateAsked : Regions!EstimateAnswered(q)
  BY <1>12, EstimateAnswerKeeps
<1>13. CASE UNCHANGED regionVars
  BY <1>13, RegionsElsewhere DEF regionVars
<1> QED
  BY <1>1, <1>2, <1>3, <1>4, <1>5, <1>6, <1>7, <1>8, <1>9, <1>10, <1>11, <1>12, <1>13 DEF Regions!ManagerNext

(* The estimate in hand is that of the region on the screen, and while it is    *)
(* said to come, a request is under way that will be heard.                    *)
THEOREM EstimateHeld == Spec => []EstimateFits
<1>1. Init => RegionsInv
  BY RegionsStart DEF Init
<1>2. RegionsInv /\ [Next]_clientVars => RegionsInv'
  BY RegionsKeep DEF Next, clientVars
<1>3. RegionsInv => EstimateFits
  BY DEF RegionsInv, EstimateFits
<1> QED
  BY <1>1, <1>2, <1>3, PTL DEF Spec
-----------------------------------------------------------------------------
(* The client asks its library as the library expects it, so that what           *)
(* LibraryProofs shows of LibrarySpec holds of the client.                      *)
THEOREM LibraryMoves == Spec => LibrarySpec
<1>1. Init => LibraryInit
  BY DEF Init
<1>2. [Next]_clientVars => [LibraryNext]_libraryVars
  BY DEF Next, clientVars
<1> QED
  BY <1>1, <1>2, PTL DEF Spec, LibrarySpec
=============================================================================
