--------------------------- MODULE AuctionImages ---------------------------
(* The pages that create and edit an auction, and the image back end behind *)
(* them: one submission of one page.  The page sends its uploads (and, when *)
(* editing, before them its deletions) in parallel and stops listening at   *)
(* the first error, while the server goes on with the others; creating then *)
(* deletes the auction again.  The scheduler may activate the auction at    *)
(* any time after its start.                                                *)
(*                                                                          *)
(* Create, update and their answers are one step each: AuctionStore has     *)
(* their statements.  An upload and a deletion are one step per statement   *)
(* or file operation; a statement that reports an error has done nothing.   *)
(* A file name is the file: uuid.NewString gives every upload its own.      *)
EXTENDS Integers, Sequences, FiniteSets

CONSTANTS
    Old,            \* the images an edited auction may have, in their order
    New,            \* files the user may pick
    Odd,            \* those that are no JPEG or PNG of at most 5 MB
    Limit,          \* MaxImagesPerAuction, maxCount, MAX_TOTAL_IMAGES: 10
    Lead,           \* the form wants the start so far ahead: 5 minutes
    MinDuration,    \* minAuctionDuration, and the form's: 5 minutes
    MaxTime         \* bound: the clock stops there

ASSUME ImagesAssumption ==
    /\ Old \in Seq({Old[i] : i \in DOMAIN Old})
    /\ \A i, j \in DOMAIN Old : Old[i] = Old[j] => i = j
    /\ {Old[i] : i \in DOMAIN Old} \cap New = {}
    /\ Odd \subseteq New /\ IsFiniteSet(New) /\ Limit \in Nat \ {0}
    /\ Lead \in Nat \ {0} /\ MinDuration \in Nat \ {0} /\ MaxTime \in Nat

VARIABLES
    page,       \* the page: form, lists of images, phase of its submission
    auction,    \* its row: status and start time
    rows,       \* auction_images
    disk,       \* the files in the upload directory of the auction
    up, del,    \* each upload and each deletion: server side, what the page heard
    now,
    faults      \* history: what went wrong outside the program

vars == <<page, auction, rows, disk, up, del, now, faults>>

OldFiles == {Old[i] : i \in DOMAIN Old}
Ids      == {row.id : row \in rows}
Titles   == {"plain", "short", "padded", "wide"}
Values   == [title : Titles, details : BOOLEAN, prices : BOOLEAN, start : 0 .. MaxTime, end : 0 .. MaxTime + MinDuration]
NoValues == [title |-> "short", details |-> FALSE, prices |-> FALSE, start |-> 0, end |-> 0]
Idle     == [st |-> "none", n |-> 0, heard |-> "no"]
Asked    == [Idle EXCEPT !.st = "sent"]

NewAuctionPage == [kind |-> "create", st |-> "open", cats |-> "loading", loading |-> FALSE,
                   values |-> NoValues, files |-> {}, existing |-> {}, removed |-> {}]
EditAuctionPage == [NewAuctionPage EXCEPT !.kind = "edit", !.loading = TRUE]

\* The page as it opens, for a new auction or for one with images.
Init ==
    /\ \E n \in 0 .. Len(Old) :
          /\ rows = {[id |-> Old[i], sort |-> i, primary |-> i = 1] : i \in 1 .. n}
          /\ auction = IF n = 0 THEN [st |-> "none", start |-> 0] ELSE [st |-> "PENDING", start |-> 1]
          /\ page = IF n = 0 THEN NewAuctionPage ELSE EditAuctionPage
    /\ disk = Ids
    /\ up = [f \in New |-> Idle] /\ del = [o \in OldFiles |-> Idle]
    /\ now = 0 /\ faults = {}

server == <<auction, rows, disk, up, del>>
Env    == UNCHANGED <<now, faults>>
Goes(st) == page' = [page EXCEPT !.st = st]

-----------------------------------------------------------------------------
(* The form.                                                                *)

Creates == page.kind = "create"
Edits   == page.kind = "edit"

\* What the edit page shows: it spins until both lists have answered.
EditView ==
    IF page.loading \/ page.cats = "loading" THEN "spinner"
    ELSE IF page.st = "blocked" THEN "not allowed" ELSE "form"

FormOpen == page.st = "open" /\ (Edits => EditView = "form")

SetCategories(cats) == page.cats = "loading" /\ page' = [page EXCEPT !.cats = cats]

CategoriesLoad ==
    /\ Creates /\ \E cats \in {"ok", "none"} : SetCategories(cats)
    /\ Env /\ UNCHANGED server

EditCategoriesLoad ==
    /\ Edits /\ \E cats \in {"ok", "none"} : SetCategories(cats)
    /\ Env /\ UNCHANGED server

\* getAuctionById; when it fails the edit form opens empty.
AuctionLoads ==
    /\ page.loading
    /\ \/ page' = IF auction.st = "PENDING"
                    THEN [page EXCEPT !.loading = FALSE, !.existing = Ids]
                    ELSE [page EXCEPT !.loading = FALSE, !.st = "blocked"]
       \/ page' = [page EXCEPT !.loading = FALSE]
    /\ Env /\ UNCHANGED server

\* Both pages have the same filter of files.
BeforeUpload(f)     == f \notin Odd
EditBeforeUpload(f) == f \notin Odd

RemainingSlots == Limit - Cardinality(page.existing)

\* antd's Upload takes a maxCount of 0 for no maximum.
WithinMaxCount(files, max) == max = 0 \/ Cardinality(files) <= max

Choose(files) ==
    /\ FormOpen /\ files # page.files
    /\ page' = [page EXCEPT !.files = files]
    /\ Env /\ UNCHANGED server

ChooseFiles(files) ==
    /\ Creates /\ (\A f \in files : BeforeUpload(f)) /\ WithinMaxCount(files, Limit)
    /\ Choose(files)

AddFiles(files) ==
    /\ Edits /\ (\A f \in files : EditBeforeUpload(f)) /\ WithinMaxCount(files, RemainingSlots)
    /\ Choose(files)

\* The edit form shows the images it keeps, each with a cross.
ShownImages == IF Edits /\ FormOpen THEN page.existing ELSE {}

\* The cross, and its confirmation.
RemoveExisting(o) ==
    /\ o \in ShownImages
    /\ page' = [page EXCEPT !.existing = @ \ {o}, !.removed = @ \cup {o}]
    /\ Env /\ UNCHANGED server

\* The rules of the form.  A title may be too short, or shrink below the minimum
\* when it is trimmed and stripped of tags, or have at most 255 characters but
\* more than 255 bytes.  "details" stands for the rules of category and
\* description, "prices" for those of the two prices.
CreateTitle(v)   == v.title # "short"
CreateDetails(v) == v.details /\ page.cats = "ok"
CreatePrices(v)  == v.prices

\* Mutant of CreateTimes: the duration is not checked.
CreateStartOnly(v) == v.start >= now + Lead

CreateTimes(v) == v.start >= now + Lead /\ v.end - v.start >= MinDuration

\* The edit form repeats them; its category is already chosen.
EditTitle(v)   == v.title # "short"
EditDetails(v) == v.details
EditTimes(v)   == v.start >= now + Lead /\ v.end - v.start >= MinDuration
EditPrices(v)  == v.prices

\* AuctionService.Create; Update checks the same.
ServerAccepts(v) ==
    /\ v.title = "plain" /\ v.details /\ v.prices
    /\ v.start > now /\ v.end - v.start >= MinDuration

Submit(v, st) ==
    /\ FormOpen
    /\ page' = [page EXCEPT !.st = st, !.values = v]
    /\ Env /\ UNCHANGED server

\* The button is off until the categories have answered.
CreateButton == Creates /\ page.st = "open" /\ page.cats # "loading"

\* onFinish up to its first call.
CreateSubmit(v) ==
    /\ CreateButton
    /\ CreateTitle(v) /\ CreateDetails(v) /\ CreateTimes(v) /\ CreatePrices(v)
    /\ page.files # {}
    /\ Submit(v, "creating")

EditSubmit(v) ==
    /\ Edits /\ EditTitle(v) /\ EditDetails(v) /\ EditTimes(v) /\ EditPrices(v)
    /\ page.files # {} \/ page.existing # {}
    /\ Submit(v, "updating")

-----------------------------------------------------------------------------
(* POST and PUT of the auction.                                             *)

Refused == page' = [page EXCEPT !.st = "failed", !.values = NoValues]

CreateRefused ==
    /\ page.st = "creating" /\ ~ServerAccepts(page.values)
    /\ Refused /\ Env /\ UNCHANGED server

CreateAnswers ==
    /\ page.st = "creating" /\ ServerAccepts(page.values)
    /\ auction' = [st |-> "PENDING", start |-> page.values.start]
    /\ page' = [page EXCEPT !.st = "uploading", !.values = NoValues]
    /\ up' = [f \in New |-> IF f \in page.files THEN Asked ELSE Idle]
    /\ Env /\ UNCHANGED <<rows, disk, del>>

\* A query fails or the answer is lost.  The auction may have been created (an
\* error may come after the INSERT, from reading its categories), and the page
\* has no id to roll back with.
CreateLost ==
    /\ page.st = "creating" /\ ServerAccepts(page.values)
    /\ auction' \in {auction, [st |-> "PENDING", start |-> page.values.start]}
    /\ Refused
    /\ faults' = faults \cup {"create"}
    /\ UNCHANGED <<rows, disk, up, del, now>>

Updatable == auction.st = "PENDING" /\ ServerAccepts(page.values)

UpdateRefused ==
    /\ page.st = "updating" /\ ~Updatable
    /\ Refused /\ Env /\ UNCHANGED server

UpdateAnswers ==
    /\ page.st = "updating" /\ Updatable
    /\ auction' = [auction EXCEPT !.start = page.values.start]
    /\ page' = [page EXCEPT !.st = "deleting", !.values = NoValues]
    /\ del' = [o \in OldFiles |-> IF o \in page.removed THEN Asked ELSE Idle]
    /\ Env /\ UNCHANGED <<rows, disk, up>>

UpdateLost ==
    /\ page.st = "updating" /\ Updatable
    /\ auction' \in {auction, [auction EXCEPT !.start = page.values.start]}
    /\ Refused
    /\ faults' = faults \cup {"update"}
    /\ UNCHANGED <<rows, disk, up, del, now>>

-----------------------------------------------------------------------------
(* DELETE of an image: handler and service.                                 *)

DeleteGoes(o, from, to) == del[o].st = from /\ del' = [del EXCEPT ![o].st = to]

\* Owner and status, then the row: whether it is the primary image.
DeleteReads(o) ==
    /\ IF auction.st = "PENDING" /\ o \in Ids
         THEN /\ DeleteGoes(o, "sent", IF [id |-> o, primary |-> TRUE] \in
                                          {[id |-> row.id, primary |-> row.primary] : row \in rows}
                                         THEN "was primary" ELSE "was other")
         ELSE DeleteGoes(o, "sent", "failed")
    /\ Env /\ UNCHANGED <<page, auction, rows, disk, up>>

\* Mutant of DeleteRow: the file goes first.
DeleteRowAndFile(o) ==
    /\ \/ DeleteGoes(o, "was primary", "promote")
       \/ DeleteGoes(o, "was other", "unlink")
    /\ disk' = disk \ {o}
    /\ rows' \in {rows, {row \in rows : row.id # o}}
    /\ Env /\ UNCHANGED <<page, auction, up>>

DeleteRow(o) ==
    /\ \/ DeleteGoes(o, "was primary", "promote")
       \/ DeleteGoes(o, "was other", "unlink")
    /\ rows' = {row \in rows : row.id # o}
    /\ Env /\ UNCHANGED <<page, auction, disk, up>>

\* PromoteFirstImageToPrimary.
First(others) == {row \in others : \A other \in others : row.sort <= other.sort}

Promote(o) ==
    /\ DeleteGoes(o, "promote", "unlink")
    /\ LET others == {row \in rows : ~row.primary} IN
         IF others = {} THEN UNCHANGED rows
         ELSE \E row \in First(others) : rows' = (rows \ {row}) \cup {[row EXCEPT !.primary = TRUE]}
    /\ Env /\ UNCHANGED <<page, auction, disk, up>>

\* Its failure is only logged.
PromoteErrs(o) ==
    /\ DeleteGoes(o, "promote", "unlink")
    /\ faults' = faults \cup {"promote"}
    /\ UNCHANGED <<page, auction, rows, disk, up, now>>

Unlink(o) ==
    /\ DeleteGoes(o, "unlink", "ok")
    /\ disk' = disk \ {o}
    /\ Env /\ UNCHANGED <<page, auction, rows, up>>

DeleteErrs(o) ==
    /\ \E st \in {"sent", "was primary", "was other"} : DeleteGoes(o, st, "failed")
    /\ faults' = faults \cup {"delete"}
    /\ UNCHANGED <<page, auction, rows, disk, up, now>>

-----------------------------------------------------------------------------
(* POST of an image: handler and service.                                   *)

UploadGoes(f, from, to) == up[f].st = from /\ up' = [up EXCEPT ![f].st = to]

\* validateUpload, and the file written and synced.
Write(f) ==
    /\ UploadGoes(f, "sent", "written")
    /\ disk' = disk \cup {f}
    /\ Env /\ UNCHANGED <<page, auction, rows, del>>

\* Whatever Create returns as an error takes the file away again.
Drop(f, from) == UploadGoes(f, from, "failed") /\ disk' = disk \ {f}

Check(f) ==
    /\ IF auction.st = "PENDING" THEN UploadGoes(f, "written", "checked") /\ UNCHANGED disk
       ELSE Drop(f, "written")
    /\ Env /\ UNCHANGED <<page, auction, rows, del>>

CountImages(f) ==
    /\ IF Cardinality(rows) < Limit
         THEN /\ up[f].st = "checked" /\ UNCHANGED disk
              /\ up' = [up EXCEPT ![f].st = "counted", ![f].n = Cardinality(rows)]
         ELSE Drop(f, "checked")
    /\ Env /\ UNCHANGED <<page, auction, rows, del>>

\* The foreign key and the unique index on the primary image.
Insertable(n) ==
    auction.st \in {"PENDING", "ACTIVE"} /\ (n = 0 => \A row \in rows : ~row.primary)

Insert(f) ==
    /\ IF Insertable(up[f].n)
         THEN /\ UploadGoes(f, "counted", "ok") /\ UNCHANGED disk
              /\ rows' = rows \cup {[id |-> f, sort |-> up[f].n + 1, primary |-> up[f].n = 0]}
         ELSE Drop(f, "counted") /\ UNCHANGED rows
    /\ Env /\ UNCHANGED <<page, auction, del>>

\* A query fails.
UploadErrs(f) ==
    /\ \E st \in {"written", "checked", "counted"} : Drop(f, st)
    /\ faults' = faults \cup {"upload"}
    /\ UNCHANGED <<page, auction, rows, del, now>>

-----------------------------------------------------------------------------
(* The page goes on: two Promise.all, one after the other.                  *)

\* Mutant of Hear: an error is not heard.
HearNoError(call) == IF call.heard = "no" /\ call.st = "ok" THEN {"ok"} ELSE {}

Hear(call) ==
    IF call.heard # "no" THEN {}
    ELSE IF call.st = "ok" THEN {"ok"} ELSE IF call.st = "failed" THEN {"error"} ELSE {}

HearUpload(f) ==
    /\ page.st = "uploading"
    /\ \E heard \in Hear(up[f]) : up' = [up EXCEPT ![f].heard = heard]
    /\ Env /\ UNCHANGED <<page, auction, rows, disk, del>>

HearDelete(o) ==
    /\ page.st = "deleting"
    /\ \E heard \in Hear(del[o]) : del' = [del EXCEPT ![o].heard = heard]
    /\ Env /\ UNCHANGED <<page, auction, rows, disk, up>>

\* The connection of a request breaks: an error, whatever the server does.
Lose ==
    /\ \/ /\ page.st = "uploading" /\ UNCHANGED del
          /\ \E f \in page.files : up[f].heard = "no" /\ up' = [up EXCEPT ![f].heard = "error"]
       \/ /\ page.st = "deleting" /\ UNCHANGED up
          /\ \E o \in page.removed : del[o].heard = "no" /\ del' = [del EXCEPT ![o].heard = "error"]
    /\ faults' = faults \cup {"answer"}
    /\ UNCHANGED <<page, auction, rows, disk, now>>

\* Mutant of AllHeard: Promise.any.
SomeHeard(calls, asked) == asked = {} \/ \E f \in asked : calls[f].heard = "ok"

AllHeard(calls, asked)  == \A f \in asked : calls[f].heard = "ok"
SomeError(calls, asked) == \E f \in asked : calls[f].heard = "error"

DeletesDone ==
    /\ page.st = "deleting" /\ AllHeard(del, page.removed)
    /\ Goes("uploading")
    /\ up' = [f \in New |-> IF f \in page.files THEN Asked ELSE Idle]
    /\ Env /\ UNCHANGED <<auction, rows, disk, del>>

UploadsDone ==
    /\ Creates /\ page.st = "uploading" /\ AllHeard(up, page.files)
    /\ page' = [page EXCEPT !.st = "success", !.files = {}]
    /\ Env /\ UNCHANGED server

EditDone ==
    /\ Edits /\ page.st = "uploading" /\ AllHeard(up, page.files)
    /\ Goes("success")
    /\ Env /\ UNCHANGED server

\* Mutant of UploadsFail: no rollback.
UploadsFailOnly ==
    /\ Creates /\ page.st = "uploading" /\ SomeError(up, page.files)
    /\ Goes("failed")
    /\ Env /\ UNCHANGED server

UploadsFail ==
    /\ Creates /\ page.st = "uploading" /\ SomeError(up, page.files)
    /\ Goes("rollback")
    /\ Env /\ UNCHANGED server

\* "The information is updated, but ..."
EditFails ==
    /\ Edits
    /\ \/ page.st = "deleting" /\ SomeError(del, page.removed)
       \/ page.st = "uploading" /\ SomeError(up, page.files)
    /\ Goes("warned")
    /\ Env /\ UNCHANGED server

\* The rollback: AuctionService.Delete reads the status, then deletes the row if
\* it is still PENDING, its images with it.  Their files stay.
RollbackReads ==
    /\ page.st = "rollback"
    /\ Goes(IF auction.st = "PENDING" THEN "undo" ELSE "failed")
    /\ Env /\ UNCHANGED server

RollbackDeletes ==
    /\ page.st = "undo"
    /\ Goes("failed")
    /\ IF auction.st = "PENDING" THEN auction' = [auction EXCEPT !.st = "deleted"] /\ rows' = {}
       ELSE UNCHANGED <<auction, rows>>
    /\ Env /\ UNCHANGED <<disk, up, del>>

\* Its failure is only logged.
RollbackErrs ==
    /\ page.st \in {"rollback", "undo"}
    /\ Goes("failed")
    /\ faults' = faults \cup {"rollback"}
    /\ UNCHANGED <<server, now>>

-----------------------------------------------------------------------------
(* The rest of the world.                                                   *)

Tick == now < MaxTime /\ now' = now + 1 /\ UNCHANGED <<page, server, faults>>

Activate ==
    /\ auction.st = "PENDING" /\ now >= auction.start
    /\ auction' = [auction EXCEPT !.st = "ACTIVE"]
    /\ Env /\ UNCHANGED <<page, rows, disk, up, del>>

\* The server stops: its requests end where they are.
Died(call) == IF call.st \in {"none", "ok", "failed"} THEN call ELSE [call EXCEPT !.st = "failed"]

Crash ==
    /\ "crash" \notin faults /\ page.st \in {"deleting", "uploading", "rollback", "undo", "warned"}
    /\ up' = [f \in New |-> Died(up[f])] /\ del' = [o \in OldFiles |-> Died(del[o])]
    /\ faults' = faults \cup {"crash"}
    /\ UNCHANGED <<page, auction, rows, disk, now>>

UploadStep(f) == Write(f) \/ Check(f) \/ CountImages(f) \/ Insert(f) \/ HearUpload(f)
DeleteStep(o) == DeleteReads(o) \/ DeleteRow(o) \/ Promote(o) \/ Unlink(o) \/ HearDelete(o)
CallStep == CreateRefused \/ CreateAnswers \/ UpdateRefused \/ UpdateAnswers
PageStep == DeletesDone \/ UploadsDone \/ EditDone \/ UploadsFail \/ EditFails
              \/ RollbackReads \/ RollbackDeletes

Progress ==
    \/ CategoriesLoad \/ EditCategoriesLoad \/ AuctionLoads \/ CallStep \/ PageStep
    \/ \E f \in New : UploadStep(f)
    \/ \E o \in OldFiles : DeleteStep(o)

UserStep ==
    \/ \E files \in SUBSET New : ChooseFiles(files) \/ AddFiles(files)
    \/ \E o \in OldFiles : RemoveExisting(o)
    \/ \E v \in Values : CreateSubmit(v) \/ EditSubmit(v)

Faults ==
    \/ CreateLost \/ UpdateLost \/ RollbackErrs \/ Lose \/ Crash
    \/ \E f \in New : UploadErrs(f)
    \/ \E o \in OldFiles : DeleteErrs(o) \/ PromoteErrs(o)

Next == Progress \/ UserStep \/ Faults \/ Tick \/ Activate

\* Every request is worked on and answered.
Spec == Init /\ [][Next]_vars /\ WF_vars(Progress)

-----------------------------------------------------------------------------
(* Properties.                                                              *)

Submitting == {"creating", "updating", "deleting", "uploading", "rollback", "undo"}

Pages ==
    [kind : {"create", "edit"}, cats : {"loading", "ok", "none"}, loading : BOOLEAN,
     st : Submitting \cup {"open", "blocked", "success", "warned", "failed"},
     values : Values, files : SUBSET New, existing : SUBSET OldFiles, removed : SUBSET OldFiles]
Rows == [id : New \cup OldFiles, sort : Nat, primary : BOOLEAN]
Calls(phases) == [st : phases \cup {"none", "sent", "ok", "failed"}, n : 0 .. Limit,
                  heard : {"no", "ok", "error"}]

TypeOK ==
    /\ page \in Pages /\ now \in 0 .. MaxTime
    /\ auction \in [st : {"none", "PENDING", "ACTIVE", "deleted"}, start : Nat]
    /\ rows \subseteq Rows /\ IsFiniteSet(rows) /\ disk \subseteq New \cup OldFiles
    /\ up \in [New -> Calls({"written", "checked", "counted"})]
    /\ del \in [OldFiles -> Calls({"was primary", "was other", "promote", "unlink"})]
    /\ faults \subseteq {"create", "update", "promote", "delete", "upload", "answer",
                        "rollback", "crash"}

\* An image row of the auction shows a file that is there, whatever failed and
\* even after a crash: files are written before their row and removed after it.
RowHasFile == Ids \subseteq disk

\* When no request runs the directory of an auction holds nothing else, unless
\* the server crashed: every error path takes its file away.
Quiet == \A call \in {up[f] : f \in New} \cup {del[o] : o \in OldFiles} :
            call.st \in {"none", "ok", "failed"}
NoStrayFiles ==
    Quiet /\ auction.st \in {"PENDING", "ACTIVE"} /\ "crash" \notin faults => disk = Ids

\* No image outlives its auction, although uploads may still run when the page
\* deletes the auction they are for.
NoOrphans == rows # {} => auction.st \in {"PENDING", "ACTIVE"}

\* An auction with images has exactly one primary image when no request runs,
\* unless two deletions ran together or a promotion failed.
AnImageIsPrimary ==
    /\ \A r, q \in rows : r.primary /\ q.primary => r = q
    /\ Quiet /\ rows # {} /\ Cardinality(page.removed) <= 1 /\ faults \cap {"promote", "crash"} = {}
         => \E row \in rows : row.primary

ImagesInv == TypeOK /\ RowHasFile /\ NoStrayFiles /\ NoOrphans /\ AnImageIsPrimary

\* The form's rules suffice: the server refuses what it let through only for a
\* title the two measure differently or a start that has come meanwhile, and a
\* single image that it let through is stored unless something fails.
FormAgrees ==
    /\ page.st \in {"creating", "updating"} /\ page.values.title = "plain" /\ now < page.values.start
         => ServerAccepts(page.values)
    /\ page.st = "rollback" /\ Cardinality(page.files) = 1
         => faults # {} \/ auction.st # "PENDING"

\* The page reports success only when every picked file is an image of the
\* auction, every image it kept still is, and those it removed are gone.
SuccessIsComplete ==
    [][page'.st = "success" /\ page.st # "success" =>
         /\ page.files \cup page.existing \subseteq Ids
         /\ page.removed \cap Ids = {}]_vars

\* A creation that is reported as failed leaves no auction behind for the owner
\* to stumble on, unless a call was lost or the auction started meanwhile.
FailedCreateLeavesNothing ==
    Creates /\ page.st = "failed" /\ faults \cap {"create", "rollback"} = {}
       => auction.st \in {"none", "deleted", "ACTIVE"}

\* The button of the form stops spinning.
SubmissionEnds == page.st \in Submitting ~> page.st \notin Submitting

\* Does not hold: what the page offers ("JPG/PNG, at most 10 images") works: without a fault
\* no creation is rolled back while its auction is still PENDING.
ValidSubmissionSucceeds == page.st = "rollback" => faults # {} \/ auction.st # "PENDING"
=============================================================================
