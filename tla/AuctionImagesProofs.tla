------------------------- MODULE AuctionImagesProofs -------------------------
(* Safety of AuctionImages, for every auction, every set of files and every *)
(* limit.                                                                   *)
EXTENDS AuctionImages, FiniteSetTheorems, TLAPS

-----------------------------------------------------------------------------
(* The inductive invariant.                                                 *)

\* What the phase of the page says of the auction and of the requests.
Phases ==
    /\ Creates => ~page.loading /\ page.existing = {} /\ page.removed = {}
    /\ page.loading => page.st = "open" /\ page.removed = {}
    /\ page.existing \cap page.removed = {}
    /\ Creates /\ page.st \in {"open", "blocked", "creating"} => auction.st = "none"
    /\ page.st \in {"creating", "rollback", "undo"} => Creates
    /\ page.st \in {"updating", "deleting"} => Edits
    /\ page.st \in {"open", "blocked", "creating", "updating"} => \A o \in OldFiles : del[o] = Idle
    /\ page.st \in {"open", "blocked", "creating", "updating", "deleting"} =>
          \A f \in New : up[f] = Idle
    /\ page.st = "uploading" => \A o \in page.removed : del[o].st = "ok"
    /\ page.st = "uploading" => \A f \in New : up[f].st # "none" => f \in page.files
    /\ auction.st = "deleted" => page.st = "failed"

\* No upload starts before every deletion has ended well, and what the page
\* heard as a success was one.
Requests ==
    /\ \A o \in OldFiles : del[o].st # "none" => o \in page.removed
    /\ \A o \in OldFiles : del[o].heard = "ok" => del[o].st = "ok"
    /\ \A f \in New : up[f].heard = "ok" => up[f].st = "ok"
    /\ \A f \in New : up[f].st # "none" => \A o \in OldFiles : del[o].st \in {"none", "ok"}

\* Where an upload or a deletion is tells whether there is a file and a row.
UploadFiles ==
    \A f \in New :
        /\ f \in Ids => up[f].st = "ok"
        /\ up[f].st = "ok" => f \in Ids \/ auction.st = "deleted"
        /\ up[f].st \in {"written", "checked", "counted"} => f \in disk
        /\ f \in disk => \/ up[f].st \in {"written", "checked", "counted", "ok"}
                         \/ up[f].st = "failed" /\ "crash" \in faults

DeleteFiles ==
    \A o \in OldFiles :
        /\ del[o].st \in {"promote", "unlink", "ok"} => o \notin Ids
        /\ o \in disk \ Ids => \/ del[o].st \in {"promote", "unlink"}
                               \/ "crash" \in faults \/ auction.st = "deleted"

Stored == RowHasFile /\ NoOrphans /\ UploadFiles /\ DeleteFiles /\ page.existing \subseteq Ids

\* One deletion at a time has taken the primary image and owes a promotion.
Promotions ==
    /\ \A r, q \in rows : r.primary /\ q.primary => r = q
    /\ \A o \in OldFiles : del[o].st = "was primary" => \E r \in rows : r.id = o /\ r.primary
    /\ \A o \in OldFiles : del[o].st = "promote" =>
          /\ \A r \in rows : ~r.primary
          /\ \A p \in OldFiles : del[p].st = "promote" => p = o

Sound == Cardinality(page.removed) <= 1 /\ faults \cap {"promote", "crash"} = {}

Leads ==
    /\ \A f \in New : up[f].st = "counted" /\ up[f].n # 0 => rows # {} \/ auction.st = "deleted"
    /\ Sound => \A o \in OldFiles : del[o].st = "was other" =>
                   \A r \in rows : r.id = o => ~r.primary
    /\ Sound /\ rows # {} =>
          (\E r \in rows : r.primary) \/ (\E o \in OldFiles : del[o].st = "promote")

\* What the form let through, and the one upload that nothing can refuse.
Alone ==
    Creates /\ Cardinality(page.files) = 1 /\ faults = {} /\ auction.st = "PENDING"

Checked ==
    /\ page.st \in {"creating", "updating"} =>
          /\ page.values.title # "short" /\ page.values.details /\ page.values.prices
          /\ page.values.end - page.values.start >= MinDuration
    /\ Creates => Ids \subseteq New
    /\ page.st = "uploading" /\ Alone => \A f \in New : up[f].st # "failed" /\ up[f].heard # "error"
    /\ page.st = "rollback" => ~Alone

IInv == /\ TypeOK /\ Phases /\ Requests /\ Stored /\ Promotions /\ Leads /\ Checked
        /\ FailedCreateLeavesNothing

-----------------------------------------------------------------------------
(* The start, and what the runs check.                                      *)

\* The images of an auction are finitely many, each with a name of its own.
LEMMA OldFacts ==
    /\ Len(Old) \in Nat /\ DOMAIN Old = 1 .. Len(Old) /\ IsFiniteSet(OldFiles)
    /\ OldFiles \cap New = {}
<1>1. Len(Old) \in Nat /\ DOMAIN Old = 1 .. Len(Old) /\ OldFiles \cap New = {}
  BY ImagesAssumption DEF OldFiles
<1>2. IsFiniteSet(1 .. Len(Old))
  BY <1>1, FS_Interval
<1>3. Old \in Surjection(1 .. Len(Old), OldFiles)
  BY <1>1, ImagesAssumption DEF OldFiles, Surjection
<1> QED  BY <1>1, <1>2, <1>3, FS_Surjection

\* The pages as they open.
LEMMA InitIInv == Init => IInv
<1> SUFFICES ASSUME Init PROVE IInv
  OBVIOUS
<1>1. PICK n \in 0 .. Len(Old) :
         /\ rows = {[id |-> Old[i], sort |-> i, primary |-> i = 1] : i \in 1 .. n}
         /\ auction = IF n = 0 THEN [st |-> "none", start |-> 0] ELSE [st |-> "PENDING", start |-> 1]
         /\ page = IF n = 0 THEN NewAuctionPage ELSE EditAuctionPage
  BY DEF Init
<1>2. n \in Nat /\ 1 .. n \subseteq DOMAIN Old /\ \A i \in 1 .. n : Old[i] \in OldFiles
  BY <1>1, OldFacts DEF OldFiles
<1>3. /\ \A f \in New : up[f] = Idle
      /\ \A o \in OldFiles : del[o] = Idle
      /\ disk = Ids /\ faults = {} /\ now = 0
      /\ up = [f \in New |-> Idle] /\ del = [o \in OldFiles |-> Idle]
  BY DEF Init
<1>4. Idle.st = "none" /\ Idle.heard = "no" /\ Idle.n = 0
  BY DEF Idle
<1>5. /\ page.st = "open" /\ page.files = {} /\ page.existing = {} /\ page.removed = {}
      /\ page.kind = (IF n = 0 THEN "create" ELSE "edit") /\ page.loading = (n # 0)
      /\ page \in Pages
  <2>1. /\ NewAuctionPage \in Pages /\ NewAuctionPage.kind = "create" /\ NewAuctionPage.st = "open"
        /\ NewAuctionPage.files = {} /\ NewAuctionPage.existing = {}
        /\ NewAuctionPage.removed = {} /\ NewAuctionPage.loading = FALSE
    BY ImagesAssumption DEF NewAuctionPage, Pages, NoValues, Values, Titles, Submitting
  <2>2. /\ EditAuctionPage \in Pages /\ EditAuctionPage.kind = "edit" /\ EditAuctionPage.st = "open"
        /\ EditAuctionPage.files = {} /\ EditAuctionPage.existing = {}
        /\ EditAuctionPage.removed = {} /\ EditAuctionPage.loading = TRUE
    BY <2>1 DEF EditAuctionPage, Pages
  <2> QED  BY <1>1, <1>2, <2>1, <2>2
<1>6. /\ auction \in [st : {"none", "PENDING", "ACTIVE", "deleted"}, start : Nat]
      /\ auction.st = (IF n = 0 THEN "none" ELSE "PENDING")
  BY <1>1
<1>7. /\ rows \subseteq Rows /\ IsFiniteSet(rows) /\ (n = 0 => rows = {}) /\ Ids \subseteq OldFiles
      /\ \A r, q \in rows : r.primary /\ q.primary => r = q
      /\ rows # {} => \E r \in rows : r.primary
  <2>1. IsFiniteSet(1 .. n)
    BY <1>2, FS_Interval
  <2> DEFINE img(i) == [id |-> Old[i], sort |-> i, primary |-> i = 1]
  <2>9. rows = {img(i) : i \in 1 .. n}
    BY <1>1
  <2>10. ASSUME NEW i \in 1 .. n
         PROVE  img(i) \in Rows /\ img(i).id = Old[i] /\ (img(i).primary <=> i = 1)
    <3>1. PICK b \in BOOLEAN : b = (i = 1)
      OBVIOUS
    <3>2. Old[i] \in New \cup OldFiles /\ i \in Nat
      BY <1>2
    <3>3. [id |-> Old[i], sort |-> i, primary |-> b] \in Rows
      BY <3>2 DEF Rows
    <3>4. img(i) \in Rows
      BY <3>1, <3>3
    <3>5. img(i).id = Old[i] /\ (img(i).primary <=> i = 1)
      OBVIOUS
    <3> QED  BY <3>4, <3>5
  <2> HIDE DEF img
  <2>2. [i \in 1 .. n |-> img(i)] \in Surjection(1 .. n, rows)
    BY <2>9 DEF Surjection
  <2>3. IsFiniteSet(rows)
    BY <2>1, <2>2, FS_Surjection
  <2>4. rows \subseteq Rows
    BY <2>9, <2>10
  <2>5. n = 0 => rows = {}
    BY <1>1
  <2>6. Ids \subseteq OldFiles
    BY <1>2, <2>9, <2>10 DEF Ids
  <2>7. \A r, q \in rows : r.primary /\ q.primary => r = q
    BY <2>9, <2>10
  <2>8. rows # {} => \E r \in rows : r.primary
    BY <1>2, <2>9, <2>10
  <2> QED  BY <2>3, <2>4, <2>5, <2>6, <2>7, <2>8
<1>8. TypeOK
  <2>1. Idle \in Calls({"written", "checked", "counted"})
        /\ Idle \in Calls({"was primary", "was other", "promote", "unlink"})
    BY ImagesAssumption DEF Idle, Calls
  <2>2. /\ up \in [New -> Calls({"written", "checked", "counted"})]
        /\ del \in [OldFiles -> Calls({"was primary", "was other", "promote", "unlink"})]
    BY <1>3, <2>1
  <2>3. now \in 0 .. MaxTime /\ disk \subseteq New \cup OldFiles
    BY <1>3, <1>7, ImagesAssumption
  <2> QED  BY <1>3, <1>5, <1>6, <1>7, <2>2, <2>3 DEF TypeOK
<1>9. Phases /\ Requests
  BY <1>3, <1>4, <1>5, <1>6 DEF Phases, Requests, Creates, Edits
<1>10. Stored
  <2>1. NoOrphans
    BY <1>6, <1>7 DEF NoOrphans
  <2> QED  BY <1>3, <1>4, <1>5, <1>7, <2>1, OldFacts DEF Stored, RowHasFile, UploadFiles, DeleteFiles
<1>11. Promotions /\ Leads
  BY <1>3, <1>4, <1>7 DEF Promotions, Leads
<1>12. Checked /\ FailedCreateLeavesNothing
  <2>1. Creates => rows = {}
    BY <1>5, <1>7 DEF Creates
  <2> QED  BY <1>5, <2>1 DEF Checked, FailedCreateLeavesNothing, Ids
<1> QED  BY <1>8, <1>9, <1>10, <1>11, <1>12 DEF IInv

\* The inductive invariant says what ImagesInv says.
LEMMA IInvIsImagesInv == IInv => ImagesInv
<1> SUFFICES ASSUME IInv PROVE ImagesInv
  OBVIOUS
<1> USE DEF IInv
<1>1. NoStrayFiles
  <2> SUFFICES ASSUME Quiet, auction.st \in {"PENDING", "ACTIVE"}, "crash" \notin faults
               PROVE  disk \subseteq Ids
    BY DEF NoStrayFiles, Stored, RowHasFile
  <2>1. /\ \A f \in New : up[f].st \in {"none", "ok", "failed"}
        /\ \A o \in OldFiles : del[o].st \in {"none", "ok", "failed"}
    BY DEF Quiet
  <2>2. \A f \in New : f \in disk => f \in Ids
    BY <2>1 DEF Stored, UploadFiles
  <2>3. \A o \in OldFiles : o \in disk => o \in Ids
    BY <2>1 DEF Stored, DeleteFiles
  <2> QED  BY <2>2, <2>3 DEF TypeOK
<1>2. AnImageIsPrimary
  <2>1. Quiet => \A o \in OldFiles : del[o].st # "promote"
    BY DEF Quiet
  <2> QED  BY <2>1 DEF AnImageIsPrimary, Promotions, Leads, Sound
<1> QED  BY <1>1, <1>2 DEF ImagesInv, Stored

\* And what FormAgrees says.
LEMMA IInvIsFormAgrees == IInv => FormAgrees
<1> SUFFICES ASSUME IInv PROVE FormAgrees
  OBVIOUS
<1>1. ASSUME page.st \in {"creating", "updating"}, page.values.title = "plain", now < page.values.start
      PROVE  ServerAccepts(page.values)
  <2>1. page.values.start \in Nat /\ now \in Nat
    <3>1. page.values \in Values /\ now \in 0 .. MaxTime
      BY DEF IInv, TypeOK, Pages
    <3> QED  BY <3>1, ImagesAssumption DEF Values
  <2> QED  BY <1>1, <2>1 DEF IInv, Checked, ServerAccepts
<1>2. page.st = "rollback" /\ Cardinality(page.files) = 1 => faults # {} \/ auction.st # "PENDING"
  BY DEF IInv, Checked, Alone, Phases
<1> QED  BY <1>1, <1>2 DEF FormAgrees

-----------------------------------------------------------------------------
(* Files, rows and the primary image: the steps that store nothing.         *)

\* Where a request may go in such a step: it is sent, or the server crashes.
Moves(call, next, crashed) ==
    \/ next.st = call.st /\ next.n = call.n
    \/ call.st = "none" /\ next.st = "sent"
    \/ call.st \notin {"none", "ok", "failed"} /\ next.st = "failed" /\ crashed

\* Pages, answers and the rest of the world leave rows and files alone.
LEMMA NothingStored ==
    ASSUME IInv, UNCHANGED rows, UNCHANGED disk,
           page'.existing = page.existing, page'.removed = page.removed,
           auction'.st = "deleted" <=> auction.st = "deleted",
           auction.st \in {"PENDING", "ACTIVE"} => auction'.st \in {"PENDING", "ACTIVE"},
           faults \subseteq faults',
           \A f \in New : Moves(up[f], up'[f], "crash" \in faults'),
           \A o \in OldFiles : Moves(del[o], del'[o], "crash" \in faults')
    PROVE  Stored' /\ Promotions' /\ Leads'
<1> USE DEF IInv, Moves
<1>1. Ids' = Ids
  BY DEF Ids
<1>2. RowHasFile' /\ NoOrphans' /\ page'.existing \subseteq Ids'
  BY <1>1 DEF Stored, RowHasFile, NoOrphans
<1>3. UploadFiles'
  BY <1>1 DEF Stored, UploadFiles
<1>4. DeleteFiles'
  BY <1>1 DEF Stored, DeleteFiles
<1>5. Promotions'
  BY DEF Promotions
<1>6. Leads'
  <2>1. Sound' => Sound /\ "crash" \notin faults'
    BY DEF Sound
  <2> QED  BY <2>1 DEF Leads
<1> QED  BY <1>2, <1>3, <1>4, <1>5, <1>6 DEF Stored

-----------------------------------------------------------------------------
(* The form.                                                                *)

\* The form is filled in, changed or submitted.
LEMMA FormStep ==
    ASSUME IInv, page.st = "open", UNCHANGED server, UNCHANGED now, UNCHANGED faults,
           page' \in Pages, page'.kind = page.kind,
           page'.st \in {"open", "blocked", "creating", "updating"},
           Creates => ~page'.loading /\ page'.existing = {} /\ page'.removed = {},
           page'.loading => page'.st = "open" /\ page'.removed = {},
           page'.existing \cap page'.removed = {}, page'.existing \subseteq Ids,
           page.removed \subseteq page'.removed,
           page'.st = "creating" => Creates, page'.st = "updating" => Edits,
           page'.st \in {"creating", "updating"} =>
              /\ page'.values.title # "short" /\ page'.values.details /\ page'.values.prices
              /\ page'.values.end - page'.values.start >= MinDuration
    PROVE  IInv'
<1> USE DEF IInv
<1>1. /\ UNCHANGED auction /\ UNCHANGED rows /\ UNCHANGED disk /\ UNCHANGED up /\ UNCHANGED del
      /\ Ids' = Ids /\ (Creates' <=> Creates) /\ (Edits' <=> Edits)
  BY DEF server, Ids, Creates, Edits
<1>2. /\ \A o \in OldFiles : del[o] = Idle
      /\ \A f \in New : up[f] = Idle
      /\ auction.st # "deleted" /\ (Creates => auction.st = "none")
  BY DEF Phases
<1>3. Idle.st = "none" /\ Idle.heard = "no"
  BY DEF Idle
<1>4. TypeOK'
  BY <1>1 DEF TypeOK
<1>5. Phases'
  BY <1>1, <1>2 DEF Phases
<1>6. Requests'
  BY <1>1, <1>2, <1>3 DEF Requests
<1>7. Stored'
  <2>1. RowHasFile' /\ NoOrphans'
    BY <1>1 DEF Stored, RowHasFile, NoOrphans
  <2> QED  BY <1>1, <1>2, <1>3, <2>1 DEF Stored, UploadFiles, DeleteFiles
<1>8. Promotions'
  BY <1>1, <1>2, <1>3 DEF Promotions
<1>9. Leads'
  <2>1. Cardinality(page'.removed) <= 1 => Cardinality(page.removed) <= 1
    <3>1. page'.removed \subseteq OldFiles
      BY DEF Pages
    <3>2. IsFiniteSet(page'.removed) /\ page.removed \in SUBSET page'.removed
      BY <3>1, OldFacts, FS_Subset
    <3>3. /\ Cardinality(page.removed) <= Cardinality(page'.removed) /\ IsFiniteSet(page.removed)
      BY <3>2, FS_Subset
    <3>4. Cardinality(page.removed) \in Nat /\ Cardinality(page'.removed) \in Nat
      BY <3>2, <3>3, FS_CardinalityType
    <3> QED  BY <3>3, <3>4
  <2>2. Sound' => Sound
    BY <2>1 DEF Sound
  <2> QED  BY <1>1, <1>2, <1>3, <2>2 DEF Leads
<1>10. Checked'
  BY <1>1, <1>2 DEF Checked
<1>11. FailedCreateLeavesNothing'
  BY DEF FailedCreateLeavesNothing
<1> QED  BY <1>4, <1>5, <1>6, <1>7, <1>8, <1>9, <1>10, <1>11

\* The lists of categories arrive, whatever the page does.
LEMMA CategoriesStep ==
    ASSUME IInv, CategoriesLoad \/ EditCategoriesLoad
    PROVE  IInv'
<1> USE DEF IInv
<1>1. PICK cats \in {"ok", "none"} : page' = [page EXCEPT !.cats = cats]
  BY DEF CategoriesLoad, EditCategoriesLoad, SetCategories
<1>2. /\ page \in Pages /\ page' \in Pages /\ page'.kind = page.kind /\ page'.st = page.st
      /\ page'.loading = page.loading /\ page'.values = page.values /\ page'.files = page.files
      /\ page'.existing = page.existing /\ page'.removed = page.removed
  BY <1>1 DEF TypeOK, Pages
<1>3. /\ UNCHANGED auction /\ UNCHANGED rows /\ UNCHANGED disk /\ UNCHANGED up /\ UNCHANGED del
      /\ UNCHANGED now /\ UNCHANGED faults
      /\ Ids' = Ids /\ (Creates' <=> Creates) /\ (Edits' <=> Edits)
  BY <1>2 DEF CategoriesLoad, EditCategoriesLoad, Env, server, Ids, Creates, Edits
<1>4. TypeOK'
  BY <1>2, <1>3 DEF TypeOK
<1>5. Phases'
  BY <1>2, <1>3 DEF Phases
<1>6. Requests'
  BY <1>2, <1>3 DEF Requests
<1>7. Stored' /\ Promotions' /\ Leads'
  BY <1>2, <1>3, NothingStored DEF Moves
<1>8. Checked' /\ FailedCreateLeavesNothing'
  BY <1>2, <1>3 DEF Checked, FailedCreateLeavesNothing, Alone
<1> QED  BY <1>4, <1>5, <1>6, <1>7, <1>8

\* The auction to edit arrives with its images.
LEMMA AuctionLoadsStep == ASSUME IInv, AuctionLoads PROVE IInv'
<1>1. /\ page.loading /\ page.st = "open" /\ page.removed = {} /\ ~Creates /\ page \in Pages
      /\ page.existing \subseteq Ids
  BY DEF AuctionLoads, IInv, Phases, TypeOK, Stored
<1>2. Ids \subseteq OldFiles
  <2>1. \A f \in New : up[f].st = "none"
    BY <1>1 DEF IInv, Phases, Idle
  <2>2. \A f \in New : f \notin Ids
    BY <2>1 DEF IInv, Stored, UploadFiles
  <2>3. Ids \subseteq New \cup OldFiles
    BY DEF IInv, TypeOK, Rows, Ids
  <2> QED  BY <2>2, <2>3
<1>3. /\ page' \in Pages /\ page'.kind = page.kind /\ page'.st \in {"open", "blocked"}
      /\ ~page'.loading /\ page'.removed = {} /\ page'.existing \subseteq Ids
  <2>1. CASE page' = [page EXCEPT !.loading = FALSE, !.existing = Ids]
    BY <1>1, <1>2, <2>1 DEF Pages
  <2>2. CASE page' = [page EXCEPT !.loading = FALSE, !.st = "blocked"]
    BY <1>1, <2>2 DEF Pages
  <2>3. CASE page' = [page EXCEPT !.loading = FALSE]
    BY <1>1, <2>3 DEF Pages
  <2> QED  BY <2>1, <2>2, <2>3 DEF AuctionLoads
<1>4. UNCHANGED server /\ UNCHANGED now /\ UNCHANGED faults
  BY DEF AuctionLoads, Env
<1> QED  BY <1>1, <1>3, <1>4, FormStep

\* Files are picked.
LEMMA ChooseStep ==
    ASSUME IInv, NEW fs \in SUBSET New, ChooseFiles(fs) \/ AddFiles(fs)
    PROVE  IInv'
<1>1. FormOpen /\ page' = [page EXCEPT !.files = fs]
      /\ UNCHANGED server /\ UNCHANGED now /\ UNCHANGED faults
  BY DEF ChooseFiles, AddFiles, Choose, Env
<1>2. /\ page \in Pages /\ page.st = "open"
  BY <1>1 DEF IInv, TypeOK, FormOpen
<1>3. /\ page' \in Pages /\ page'.kind = page.kind /\ page'.st = page.st
      /\ page'.loading = page.loading
      /\ page'.existing = page.existing /\ page'.removed = page.removed
  BY <1>1, <1>2 DEF Pages
<1>4. /\ Creates => ~page.loading /\ page.existing = {} /\ page.removed = {}
      /\ page.loading => page.removed = {}
      /\ page.existing \cap page.removed = {} /\ page.existing \subseteq Ids
  BY DEF IInv, Phases, Stored
<1> QED  BY <1>1, <1>2, <1>3, <1>4, FormStep

\* An image the auction has is marked for removal.
LEMMA RemoveStep ==
    ASSUME IInv, NEW o \in OldFiles, RemoveExisting(o)
    PROVE  IInv'
<1>1. /\ Edits /\ FormOpen /\ o \in page.existing
      /\ page' = [page EXCEPT !.existing = @ \ {o}, !.removed = @ \cup {o}]
      /\ UNCHANGED server /\ UNCHANGED now /\ UNCHANGED faults
  BY DEF RemoveExisting, ShownImages, Env
<1>2. /\ page \in Pages /\ page.st = "open" /\ ~Creates /\ ~page.loading
  BY <1>1 DEF IInv, TypeOK, FormOpen, Creates, Edits, EditView
<1>3. /\ page' \in Pages /\ page'.kind = page.kind /\ page'.st = page.st
      /\ page'.loading = page.loading
      /\ page'.existing = page.existing \ {o} /\ page'.removed = page.removed \cup {o}
  BY <1>1, <1>2 DEF Pages
<1>4. page.existing \cap page.removed = {} /\ page.existing \subseteq Ids
  BY DEF IInv, Phases, Stored
<1>5. /\ page'.existing \cap page'.removed = {} /\ page'.existing \subseteq Ids
      /\ page.removed \subseteq page'.removed
  BY <1>3, <1>4
<1> QED  BY <1>1, <1>2, <1>3, <1>5, FormStep

\* The form is submitted.
LEMMA SubmitStep ==
    ASSUME IInv, NEW v \in Values, CreateSubmit(v) \/ EditSubmit(v)
    PROVE  IInv'
<1>1. PICK st \in {"creating", "updating"} :
         /\ FormOpen /\ page' = [page EXCEPT !.st = st, !.values = v]
         /\ UNCHANGED server /\ UNCHANGED now /\ UNCHANGED faults
         /\ st = "creating" => Creates
         /\ st = "updating" => Edits
  BY DEF CreateSubmit, EditSubmit, CreateButton, Submit, Env
<1>2. /\ v.title # "short" /\ v.details /\ v.prices /\ v.end - v.start >= MinDuration
  BY DEF CreateSubmit, EditSubmit, CreateTitle, CreateDetails, CreateTimes, CreatePrices,
         EditTitle, EditDetails, EditTimes, EditPrices
<1>3. /\ page \in Pages /\ page.st = "open"
  BY <1>1 DEF IInv, TypeOK, FormOpen
<1>4. /\ Creates => ~page.loading /\ page.existing = {} /\ page.removed = {}
      /\ page.existing \cap page.removed = {} /\ page.existing \subseteq Ids
  BY DEF IInv, Phases, Stored
<1>5. ~page.loading
  BY <1>1, <1>3, <1>4 DEF FormOpen, EditView, Edits, Creates, Pages
<1>6. /\ page' \in Pages /\ page'.kind = page.kind /\ page'.st = st /\ page'.values = v
      /\ page'.loading = page.loading
      /\ page'.existing = page.existing /\ page'.removed = page.removed
  BY <1>1, <1>3 DEF Pages, Submitting
<1> QED  BY <1>1, <1>2, <1>3, <1>4, <1>5, <1>6, FormStep

-----------------------------------------------------------------------------
(* The answers of the server and the phases of the page.                    *)

\* The values of an empty form, and a request before and after it is sent.
LEMMA StartValues ==
    /\ NoValues \in Values
    /\ Idle.st = "none" /\ Idle.heard = "no" /\ Asked.st = "sent" /\ Asked.heard = "no"
    /\ Idle \in Calls({"written", "checked", "counted"})
    /\ Idle \in Calls({"was primary", "was other", "promote", "unlink"})
    /\ Asked \in Calls({"written", "checked", "counted"})
    /\ Asked \in Calls({"was primary", "was other", "promote", "unlink"})
<1>1. NoValues \in Values
  BY ImagesAssumption DEF NoValues, Values, Titles
<1>2. /\ Idle.st = "none" /\ Idle.heard = "no" /\ Asked.st = "sent" /\ Asked.heard = "no"
      /\ Asked = [st |-> "sent", n |-> 0, heard |-> "no"]
  BY DEF Idle, Asked
<1>3. 0 \in 0 .. Limit
  BY ImagesAssumption
<1>4. /\ Idle \in Calls({"written", "checked", "counted"})
      /\ Idle \in Calls({"was primary", "was other", "promote", "unlink"})
  BY <1>3 DEF Idle, Calls
<1>5. /\ Asked \in Calls({"written", "checked", "counted"})
      /\ Asked \in Calls({"was primary", "was other", "promote", "unlink"})
  BY <1>2, <1>3 DEF Calls
<1> QED  BY <1>1, <1>2, <1>4, <1>5

\* Create or update is refused, or its answer lost.
LEMMA RefusedStep ==
    ASSUME IInv, page.st \in {"creating", "updating"}, Refused,
           UNCHANGED rows, UNCHANGED disk, UNCHANGED up, UNCHANGED del, UNCHANGED now,
           auction' \in [st : {"none", "PENDING", "ACTIVE", "deleted"}, start : Nat],
           auction'.st # "deleted",
           auction.st \in {"PENDING", "ACTIVE"} => auction'.st \in {"PENDING", "ACTIVE"},
           faults \subseteq faults',
           faults' \subseteq {"create", "update", "promote", "delete", "upload", "answer",
                              "rollback", "crash"},
           Creates /\ "create" \notin faults' => auction'.st = "none"
    PROVE  IInv'
<1> USE DEF IInv
<1>1. NoValues \in Values
  BY StartValues
<1>2. /\ page \in Pages /\ page' \in Pages /\ page'.kind = page.kind /\ page'.st = "failed"
      /\ page'.loading = page.loading /\ page'.files = page.files
      /\ page'.existing = page.existing /\ page'.removed = page.removed
  BY <1>1 DEF TypeOK, Refused, Pages
<1>3. /\ ~page.loading /\ auction.st # "deleted"
      /\ Ids' = Ids /\ (Creates' <=> Creates) /\ (Edits' <=> Edits)
  BY <1>2 DEF Phases, Ids, Creates, Edits
<1>4. TypeOK'
  BY <1>2 DEF TypeOK
<1>5. Phases'
  BY <1>2, <1>3 DEF Phases
<1>6. Requests'
  BY <1>2 DEF Requests
<1>7. Stored' /\ Promotions' /\ Leads'
  BY <1>2, <1>3, NothingStored DEF Moves
<1>8. Checked' /\ FailedCreateLeavesNothing'
  BY <1>2, <1>3 DEF Checked, FailedCreateLeavesNothing
<1> QED  BY <1>4, <1>5, <1>6, <1>7, <1>8

\* The four ways in which that happens.
LEMMA RefusalsStep ==
    ASSUME IInv, CreateRefused \/ UpdateRefused \/ CreateLost \/ UpdateLost
    PROVE  IInv'
<1>1. /\ auction \in [st : {"none", "PENDING", "ACTIVE", "deleted"}, start : Nat]
      /\ page \in Pages
      /\ faults \subseteq {"create", "update", "promote", "delete", "upload", "answer",
                           "rollback", "crash"}
  BY DEF IInv, TypeOK
<1>2. page.values.start \in Nat
  <2>1. page.values \in Values
    BY <1>1 DEF Pages
  <2> QED  BY <2>1, ImagesAssumption DEF Values
<1>3. /\ page.st \in {"creating", "updating"} => auction.st # "deleted"
      /\ page.st = "creating" => Creates /\ auction.st = "none"
      /\ page.st = "updating" => Edits /\ ~Creates
  BY DEF IInv, Phases, Creates, Edits
<1>4. CASE CreateRefused
  BY <1>1, <1>3, <1>4, RefusedStep DEF CreateRefused, Env, server
<1>5. CASE UpdateRefused
  BY <1>1, <1>3, <1>5, RefusedStep DEF UpdateRefused, Env, server
<1>6. CASE CreateLost
  <2>1. auction' \in [st : {"none", "PENDING", "ACTIVE", "deleted"}, start : Nat]
        /\ auction'.st \in {auction.st, "PENDING"}
    BY <1>1, <1>2, <1>6 DEF CreateLost
  <2> QED  BY <1>1, <1>3, <1>6, <2>1, RefusedStep DEF CreateLost
<1>7. CASE UpdateLost
  <2>1. auction' \in [st : {"none", "PENDING", "ACTIVE", "deleted"}, start : Nat]
        /\ auction'.st = auction.st
    BY <1>1, <1>2, <1>7 DEF UpdateLost
  <2> QED  BY <1>1, <1>3, <1>7, <2>1, RefusedStep DEF UpdateLost
<1> QED  BY <1>4, <1>5, <1>6, <1>7

\* The auction is created and the uploads go out.
LEMMA CreateAnswersStep == ASSUME IInv, CreateAnswers PROVE IInv'
<1> USE DEF IInv
<1>1. page \in Pages /\ page.st = "creating" /\ NoValues \in Values /\ page.values \in Values
  BY StartValues DEF CreateAnswers, TypeOK, Pages
<1>2. /\ page' \in Pages /\ page'.kind = page.kind /\ page'.st = "uploading"
      /\ page'.loading = page.loading /\ page'.files = page.files
      /\ page'.existing = page.existing /\ page'.removed = page.removed
  BY <1>1 DEF CreateAnswers, Pages, Submitting
<1>3. /\ auction' \in [st : {"none", "PENDING", "ACTIVE", "deleted"}, start : Nat]
      /\ auction'.st = "PENDING"
  BY <1>1, ImagesAssumption DEF CreateAnswers, Values
<1>4. /\ Creates /\ ~page.loading /\ auction.st = "none" /\ page.removed = {}
      /\ \A o \in OldFiles : del[o] = Idle
      /\ \A f \in New : up[f] = Idle
  BY <1>1 DEF Phases
<1>5. /\ UNCHANGED rows /\ UNCHANGED disk /\ UNCHANGED del /\ UNCHANGED now /\ UNCHANGED faults
      /\ Ids' = Ids /\ (Creates' <=> Creates) /\ (Edits' <=> Edits)
  BY <1>2 DEF CreateAnswers, Env, Ids, Creates, Edits
<1>6. /\ Idle.st = "none" /\ Idle.heard = "no" /\ Asked.st = "sent" /\ Asked.heard = "no"
      /\ Idle \in Calls({"written", "checked", "counted"})
      /\ Asked \in Calls({"written", "checked", "counted"})
  BY StartValues
<1>7. /\ up' \in [New -> Calls({"written", "checked", "counted"})]
      /\ \A f \in New : up'[f] = IF f \in page.files THEN Asked ELSE Idle
  BY <1>6 DEF CreateAnswers
<1>8. TypeOK'
  BY <1>2, <1>3, <1>5, <1>7 DEF TypeOK
<1>9. Phases'
  BY <1>2, <1>3, <1>4, <1>5, <1>6, <1>7 DEF Phases, Creates, Edits
<1>10. Requests'
  BY <1>2, <1>4, <1>5, <1>6, <1>7 DEF Requests
<1>11. Stored' /\ Promotions' /\ Leads'
  <2>1. \A f \in New : Moves(up[f], up'[f], "crash" \in faults')
    BY <1>4, <1>6, <1>7 DEF Moves
  <2>2. \A o \in OldFiles : Moves(del[o], del'[o], "crash" \in faults')
    BY <1>5 DEF Moves
  <2> QED  BY <1>2, <1>3, <1>4, <1>5, <2>1, <2>2, NothingStored
<1>12. Checked' /\ FailedCreateLeavesNothing'
  BY <1>2, <1>4, <1>5, <1>6, <1>7 DEF Checked, FailedCreateLeavesNothing
<1> QED  BY <1>8, <1>9, <1>10, <1>11, <1>12

\* The auction is updated and the deletions go out.
LEMMA UpdateAnswersStep == ASSUME IInv, UpdateAnswers PROVE IInv'
<1> USE DEF IInv
<1>1. page \in Pages /\ page.st = "updating" /\ NoValues \in Values /\ page.values \in Values
      /\ auction.st = "PENDING"
  BY StartValues DEF UpdateAnswers, Updatable, TypeOK, Pages
<1>2. /\ page' \in Pages /\ page'.kind = page.kind /\ page'.st = "deleting"
      /\ page'.loading = page.loading /\ page'.files = page.files
      /\ page'.existing = page.existing /\ page'.removed = page.removed
  BY <1>1 DEF UpdateAnswers, Pages, Submitting
<1>3. /\ auction' \in [st : {"none", "PENDING", "ACTIVE", "deleted"}, start : Nat]
      /\ auction'.st = "PENDING"
  <2>1. page.values.start \in Nat
    BY <1>1, ImagesAssumption DEF Values
  <2> QED  BY <1>1, <2>1 DEF UpdateAnswers, TypeOK
<1>4. /\ Edits /\ ~Creates /\ ~page.loading
      /\ \A o \in OldFiles : del[o] = Idle
      /\ \A f \in New : up[f] = Idle
  BY <1>1 DEF Phases, Creates, Edits
<1>5. /\ UNCHANGED rows /\ UNCHANGED disk /\ UNCHANGED up /\ UNCHANGED now /\ UNCHANGED faults
      /\ Ids' = Ids /\ (Creates' <=> Creates) /\ (Edits' <=> Edits)
  BY <1>2 DEF UpdateAnswers, Env, Ids, Creates, Edits
<1>6. /\ Idle.st = "none" /\ Idle.heard = "no" /\ Asked.st = "sent" /\ Asked.heard = "no"
      /\ Idle \in Calls({"was primary", "was other", "promote", "unlink"})
      /\ Asked \in Calls({"was primary", "was other", "promote", "unlink"})
  BY StartValues
<1>7. /\ del' \in [OldFiles -> Calls({"was primary", "was other", "promote", "unlink"})]
      /\ \A o \in OldFiles : del'[o] = IF o \in page.removed THEN Asked ELSE Idle
  BY <1>6 DEF UpdateAnswers
<1>8. TypeOK'
  BY <1>2, <1>3, <1>5, <1>7 DEF TypeOK
<1>9. Phases'
  BY <1>2, <1>3, <1>4, <1>5 DEF Phases
<1>10. Requests'
  BY <1>2, <1>4, <1>5, <1>6, <1>7 DEF Requests
<1>11. Stored' /\ Promotions' /\ Leads'
  <2>1. \A o \in OldFiles : Moves(del[o], del'[o], "crash" \in faults')
    BY <1>4, <1>6, <1>7 DEF Moves
  <2>2. \A f \in New : Moves(up[f], up'[f], "crash" \in faults')
    BY <1>5 DEF Moves
  <2> QED  BY <1>1, <1>2, <1>3, <1>5, <2>1, <2>2, NothingStored
<1>12. Checked' /\ FailedCreateLeavesNothing'
  BY <1>2, <1>4, <1>5 DEF Checked, FailedCreateLeavesNothing
<1> QED  BY <1>8, <1>9, <1>10, <1>11, <1>12

\* Every deletion has ended well: the uploads go out.
LEMMA DeletesDoneStep == ASSUME IInv, DeletesDone PROVE IInv'
<1> USE DEF IInv
<1>1. page \in Pages /\ page.st = "deleting"
  BY DEF DeletesDone, TypeOK
<1>2. /\ page' \in Pages /\ page'.kind = page.kind /\ page'.st = "uploading"
      /\ page'.loading = page.loading /\ page'.files = page.files
      /\ page'.existing = page.existing /\ page'.removed = page.removed
  BY <1>1 DEF DeletesDone, Goes, Pages, Submitting
<1>3. /\ Edits /\ ~Creates /\ ~page.loading /\ auction.st # "deleted"
      /\ \A f \in New : up[f] = Idle
  BY <1>1 DEF Phases, Creates, Edits
<1>4. \A o \in page.removed : o \in OldFiles /\ del[o].st = "ok"
  BY <1>1 DEF DeletesDone, AllHeard, Requests, Pages
<1>5. /\ UNCHANGED auction /\ UNCHANGED rows /\ UNCHANGED disk /\ UNCHANGED del
      /\ UNCHANGED now /\ UNCHANGED faults
      /\ Ids' = Ids /\ (Creates' <=> Creates) /\ (Edits' <=> Edits)
  BY <1>2 DEF DeletesDone, Env, Ids, Creates, Edits
<1>6. /\ Idle.st = "none" /\ Idle.heard = "no" /\ Asked.st = "sent" /\ Asked.heard = "no"
      /\ Idle \in Calls({"written", "checked", "counted"})
      /\ Asked \in Calls({"written", "checked", "counted"})
  BY StartValues
<1>7. /\ up' \in [New -> Calls({"written", "checked", "counted"})]
      /\ \A f \in New : up'[f] = IF f \in page.files THEN Asked ELSE Idle
  BY <1>6 DEF DeletesDone
<1>8. TypeOK'
  BY <1>2, <1>5, <1>7 DEF TypeOK
<1>9. Phases'
  BY <1>2, <1>3, <1>4, <1>5, <1>6, <1>7 DEF Phases
<1>10. Requests'
  BY <1>2, <1>4, <1>5, <1>6, <1>7 DEF Requests
<1>11. Stored' /\ Promotions' /\ Leads'
  <2>1. \A f \in New : Moves(up[f], up'[f], "crash" \in faults')
    BY <1>3, <1>6, <1>7 DEF Moves
  <2>2. \A o \in OldFiles : Moves(del[o], del'[o], "crash" \in faults')
    BY <1>5 DEF Moves
  <2> QED  BY <1>2, <1>5, <2>1, <2>2, NothingStored
<1>12. Checked' /\ FailedCreateLeavesNothing'
  BY <1>2, <1>3, <1>5 DEF Checked, FailedCreateLeavesNothing, Alone
<1> QED  BY <1>8, <1>9, <1>10, <1>11, <1>12

\* The page leaves a phase in which its requests ran.
LEMMA PhaseStep ==
    ASSUME IInv, page.st \in {"deleting", "uploading", "rollback", "undo"},
           UNCHANGED server, UNCHANGED now, faults \subseteq faults',
           faults' \subseteq {"create", "update", "promote", "delete", "upload", "answer",
                              "rollback", "crash"},
           page' \in Pages, page'.kind = page.kind, page'.loading = page.loading,
           page'.existing = page.existing, page'.removed = page.removed,
           page'.st \in {"success", "warned", "rollback", "undo", "failed"},
           page'.st \in {"rollback", "undo"} => Creates,
           page'.st = "rollback" => page'.files = page.files /\ ~Alone,
           page'.st = "failed" => "rollback" \in faults' \/ auction.st # "PENDING"
    PROVE  IInv'
<1> USE DEF IInv
<1>1. /\ UNCHANGED auction /\ UNCHANGED rows /\ UNCHANGED disk /\ UNCHANGED up /\ UNCHANGED del
      /\ Ids' = Ids /\ (Creates' <=> Creates) /\ (Edits' <=> Edits)
  BY DEF server, Ids, Creates, Edits
<1>2. ~page.loading /\ auction.st # "deleted"
  BY DEF Phases
<1>3. TypeOK'
  BY <1>1 DEF TypeOK
<1>4. Phases'
  BY <1>1, <1>2 DEF Phases
<1>5. Requests'
  BY <1>1 DEF Requests
<1>6. Stored' /\ Promotions' /\ Leads'
  BY <1>1, NothingStored DEF Moves
<1>7. Checked'
  BY <1>1 DEF Checked, Alone
<1>8. FailedCreateLeavesNothing'
  BY <1>1 DEF FailedCreateLeavesNothing, TypeOK
<1> QED  BY <1>3, <1>4, <1>5, <1>6, <1>7, <1>8

\* The steps of the page that change nothing else.
LEMMA PhasesStep ==
    ASSUME IInv, UploadsDone \/ EditDone \/ UploadsFail \/ EditFails \/ RollbackReads \/ RollbackErrs
    PROVE  IInv'
<1>1. /\ page \in Pages
      /\ faults \subseteq {"create", "update", "promote", "delete", "upload", "answer",
                           "rollback", "crash"}
  BY DEF IInv, TypeOK
<1>2. CASE UploadsDone
  <2>1. /\ page' \in Pages /\ page'.kind = page.kind /\ page'.loading = page.loading
        /\ page'.existing = page.existing /\ page'.removed = page.removed /\ page'.st = "success"
    BY <1>1, <1>2 DEF UploadsDone, Pages
  <2> QED  BY <1>1, <1>2, <2>1, PhaseStep DEF UploadsDone, Env
<1>3. ASSUME NEW st \in {"success", "warned", "rollback", "undo", "failed"}, Goes(st)
      PROVE  /\ page' \in Pages /\ page'.kind = page.kind /\ page'.loading = page.loading
             /\ page'.existing = page.existing /\ page'.removed = page.removed
             /\ page'.files = page.files /\ page'.st = st
  BY <1>1, <1>3 DEF Goes, Pages, Submitting
<1>4. CASE EditDone
  BY <1>1, <1>3, <1>4, PhaseStep DEF EditDone, Env
<1>5. CASE UploadsFail
  <2>1. ~Alone
    BY <1>1, <1>5 DEF UploadsFail, SomeError, IInv, Checked, Pages
  <2> QED  BY <1>1, <1>3, <1>5, <2>1, PhaseStep DEF UploadsFail, Env
<1>6. CASE EditFails
  BY <1>1, <1>3, <1>6, PhaseStep DEF EditFails, Env
<1>7. CASE RollbackReads
  <2>1. page.st = "rollback" /\ Creates
    BY <1>7 DEF RollbackReads, IInv, Phases
  <2>2. CASE auction.st = "PENDING"
    <3>1. Goes("undo")
      BY <1>7, <2>2 DEF RollbackReads
    <3> QED  BY <1>1, <1>3, <1>7, <2>1, <3>1, PhaseStep DEF RollbackReads, Env
  <2>3. CASE auction.st # "PENDING"
    <3>1. Goes("failed")
      BY <1>7, <2>3 DEF RollbackReads
    <3> QED  BY <1>1, <1>3, <1>7, <2>1, <2>3, <3>1, PhaseStep DEF RollbackReads, Env
  <2> QED  BY <2>2, <2>3
<1>8. CASE RollbackErrs
  BY <1>1, <1>3, <1>8, PhaseStep DEF RollbackErrs, server
<1> QED  BY <1>2, <1>4, <1>5, <1>6, <1>7, <1>8

\* The rollback removes the auction and its images.
LEMMA RollbackDeletesStep == ASSUME IInv, RollbackDeletes PROVE IInv'
<1> USE DEF IInv
<1>1. page \in Pages /\ page.st = "undo"
  BY DEF RollbackDeletes, TypeOK
<1>2. /\ page' \in Pages /\ page'.kind = page.kind /\ page'.st = "failed"
      /\ page'.loading = page.loading /\ page'.files = page.files
      /\ page'.existing = page.existing /\ page'.removed = page.removed
  BY <1>1 DEF RollbackDeletes, Goes, Pages
<1>3. /\ Creates /\ ~page.loading /\ page.existing = {} /\ page.removed = {} /\ auction.st # "deleted"
      /\ \A o \in OldFiles : del[o].st = "none"
  BY <1>1 DEF Phases, Requests
<1>4. /\ UNCHANGED disk /\ UNCHANGED up /\ UNCHANGED del /\ UNCHANGED now /\ UNCHANGED faults
      /\ (Creates' <=> Creates) /\ (Edits' <=> Edits)
  BY <1>2 DEF RollbackDeletes, Env, Creates, Edits
<1>5. CASE auction.st # "PENDING"
  <2>1. UNCHANGED auction /\ UNCHANGED rows
    BY <1>5 DEF RollbackDeletes
  <2> QED  BY <1>1, <1>2, <1>4, <1>5, <2>1, PhaseStep DEF server, TypeOK
<1>6. CASE auction.st = "PENDING"
  <2>1. /\ auction' \in [st : {"none", "PENDING", "ACTIVE", "deleted"}, start : Nat]
        /\ auction'.st = "deleted" /\ rows' = {} /\ Ids' = {}
    BY <1>6 DEF RollbackDeletes, TypeOK, Ids
  <2>2. TypeOK'
    BY <1>2, <1>4, <2>1, FS_EmptySet DEF TypeOK
  <2>3. Phases'
    BY <1>2, <1>3, <1>4 DEF Phases
  <2>4. Requests'
    BY <1>2, <1>4 DEF Requests
  <2>5. Stored'
    <3>1. RowHasFile' /\ NoOrphans'
      BY <2>1 DEF RowHasFile, NoOrphans
    <3>2. UploadFiles'
      <4>1. \A f \in New : /\ up[f].st \in {"written", "checked", "counted"} => f \in disk
                           /\ f \in disk => \/ up[f].st \in {"written", "checked", "counted", "ok"}
                                            \/ up[f].st = "failed" /\ "crash" \in faults
        BY DEF Stored, UploadFiles
      <4> QED  BY <1>4, <2>1, <4>1 DEF UploadFiles
    <3>3. DeleteFiles'
      BY <1>4, <2>1 DEF DeleteFiles
    <3> QED  BY <1>2, <1>3, <3>1, <3>2, <3>3 DEF Stored
  <2>6. Promotions' /\ Leads'
    BY <1>3, <1>4, <2>1 DEF Promotions, Leads
  <2>7. Checked' /\ FailedCreateLeavesNothing'
    BY <1>2, <1>3, <1>4, <2>1 DEF Checked, FailedCreateLeavesNothing
  <2> QED  BY <2>2, <2>3, <2>4, <2>5, <2>6, <2>7
<1> QED  BY <1>5, <1>6

\* The page hears an answer, or a connection breaks.
LEMMA HearStep ==
    ASSUME IInv, page.st \in {"deleting", "uploading"}, UNCHANGED page, UNCHANGED auction,
           UNCHANGED rows, UNCHANGED disk, UNCHANGED now, faults \subseteq faults',
           faults' \subseteq {"create", "update", "promote", "delete", "upload", "answer",
                              "rollback", "crash"},
           up' \in [New -> Calls({"written", "checked", "counted"})],
           del' \in [OldFiles -> Calls({"was primary", "was other", "promote", "unlink"})],
           page.st = "deleting" => UNCHANGED up,
           \A f \in New : up'[f].st = up[f].st /\ up'[f].n = up[f].n,
           \A o \in OldFiles : del'[o].st = del[o].st /\ del'[o].n = del[o].n,
           \A f \in New : up'[f].heard = "ok" => up[f].st = "ok",
           \A o \in OldFiles : del'[o].heard = "ok" => del[o].st = "ok",
           faults' = {} => \A f \in New : up'[f].heard = "error" =>
                              up[f].heard = "error" \/ up[f].st = "failed"
    PROVE  IInv'
<1> USE DEF IInv
<1>1. Ids' = Ids /\ (Creates' <=> Creates) /\ (Edits' <=> Edits)
  BY DEF Ids, Creates, Edits
<1>2. TypeOK'
  BY DEF TypeOK
<1>3. Phases'
  <2>1. page.removed \subseteq OldFiles
    BY DEF TypeOK, Pages
  <2>2. page.st = "uploading" =>
           /\ \A o \in page.removed : del'[o].st = "ok"
           /\ \A f \in New : up'[f].st # "none" => f \in page.files
    BY <2>1 DEF Phases
  <2>3. page.st = "deleting" => \A f \in New : up'[f] = Idle
    BY DEF Phases
  <2> QED  BY <1>1, <2>2, <2>3 DEF Phases
<1>4. Requests'
  <2>1. \A o \in OldFiles : del'[o].st # "none" => o \in page'.removed
    BY DEF Requests
  <2>2. \A f \in New : up'[f].st # "none" => \A o \in OldFiles : del'[o].st \in {"none", "ok"}
    BY DEF Requests
  <2> QED  BY <2>1, <2>2 DEF Requests
<1>5. Stored' /\ Promotions' /\ Leads'
  BY NothingStored DEF Moves
<1>6. Checked'
  <2>1. Alone' => Alone /\ faults' = {}
    BY <1>1 DEF Alone
  <2> QED  BY <1>1, <2>1 DEF Checked
<1>7. FailedCreateLeavesNothing'
  BY DEF FailedCreateLeavesNothing
<1> QED  BY <1>2, <1>3, <1>4, <1>5, <1>6, <1>7

\* What the page hears of one request.
LEMMA HeardUpload ==
    ASSUME TypeOK, NEW x \in New, NEW h \in {"ok", "error"}, up' = [up EXCEPT ![x].heard = h]
    PROVE  /\ up' \in [New -> Calls({"written", "checked", "counted"})]
           /\ \A y \in New : /\ up'[y].st = up[y].st /\ up'[y].n = up[y].n
                           /\ up'[y].heard = IF y = x THEN h ELSE up[y].heard
<1> USE DEF TypeOK
<1>1. up[x] \in Calls({"written", "checked", "counted"})
  OBVIOUS
<1>2. PICK e \in Calls({"written", "checked", "counted"}) : e = [up[x] EXCEPT !.heard = h]
  BY <1>1 DEF Calls
<1>3. e.st = up[x].st /\ e.n = up[x].n /\ e.heard = h
  BY <1>1, <1>2 DEF Calls
<1>4. up' = [up EXCEPT ![x] = e]
  BY <1>2
<1> QED  BY <1>3, <1>4

\* The same of a deletion.
LEMMA HeardDelete ==
    ASSUME TypeOK, NEW x \in OldFiles, NEW h \in {"ok", "error"}, del' = [del EXCEPT ![x].heard = h]
    PROVE  /\ del' \in [OldFiles -> Calls({"was primary", "was other", "promote", "unlink"})]
           /\ \A y \in OldFiles : /\ del'[y].st = del[y].st /\ del'[y].n = del[y].n
                                /\ del'[y].heard = IF y = x THEN h ELSE del[y].heard
<1> USE DEF TypeOK
<1>1. del[x] \in Calls({"was primary", "was other", "promote", "unlink"})
  OBVIOUS
<1>2. PICK e \in Calls({"was primary", "was other", "promote", "unlink"}) : e = [del[x] EXCEPT !.heard = h]
  BY <1>1 DEF Calls
<1>3. e.st = del[x].st /\ e.n = del[x].n /\ e.heard = h
  BY <1>1, <1>2 DEF Calls
<1>4. del' = [del EXCEPT ![x] = e]
  BY <1>2
<1> QED  BY <1>3, <1>4

\* An answer or a broken connection, of an upload or a deletion.
LEMMA HearsStep ==
    ASSUME IInv,
           (\E f \in New : HearUpload(f)) \/ (\E o \in OldFiles : HearDelete(o)) \/ Lose
    PROVE  IInv'
<1>1. /\ up \in [New -> Calls({"written", "checked", "counted"})]
      /\ del \in [OldFiles -> Calls({"was primary", "was other", "promote", "unlink"})]
      /\ page \in Pages
      /\ faults \subseteq {"create", "update", "promote", "delete", "upload", "answer",
                           "rollback", "crash"}
  BY DEF IInv, TypeOK
<1>2. /\ \A f \in New : up[f].heard = "ok" => up[f].st = "ok"
      /\ \A o \in OldFiles : del[o].heard = "ok" => del[o].st = "ok"
  BY DEF IInv, Requests
<1>3. CASE \E f \in New : HearUpload(f)
  <2>1. PICK f \in New : HearUpload(f)
    BY <1>3
  <2>2. PICK h \in Hear(up[f]) : up' = [up EXCEPT ![f].heard = h]
    BY <2>1 DEF HearUpload
  <2>3. h \in {"ok", "error"} /\ (h = "ok" => up[f].st = "ok") /\ (h = "error" => up[f].st = "failed")
    BY <2>2 DEF Hear
  <2>4. /\ up' \in [New -> Calls({"written", "checked", "counted"})]
        /\ \A g \in New : up'[g].st = up[g].st /\ up'[g].n = up[g].n
        /\ \A g \in New : up'[g].heard = IF g = f THEN h ELSE up[g].heard
    BY <2>2, <2>3, HeardUpload DEF IInv
  <2> QED  BY <1>1, <1>2, <2>1, <2>3, <2>4, HearStep DEF HearUpload, Env
<1>4. CASE \E o \in OldFiles : HearDelete(o)
  <2>1. PICK o \in OldFiles : HearDelete(o)
    BY <1>4
  <2>2. PICK h \in Hear(del[o]) : del' = [del EXCEPT ![o].heard = h]
    BY <2>1 DEF HearDelete
  <2>3. h \in {"ok", "error"} /\ (h = "ok" => del[o].st = "ok")
    BY <2>2 DEF Hear
  <2>4. /\ del' \in [OldFiles -> Calls({"was primary", "was other", "promote", "unlink"})]
        /\ \A p \in OldFiles : del'[p].st = del[p].st /\ del'[p].n = del[p].n
        /\ \A p \in OldFiles : del'[p].heard = IF p = o THEN h ELSE del[p].heard
    BY <2>2, <2>3, HeardDelete DEF IInv
  <2> QED  BY <1>1, <1>2, <2>1, <2>3, <2>4, HearStep DEF HearDelete, Env
<1>5. CASE Lose
  <2>1. /\ UNCHANGED page /\ UNCHANGED auction /\ UNCHANGED rows /\ UNCHANGED disk /\ UNCHANGED now
        /\ faults' = faults \cup {"answer"} /\ faults' # {}
    BY <1>5 DEF Lose
  <2>2. CASE /\ page.st = "uploading" /\ UNCHANGED del
             /\ \E f \in page.files : up[f].heard = "no" /\ up' = [up EXCEPT ![f].heard = "error"]
    <3>1. PICK f \in New : up' = [up EXCEPT ![f].heard = "error"]
      BY <1>1, <2>2 DEF Pages
    <3>2. /\ up' \in [New -> Calls({"written", "checked", "counted"})]
          /\ \A g \in New : up'[g].st = up[g].st /\ up'[g].n = up[g].n
          /\ \A g \in New : up'[g].heard = IF g = f THEN "error" ELSE up[g].heard
      BY <3>1, HeardUpload DEF IInv
    <3> QED  BY <1>1, <1>2, <2>1, <2>2, <3>2, HearStep
  <2>3. CASE /\ page.st = "deleting" /\ UNCHANGED up
             /\ \E o \in page.removed : del[o].heard = "no" /\ del' = [del EXCEPT ![o].heard = "error"]
    <3>1. PICK o \in OldFiles : del' = [del EXCEPT ![o].heard = "error"]
      BY <1>1, <2>3 DEF Pages
    <3>2. /\ del' \in [OldFiles -> Calls({"was primary", "was other", "promote", "unlink"})]
          /\ \A p \in OldFiles : del'[p].st = del[p].st /\ del'[p].n = del[p].n
          /\ \A p \in OldFiles : del'[p].heard = IF p = o THEN "error" ELSE del[p].heard
      BY <3>1, HeardDelete DEF IInv
    <3> QED  BY <1>1, <1>2, <2>1, <2>3, <3>2, HearStep
  <2> QED  BY <1>5, <2>2, <2>3 DEF Lose
<1> QED  BY <1>3, <1>4, <1>5

-----------------------------------------------------------------------------
(* The uploads.                                                             *)

\* One upload that has begun moves on.
LEMMA UploadMoved ==
    ASSUME IInv, NEW f \in New, UNCHANGED page, UNCHANGED auction, UNCHANGED del, UNCHANGED now,
           up' \in [New -> Calls({"written", "checked", "counted"})],
           up'[f].st # "none", up'[f].heard = up[f].heard,
           up[f].st \in {"sent", "written", "checked", "counted"},
           \A g \in New \ {f} : up'[g] = up[g],
           faults \subseteq faults',
           faults' \subseteq {"create", "update", "promote", "delete", "upload", "answer",
                              "rollback", "crash"},
           rows' \subseteq Rows, IsFiniteSet(rows'), rows \subseteq rows',
           disk' \subseteq New \cup OldFiles,
           \A o \in OldFiles : o \in disk' <=> o \in disk,
           \A g \in New \ {f} : g \in disk' <=> g \in disk,
           rows' # rows => auction.st \in {"PENDING", "ACTIVE"},
           Ids' = IF up'[f].st = "ok" THEN Ids \cup {f} ELSE Ids,
           f \in disk' <=> up'[f].st \in {"written", "checked", "counted", "ok"},
           up'[f].st = "failed" /\ page.st = "uploading" => ~(Alone /\ faults' = {}),
           \A r, q \in rows' : r.primary /\ q.primary => r = q,
           up'[f].st = "counted" /\ up'[f].n # 0 => rows # {},
           \/ rows' = rows
           \/ \E r \in rows' : r.primary
           \/ rows # {}
           \/ auction.st = "deleted"
    PROVE  IInv'
<1> USE DEF IInv
<1>1. (Creates' <=> Creates) /\ (Edits' <=> Edits)
  BY DEF Creates, Edits
<1>2. \A o \in OldFiles : del[o].st \in {"none", "ok"}
  BY DEF Requests
<1>3. f \notin Ids /\ f \notin OldFiles
  BY OldFacts DEF Stored, UploadFiles
<1>4. TypeOK'
  BY DEF TypeOK
<1>5. Phases'
  <2>1. up[f] # Idle
    BY DEF Idle
  <2> QED  BY <1>1, <2>1 DEF Phases
<1>6. Requests'
  BY <1>2 DEF Requests
<1>7. Stored'
  <2>1. RowHasFile'
    <3>1. \A x \in Ids : x \in disk'
      BY <1>3 DEF Stored, RowHasFile, TypeOK
    <3> QED  BY <3>1 DEF RowHasFile
  <2>2. NoOrphans'
    BY DEF Stored, NoOrphans
  <2>3. UploadFiles'
    BY <1>3 DEF Stored, UploadFiles
  <2>4. DeleteFiles'
    BY <1>3 DEF Stored, DeleteFiles
  <2> QED  BY <2>1, <2>2, <2>3, <2>4 DEF Stored
<1>8. Promotions'
  BY <1>2 DEF Promotions
<1>9. Leads'
  <2>1. Sound' => Sound
    BY DEF Sound
  <2> QED  BY <1>2, <2>1 DEF Leads
<1>10. Checked'
  <2>1. Alone' => Alone /\ faults' = {}
    BY <1>1 DEF Alone
  <2> QED  BY <1>1, <2>1 DEF Checked
<1>11. FailedCreateLeavesNothing'
  BY <1>1 DEF FailedCreateLeavesNothing
<1> QED  BY <1>4, <1>5, <1>6, <1>7, <1>8, <1>9, <1>10, <1>11

\* Where one upload goes.
LEMMA UploadMoves ==
    ASSUME TypeOK, NEW x \in New, NEW from,
           NEW to \in {"written", "checked", "counted"} \cup {"none", "sent", "ok", "failed"}, UploadGoes(x, from, to)
    PROVE  /\ up' \in [New -> Calls({"written", "checked", "counted"})]
           /\ up[x].st = from /\ up'[x].st = to
           /\ up'[x].n = up[x].n /\ up'[x].heard = up[x].heard
           /\ \A y \in New \ {x} : up'[y] = up[y]
<1> USE DEF TypeOK, UploadGoes
<1>1. up[x] \in Calls({"written", "checked", "counted"})
  OBVIOUS
<1>2. PICK e \in Calls({"written", "checked", "counted"}) : e = [up[x] EXCEPT !.st = to]
  BY <1>1 DEF Calls
<1>3. e.st = to /\ e.n = up[x].n /\ e.heard = up[x].heard
  BY <1>1, <1>2 DEF Calls
<1>4. up' = [up EXCEPT ![x] = e]
  BY <1>2
<1> QED  BY <1>3, <1>4

\* While a lone upload runs the auction has no image.
LEMMA AloneIsFirst ==
    ASSUME IInv, NEW f \in New, up[f].st \in {"written", "checked", "counted"},
           page.st = "uploading", Alone
    PROVE  rows = {}
<1>1. page.files \subseteq New /\ f \in page.files
  BY DEF IInv, TypeOK, Pages, Phases
<1>2. page.files = {f}
  <2>1. IsFiniteSet(page.files)
    BY <1>1, ImagesAssumption, FS_Subset
  <2>2. PICK x : page.files = {x}
    BY <2>1, FS_Singleton DEF Alone
  <2> QED  BY <1>1, <2>2
<1>3. ASSUME NEW g \in Ids PROVE FALSE
  <2>1. g \in New /\ up[g].st = "ok"
    BY <1>3 DEF IInv, Checked, Alone, Stored, UploadFiles
  <2>2. g \in page.files
    BY <2>1 DEF IInv, Phases
  <2> QED  BY <1>2, <2>1, <2>2
<1> QED  BY <1>3 DEF Ids

\* An upload fails and its file is taken away.
LEMMA DropStep ==
    ASSUME IInv, NEW f \in New, NEW from \in {"written", "checked", "counted"}, Drop(f, from),
           UNCHANGED page, UNCHANGED auction, UNCHANGED rows, UNCHANGED del, UNCHANGED now,
           faults \subseteq faults',
           faults' \subseteq {"create", "update", "promote", "delete", "upload", "answer",
                              "rollback", "crash"},
           page.st = "uploading" => ~(Alone /\ faults' = {})
    PROVE  IInv'
<1>1. UploadGoes(f, from, "failed") /\ disk' = disk \ {f}
  BY DEF Drop
<1>2. /\ up' \in [New -> Calls({"written", "checked", "counted"})]
      /\ up[f].st = from /\ up'[f].st = "failed"
      /\ up'[f].heard = up[f].heard
      /\ \A g \in New \ {f} : up'[g] = up[g]
  BY <1>1, UploadMoves DEF IInv
<1>3. /\ rows' \subseteq Rows /\ IsFiniteSet(rows') /\ disk' \subseteq New \cup OldFiles
      /\ Ids' = Ids
      /\ \A r, q \in rows' : r.primary /\ q.primary => r = q
  BY <1>1 DEF IInv, TypeOK, Promotions, Ids
<1>4. \A o \in OldFiles : o \in disk' <=> o \in disk
  BY <1>1, OldFacts
<1> QED  BY <1>1, <1>2, <1>3, <1>4, UploadMoved

\* The file is written.
LEMMA WriteStep == ASSUME IInv, NEW f \in New, Write(f) PROVE IInv'
<1>1. /\ UploadGoes(f, "sent", "written") /\ disk' = disk \cup {f}
      /\ UNCHANGED page /\ UNCHANGED auction /\ UNCHANGED rows /\ UNCHANGED del
      /\ UNCHANGED now /\ UNCHANGED faults
  BY DEF Write, Env
<1>2. /\ up' \in [New -> Calls({"written", "checked", "counted"})]
      /\ up[f].st = "sent" /\ up'[f].st = "written"
      /\ up'[f].heard = up[f].heard
      /\ \A g \in New \ {f} : up'[g] = up[g]
  BY <1>1, UploadMoves DEF IInv
<1>3. /\ rows' \subseteq Rows /\ IsFiniteSet(rows') /\ disk' \subseteq New \cup OldFiles
      /\ Ids' = Ids
      /\ \A r, q \in rows' : r.primary /\ q.primary => r = q
      /\ faults' \subseteq {"create", "update", "promote", "delete", "upload", "answer",
                            "rollback", "crash"}
  BY <1>1 DEF IInv, TypeOK, Promotions, Ids
<1>4. \A o \in OldFiles : o \in disk' <=> o \in disk
  BY <1>1, OldFacts
<1> QED  BY <1>1, <1>2, <1>3, <1>4, UploadMoved

\* The status is checked, and the images are counted: either may end the upload.
LEMMA CheckStep == ASSUME IInv, NEW f \in New, Check(f) \/ CountImages(f) PROVE IInv'
<1>1. /\ UNCHANGED page /\ UNCHANGED auction /\ UNCHANGED rows /\ UNCHANGED del
      /\ UNCHANGED now /\ UNCHANGED faults
      /\ faults \subseteq {"create", "update", "promote", "delete", "upload", "answer",
                           "rollback", "crash"}
  BY DEF Check, CountImages, Env, IInv, TypeOK
<1>2. /\ IsFiniteSet(rows) /\ Cardinality(rows) \in Nat /\ (Cardinality(rows) = 0 <=> rows = {})
  BY FS_EmptySet, FS_CardinalityType DEF IInv, TypeOK
<1>3. CASE \E from \in {"written", "checked"} : Drop(f, from)
  <2>1. PICK from \in {"written", "checked"} : Drop(f, from)
    BY <1>3
  <2>2. up[f].st = from
    BY <2>1 DEF Drop, UploadGoes
  <2>3. page.st = "uploading" => ~Alone
    <3> SUFFICES ASSUME page.st = "uploading", Alone PROVE FALSE
      OBVIOUS
    <3>1. rows = {} /\ auction.st = "PENDING"
      BY <2>2, AloneIsFirst DEF Alone
    <3>2. CASE Check(f)
      <4>1. UploadGoes(f, "written", "checked") /\ UploadGoes(f, from, "failed")
        BY <2>1, <3>1, <3>2 DEF Check, Drop
      <4>2. up'[f].st = "checked" /\ up'[f].st = "failed"
        BY <4>1, UploadMoves DEF IInv
      <4> QED  BY <4>2
    <3>3. CASE CountImages(f)
      <4>1. Cardinality(rows) < Limit
        BY <1>2, <3>1, ImagesAssumption
      <4>2. up'[f].st = "counted" /\ up'[f].st = "failed"
        <5>1. f \in DOMAIN up /\ up[f] \in Calls({"written", "checked", "counted"})
          BY DEF IInv, TypeOK
        <5>2. up' = [up EXCEPT ![f].st = "counted", ![f].n = Cardinality(rows)]
          BY <3>3, <4>1 DEF CountImages
        <5>3. up' = [up EXCEPT ![f].st = "failed"]
          BY <2>1 DEF Drop, UploadGoes
        <5>4. up'[f].st = "counted"
          BY <5>1, <5>2 DEF Calls
        <5>5. up'[f].st = "failed"
          BY <5>1, <5>3 DEF Calls
        <5> QED  BY <5>4, <5>5
      <4> QED  BY <4>2
    <3> QED  BY <3>2, <3>3
  <2> QED  BY <1>1, <2>1, <2>3, DropStep
<1>4. CASE /\ up' \in [New -> Calls({"written", "checked", "counted"})]
           /\ up[f].st \in {"written", "checked"} /\ up'[f].st \in {"checked", "counted"}
           /\ up'[f].st = "counted" => up'[f].n = Cardinality(rows)
           /\ up'[f].heard = up[f].heard
           /\ \A g \in New \ {f} : up'[g] = up[g]
           /\ UNCHANGED disk
  <2>1. /\ rows' \subseteq Rows /\ IsFiniteSet(rows') /\ disk' \subseteq New \cup OldFiles
        /\ Ids' = Ids
        /\ \A r, q \in rows' : r.primary /\ q.primary => r = q
        /\ f \in disk'
    BY <1>1, <1>4 DEF IInv, TypeOK, Promotions, Ids, Stored, UploadFiles
  <2> QED  BY <1>1, <1>2, <1>4, <2>1, UploadMoved
<1>5. CASE Check(f) /\ UploadGoes(f, "written", "checked") /\ UNCHANGED disk
  BY <1>4, <1>5, UploadMoves DEF IInv
<1>6. CASE /\ up[f].st = "checked" /\ UNCHANGED disk /\ Cardinality(rows) < Limit
           /\ up' = [up EXCEPT ![f].st = "counted", ![f].n = Cardinality(rows)]
  <2>1. PICK k \in 0 .. Limit : k = Cardinality(rows)
    BY <1>2, <1>6, ImagesAssumption
  <2>2. up \in [New -> Calls({"written", "checked", "counted"})]
        /\ up[f] \in Calls({"written", "checked", "counted"})
    BY DEF IInv, TypeOK
  <2>3. PICK e \in Calls({"written", "checked", "counted"}) :
           e = [up[f] EXCEPT !.st = "counted", !.n = k]
    BY <2>2 DEF Calls
  <2>4. e.st = "counted" /\ e.n = k /\ e.heard = up[f].heard
    BY <2>2, <2>3 DEF Calls
  <2>5. up' = [up EXCEPT ![f] = e]
    BY <1>6, <2>1, <2>3
  <2>6. /\ up' \in [New -> Calls({"written", "checked", "counted"})]
        /\ up'[f] = e /\ \A g \in New \ {f} : up'[g] = up[g]
    BY <2>2, <2>5
  <2> QED  BY <1>4, <1>6, <2>1, <2>4, <2>6
<1> QED  BY <1>3, <1>5, <1>6 DEF Check, CountImages

\* The row is inserted, or a constraint of the table refuses it.
LEMMA InsertStep == ASSUME IInv, NEW f \in New, Insert(f) PROVE IInv'
<1>1. /\ UNCHANGED page /\ UNCHANGED auction /\ UNCHANGED del /\ UNCHANGED now /\ UNCHANGED faults
      /\ faults \subseteq {"create", "update", "promote", "delete", "upload", "answer",
                           "rollback", "crash"}
  BY DEF Insert, Env, IInv, TypeOK
<1>2. up[f] \in Calls({"written", "checked", "counted"}) /\ up[f].n \in Nat
  <2>1. up[f] \in Calls({"written", "checked", "counted"})
    BY DEF IInv, TypeOK
  <2> QED  BY <2>1, ImagesAssumption DEF Calls
<1>3. CASE Insertable(up[f].n)
  <2>1. UploadGoes(f, "counted", "ok") /\ UNCHANGED disk
    BY <1>3 DEF Insert
  <2>2. /\ up' \in [New -> Calls({"written", "checked", "counted"})]
        /\ up[f].st = "counted" /\ up'[f].st = "ok" /\ up'[f].heard = up[f].heard
        /\ \A g \in New \ {f} : up'[g] = up[g]
    BY <2>1, UploadMoves DEF IInv
  <2>3. PICK row \in Rows : /\ rows' = rows \cup {row} /\ row.id = f
                            /\ row.primary <=> up[f].n = 0
    <3>1. PICK b \in BOOLEAN : b = (up[f].n = 0)
      OBVIOUS
    <3>2. PICK k \in Nat : k = up[f].n + 1
      BY <1>2
    <3>3. PICK row \in Rows : row = [id |-> f, sort |-> k, primary |-> b]
      BY DEF Rows
    <3>4. rows' = rows \cup {row}
      BY <1>3, <3>1, <3>2, <3>3 DEF Insert
    <3>5. row.id = f /\ (row.primary <=> b)
      BY <3>3
    <3> QED  BY <3>1, <3>4, <3>5
  <2>4. /\ rows' \subseteq Rows /\ IsFiniteSet(rows') /\ rows \subseteq rows'
        /\ Ids' = Ids \cup {f} /\ f \in disk
    <3>1. /\ rows \subseteq Rows /\ IsFiniteSet(rows) /\ f \in disk
      BY <2>2 DEF IInv, TypeOK, Stored, UploadFiles
    <3> QED  BY <2>3, <3>1, FS_AddElement DEF Ids
  <2>5. \A r, q \in rows' : r.primary /\ q.primary => r = q
    <3>1. \A r, q \in rows : r.primary /\ q.primary => r = q
      BY DEF IInv, Promotions
    <3>2. row.primary => \A r \in rows : ~r.primary
      BY <1>3, <2>3 DEF Insertable
    <3> QED  BY <2>3, <3>1, <3>2
  <2>6. auction.st \in {"PENDING", "ACTIVE"}
    BY <1>3 DEF Insertable
  <2>7. (\E r \in rows' : r.primary) \/ rows # {}
    BY <2>2, <2>3, <2>6 DEF IInv, Leads
  <2>8. disk' \subseteq New \cup OldFiles
    BY <2>1 DEF IInv, TypeOK
  <2> QED  BY <1>1, <2>1, <2>2, <2>4, <2>5, <2>6, <2>7, <2>8, UploadMoved
<1>4. CASE ~Insertable(up[f].n)
  <2>1. Drop(f, "counted") /\ UNCHANGED rows
    BY <1>4 DEF Insert
  <2>2. up[f].st = "counted"
    BY <2>1 DEF Drop, UploadGoes
  <2>3. page.st = "uploading" => ~Alone
    <3> SUFFICES ASSUME page.st = "uploading", Alone PROVE FALSE
      OBVIOUS
    <3>1. rows = {} /\ auction.st = "PENDING"
      BY <2>2, AloneIsFirst DEF Alone
    <3> QED  BY <1>4, <3>1 DEF Insertable
  <2> QED  BY <1>1, <2>1, <2>3, DropStep
<1> QED  BY <1>3, <1>4

\* A query of an upload fails.
LEMMA UploadErrsStep == ASSUME IInv, NEW f \in New, UploadErrs(f) PROVE IInv'
<1>1. PICK st \in {"written", "checked", "counted"} : Drop(f, st)
  BY DEF UploadErrs
<1>2. /\ UNCHANGED page /\ UNCHANGED auction /\ UNCHANGED rows /\ UNCHANGED del /\ UNCHANGED now
      /\ faults' = faults \cup {"upload"} /\ faults' # {}
      /\ faults \subseteq {"create", "update", "promote", "delete", "upload", "answer",
                           "rollback", "crash"}
  BY DEF UploadErrs, IInv, TypeOK
<1> QED  BY <1>1, <1>2, DropStep

-----------------------------------------------------------------------------
(* The deletions.                                                           *)

\* Where one deletion goes.
LEMMA DeleteMoves ==
    ASSUME TypeOK, NEW x \in OldFiles, NEW from,
           NEW to \in {"was primary", "was other", "promote", "unlink"}
                        \cup {"none", "sent", "ok", "failed"},
           DeleteGoes(x, from, to)
    PROVE  /\ del' \in [OldFiles -> Calls({"was primary", "was other", "promote", "unlink"})]
           /\ del[x].st = from /\ del'[x].st = to
           /\ del'[x].n = del[x].n /\ del'[x].heard = del[x].heard
           /\ \A y \in OldFiles \ {x} : del'[y] = del[y]
<1> USE DEF TypeOK, DeleteGoes
<1>1. del[x] \in Calls({"was primary", "was other", "promote", "unlink"})
  OBVIOUS
<1>2. PICK e \in Calls({"was primary", "was other", "promote", "unlink"}) :
         e = [del[x] EXCEPT !.st = to]
  BY <1>1 DEF Calls
<1>3. e.st = to /\ e.n = del[x].n /\ e.heard = del[x].heard
  BY <1>1, <1>2 DEF Calls
<1>4. del' = [del EXCEPT ![x] = e]
  BY <1>2
<1> QED  BY <1>3, <1>4

\* What one deletion that has begun cannot disturb.
LEMMA DeleteMoved ==
    ASSUME IInv, NEW o \in OldFiles, UNCHANGED page, UNCHANGED auction, UNCHANGED up, UNCHANGED now,
           del' \in [OldFiles -> Calls({"was primary", "was other", "promote", "unlink"})],
           del'[o].st # "none", del'[o].heard = del[o].heard,
           del[o].st \in {"sent", "was primary", "was other", "promote", "unlink"},
           \A p \in OldFiles \ {o} : del'[p] = del[p],
           faults \subseteq faults',
           faults' \subseteq {"create", "update", "promote", "delete", "upload", "answer",
                              "rollback", "crash"},
           rows' \subseteq Rows, IsFiniteSet(rows'), disk' \subseteq New \cup OldFiles
    PROVE  /\ TypeOK' /\ Phases' /\ Requests' /\ Checked' /\ FailedCreateLeavesNothing'
           /\ \A f \in New : up[f].st = "none"
           /\ o \notin page.existing
<1> USE DEF IInv
<1>1. (Creates' <=> Creates) /\ (Edits' <=> Edits)
  BY DEF Creates, Edits
<1>2. /\ o \in page.removed /\ \A f \in New : up[f].st = "none"
  BY DEF Requests
<1>3. ~Creates /\ page.st # "uploading" /\ del[o] # Idle /\ o \notin page.existing
  <2>1. del[o] # Idle
    BY StartValues
  <2>2. page.st = "uploading" => del[o].st = "ok"
    BY <1>2 DEF Phases
  <2>3. ~Creates /\ o \notin page.existing
    BY <1>2 DEF Phases
  <2> QED  BY <2>1, <2>2, <2>3
<1>4. TypeOK'
  BY DEF TypeOK
<1>5. Phases'
  BY <1>1, <1>3 DEF Phases
<1>6. Requests'
  BY <1>2 DEF Requests
<1>7. Checked' /\ FailedCreateLeavesNothing'
  BY <1>1, <1>3 DEF Checked, FailedCreateLeavesNothing, Alone
<1> QED  BY <1>2, <1>3, <1>4, <1>5, <1>6, <1>7

\* Without a second deletion there is but one.
LEMMA OneDeletion ==
    ASSUME IInv, Sound, NEW o \in OldFiles, NEW p \in OldFiles,
           del[o].st # "none", del[p].st # "none"
    PROVE  o = p
<1>1. /\ page.removed \subseteq OldFiles /\ o \in page.removed /\ p \in page.removed
      /\ Cardinality(page.removed) <= 1
  BY DEF IInv, TypeOK, Pages, Requests, Sound
<1>2. IsFiniteSet(page.removed) /\ Cardinality(page.removed) \in Nat
  BY <1>1, OldFacts, FS_Subset, FS_CardinalityType
<1>3. Cardinality(page.removed) # 0
  BY <1>1, <1>2, FS_EmptySet
<1>4. PICK x : page.removed = {x}
  <2>1. Cardinality(page.removed) = 1
    BY <1>1, <1>2, <1>3
  <2> QED  BY <1>2, <2>1, FS_Singleton
<1> QED  BY <1>1, <1>4

\* Owner, status and the row are read, or a query fails before the row is gone.
LEMMA DeleteReadsStep == ASSUME IInv, NEW o \in OldFiles, DeleteReads(o) \/ DeleteErrs(o) PROVE IInv'
<1> USE DEF IInv
<1>1. /\ UNCHANGED page /\ UNCHANGED auction /\ UNCHANGED rows /\ UNCHANGED disk /\ UNCHANGED up
      /\ UNCHANGED now /\ faults \subseteq faults' /\ Ids' = Ids
      /\ faults' \subseteq {"create", "update", "promote", "delete", "upload", "answer",
                            "rollback", "crash"}
      /\ rows' \subseteq Rows /\ IsFiniteSet(rows') /\ disk' \subseteq New \cup OldFiles
  BY DEF DeleteReads, DeleteErrs, Env, TypeOK, Ids
<1>2. PICK to \in {"was primary", "was other", "failed"},
           from \in {"sent", "was primary", "was other"} : DeleteGoes(o, from, to)
  BY DEF DeleteReads, DeleteErrs
<1>3. /\ del' \in [OldFiles -> Calls({"was primary", "was other", "promote", "unlink"})]
      /\ del[o].st = from /\ del'[o].st = to /\ del'[o].heard = del[o].heard
      /\ \A p \in OldFiles \ {o} : del'[p] = del[p]
  BY <1>2, DeleteMoves
<1>4. /\ to = "was primary" => \E r \in rows : r.id = o /\ r.primary
      /\ to = "was other" => \A r \in rows : r.id = o => ~r.primary
  <2>1. CASE DeleteErrs(o)
    <3>1. PICK st \in {"sent", "was primary", "was other"} : DeleteGoes(o, st, "failed")
      BY <2>1 DEF DeleteErrs
    <3>2. del'[o].st = "failed"
      BY <3>1, DeleteMoves
    <3> QED  BY <1>3, <3>2
  <2>2. CASE DeleteReads(o) /\ to # "failed"
    <3> DEFINE hit == [id |-> o, primary |-> TRUE] \in
                         {[id |-> row.id, primary |-> row.primary] : row \in rows}
    <3>1. hit <=> \E r \in rows : r.id = o /\ r.primary
      <4>1. \A r \in rows : r.primary \in BOOLEAN
        BY DEF TypeOK, Rows
      <4>2. \A r \in rows : [id |-> o, primary |-> TRUE] = [id |-> r.id, primary |-> r.primary]
                              <=> r.id = o /\ r.primary
        BY <4>1
      <4> QED  BY <4>2
    <3> HIDE DEF hit
    <3>2. CASE auction.st = "PENDING" /\ o \in Ids
      <4>1. DeleteGoes(o, "sent", IF hit THEN "was primary" ELSE "was other")
        BY <2>2, <3>2 DEF DeleteReads, hit
      <4>2. hit => to = "was primary"
        <5>1. hit => DeleteGoes(o, "sent", "was primary")
          BY <4>1
        <5>2. hit => del'[o].st = "was primary"
          BY <5>1, DeleteMoves
        <5> QED  BY <1>3, <5>2
      <4>3. ~hit => to = "was other"
        <5>1. ~hit => DeleteGoes(o, "sent", "was other")
          BY <4>1
        <5>2. ~hit => del'[o].st = "was other"
          BY <5>1, DeleteMoves
        <5> QED  BY <1>3, <5>2
      <4> QED  BY <3>1, <4>2, <4>3
    <3>3. CASE ~(auction.st = "PENDING" /\ o \in Ids)
      <4>1. DeleteGoes(o, "sent", "failed")
        BY <2>2, <3>3 DEF DeleteReads
      <4>2. del'[o].st = "failed"
        BY <4>1, DeleteMoves
      <4> QED  BY <1>3, <4>2
    <3> QED  BY <3>2, <3>3
  <2> QED  BY <2>1, <2>2
<1>5. /\ TypeOK' /\ Phases' /\ Requests' /\ Checked' /\ FailedCreateLeavesNothing'
  BY <1>1, <1>3, DeleteMoved
<1>6. Stored'
  <2>1. RowHasFile' /\ NoOrphans'
    BY <1>1 DEF Stored, RowHasFile, NoOrphans
  <2>2. UploadFiles' /\ DeleteFiles'
    BY <1>1, <1>3 DEF Stored, UploadFiles, DeleteFiles
  <2> QED  BY <1>1, <2>1, <2>2 DEF Stored
<1>7. Promotions'
  BY <1>1, <1>3, <1>4 DEF Promotions
<1>8. Leads'
  <2>1. Sound' => Sound
    BY <1>1 DEF Sound
  <2> QED  BY <1>1, <1>3, <1>4, <2>1 DEF Leads
<1> QED  BY <1>5, <1>6, <1>7, <1>8

\* The row goes, with it perhaps the primary image.
LEMMA DeleteRowStep == ASSUME IInv, NEW o \in OldFiles, DeleteRow(o) PROVE IInv'
<1> USE DEF IInv
<1>1. /\ UNCHANGED page /\ UNCHANGED auction /\ UNCHANGED disk /\ UNCHANGED up
      /\ UNCHANGED now /\ UNCHANGED faults
      /\ faults' \subseteq {"create", "update", "promote", "delete", "upload", "answer",
                            "rollback", "crash"}
      /\ rows' = {row \in rows : row.id # o} /\ disk' \subseteq New \cup OldFiles
  BY DEF DeleteRow, Env, TypeOK
<1>2. rows' \subseteq rows /\ rows' \subseteq Rows /\ IsFiniteSet(rows') /\ Ids' = Ids \ {o}
  <2>1. rows' \in SUBSET rows /\ IsFiniteSet(rows) /\ rows \subseteq Rows
    BY <1>1 DEF TypeOK
  <2>2. IsFiniteSet(rows')
    BY <2>1, FS_Subset
  <2> QED  BY <1>1, <2>1, <2>2 DEF Ids
<1>3. /\ del' \in [OldFiles -> Calls({"was primary", "was other", "promote", "unlink"})]
      /\ \/ del[o].st = "was primary" /\ del'[o].st = "promote"
         \/ del[o].st = "was other" /\ del'[o].st = "unlink"
      /\ del'[o].heard = del[o].heard
      /\ \A p \in OldFiles \ {o} : del'[p] = del[p]
  BY DeleteMoves DEF DeleteRow
<1>4. /\ TypeOK' /\ Phases' /\ Requests' /\ Checked' /\ FailedCreateLeavesNothing'
      /\ o \notin page.existing /\ \A f \in New : up[f].st = "none"
  BY <1>1, <1>2, <1>3, DeleteMoved
<1>5. Stored'
  <2>1. RowHasFile' /\ NoOrphans'
    BY <1>1, <1>2 DEF Stored, RowHasFile, NoOrphans
  <2>2. UploadFiles'
    BY <1>1, <1>2, <1>4 DEF Stored, UploadFiles
  <2>3. DeleteFiles'
    BY <1>1, <1>2, <1>3 DEF Stored, DeleteFiles
  <2> QED  BY <1>1, <1>2, <1>4, <2>1, <2>2, <2>3 DEF Stored
<1>6. del[o].st = "was primary" =>
         /\ \A r \in rows' : ~r.primary
         /\ \A p \in OldFiles : del[p].st # "promote"
         /\ \A p \in OldFiles \ {o} : del[p].st # "was primary"
  BY <1>1 DEF Promotions
<1>7. Promotions'
  <2>1. \A p \in OldFiles \ {o} : del'[p].st = "was primary" => \E r \in rows' : r.id = p /\ r.primary
    <3> SUFFICES ASSUME NEW p \in OldFiles \ {o}, del'[p].st = "was primary"
                 PROVE  \E r \in rows' : r.id = p /\ r.primary
      OBVIOUS
    <3>1. PICK r \in rows : r.id = p /\ r.primary
      BY <1>3 DEF Promotions
    <3> QED  BY <1>1, <3>1
  <2>2. \A r, q \in rows' : r.primary /\ q.primary => r = q
    BY <1>2 DEF Promotions
  <2>3. \A p \in OldFiles : del'[p].st = "promote" => \A r \in rows' : ~r.primary
    BY <1>2, <1>3, <1>6 DEF Promotions
  <2>4. \A p, q \in OldFiles : del'[p].st = "promote" /\ del'[q].st = "promote" => q = p
    <3>1. CASE del[o].st = "was primary"
      BY <1>3, <1>6, <3>1
    <3>2. CASE del[o].st = "was other"
      BY <1>3, <3>2 DEF Promotions
    <3> QED  BY <1>3, <3>1, <3>2
  <2>5. del'[o].st # "was primary"
    BY <1>3
  <2> QED  BY <2>1, <2>2, <2>3, <2>4, <2>5 DEF Promotions
<1>8. Leads'
  <2>1. Sound' => Sound
    BY <1>1 DEF Sound
  <2>2. Sound /\ rows' # {} =>
           (\E r \in rows' : r.primary) \/ (\E p \in OldFiles : del'[p].st = "promote")
    BY <1>1, <1>2, <1>3 DEF Leads
  <2> QED  BY <1>1, <1>2, <1>3, <1>4, <2>1, <2>2 DEF Leads
<1> QED  BY <1>4, <1>5, <1>7, <1>8

\* Another image becomes the primary one, or that fails.
LEMMA PromoteStep == ASSUME IInv, NEW o \in OldFiles, Promote(o) \/ PromoteErrs(o) PROVE IInv'
<1> USE DEF IInv
<1>1. /\ UNCHANGED page /\ UNCHANGED auction /\ UNCHANGED disk /\ UNCHANGED up
      /\ UNCHANGED now /\ faults \subseteq faults'
      /\ faults' \subseteq {"create", "update", "promote", "delete", "upload", "answer",
                            "rollback", "crash"}
      /\ disk' \subseteq New \cup OldFiles /\ DeleteGoes(o, "promote", "unlink")
  BY DEF Promote, PromoteErrs, Env, TypeOK
<1>2. /\ del' \in [OldFiles -> Calls({"was primary", "was other", "promote", "unlink"})]
      /\ del[o].st = "promote" /\ del'[o].st = "unlink" /\ del'[o].heard = del[o].heard
      /\ \A p \in OldFiles \ {o} : del'[p] = del[p]
  BY <1>1, DeleteMoves
<1>3. /\ \A r \in rows : ~r.primary
      /\ \A p \in OldFiles \ {o} : del[p].st # "promote"
      /\ \A p \in OldFiles : del[p].st # "was primary"
  BY <1>2 DEF Promotions
<1>4. /\ rows' \subseteq Rows /\ IsFiniteSet(rows') /\ Ids' = Ids /\ (rows' = {} <=> rows = {})
      /\ \A r, q \in rows' : r.primary /\ q.primary => r = q
      /\ rows = {} \/ "promote" \in faults' \/ \E r \in rows' : r.primary
  <2>1. rows \subseteq Rows /\ IsFiniteSet(rows)
    BY DEF TypeOK
  <2>2. CASE UNCHANGED rows /\ (rows = {} \/ "promote" \in faults')
    BY <1>3, <2>1, <2>2 DEF Ids
  <2>3. CASE \E row \in rows : rows' = (rows \ {row}) \cup {[row EXCEPT !.primary = TRUE]}
    <3>1. PICK row \in rows : rows' = (rows \ {row}) \cup {[row EXCEPT !.primary = TRUE]}
      BY <2>3
    <3>2. PICK new \in Rows : new = [row EXCEPT !.primary = TRUE]
      BY <2>1 DEF Rows
    <3>3. new.id = row.id /\ new.primary
      BY <2>1, <3>2 DEF Rows
    <3>4. rows' = (rows \ {row}) \cup {new}
      BY <3>1, <3>2
    <3>5. IsFiniteSet(rows')
      BY <2>1, <3>4, FS_RemoveElement, FS_AddElement
    <3>6. Ids' = Ids
      BY <3>3, <3>4 DEF Ids
    <3> QED  BY <1>3, <2>1, <3>3, <3>4, <3>5, <3>6
  <2>4. CASE Promote(o)
    <3>1. CASE {row \in rows : ~row.primary} = {}
      BY <1>3, <2>2, <2>4, <3>1 DEF Promote
    <3>2. CASE {row \in rows : ~row.primary} # {}
      BY <2>3, <2>4, <3>2 DEF Promote, First
    <3> QED  BY <3>1, <3>2
  <2>5. CASE PromoteErrs(o)
    BY <2>2, <2>5 DEF PromoteErrs
  <2> QED  BY <2>4, <2>5
<1>5. /\ TypeOK' /\ Phases' /\ Requests' /\ Checked' /\ FailedCreateLeavesNothing'
      /\ \A f \in New : up[f].st = "none"
  BY <1>1, <1>2, <1>4, DeleteMoved
<1>6. Stored'
  <2>1. RowHasFile' /\ NoOrphans'
    BY <1>1, <1>4 DEF Stored, RowHasFile, NoOrphans
  <2>2. UploadFiles' /\ DeleteFiles'
    BY <1>1, <1>2, <1>4 DEF Stored, UploadFiles, DeleteFiles
  <2> QED  BY <1>1, <1>4, <2>1, <2>2 DEF Stored
<1>7. Promotions'
  BY <1>2, <1>3, <1>4 DEF Promotions
<1>8. Leads'
  <2>1. Sound' => Sound /\ "promote" \notin faults'
    BY <1>1 DEF Sound
  <2>2. Sound => \A p \in OldFiles : del'[p].st # "was other"
    BY <1>2, OneDeletion
  <2> QED  BY <1>1, <1>2, <1>4, <1>5, <2>1, <2>2 DEF Leads
<1> QED  BY <1>5, <1>6, <1>7, <1>8

\* The file goes after its row.
LEMMA UnlinkStep == ASSUME IInv, NEW o \in OldFiles, Unlink(o) PROVE IInv'
<1> USE DEF IInv
<1>1. /\ UNCHANGED page /\ UNCHANGED auction /\ UNCHANGED rows /\ UNCHANGED up
      /\ UNCHANGED now /\ UNCHANGED faults /\ Ids' = Ids
      /\ faults' \subseteq {"create", "update", "promote", "delete", "upload", "answer",
                            "rollback", "crash"}
      /\ rows' \subseteq Rows /\ IsFiniteSet(rows')
      /\ disk' = disk \ {o} /\ disk' \subseteq New \cup OldFiles
      /\ DeleteGoes(o, "unlink", "ok")
  BY DEF Unlink, Env, TypeOK, Ids
<1>2. /\ del' \in [OldFiles -> Calls({"was primary", "was other", "promote", "unlink"})]
      /\ del[o].st = "unlink" /\ del'[o].st = "ok" /\ del'[o].heard = del[o].heard
      /\ \A p \in OldFiles \ {o} : del'[p] = del[p]
  BY <1>1, DeleteMoves
<1>3. /\ TypeOK' /\ Phases' /\ Requests' /\ Checked' /\ FailedCreateLeavesNothing'
  BY <1>1, <1>2, DeleteMoved
<1>4. Stored'
  <2>1. o \notin Ids /\ o \notin New
    BY <1>2, OldFacts DEF Stored, DeleteFiles
  <2>2. RowHasFile' /\ NoOrphans'
    BY <1>1, <2>1 DEF Stored, RowHasFile, NoOrphans
  <2>3. UploadFiles' /\ DeleteFiles'
    BY <1>1, <1>2, <2>1 DEF Stored, UploadFiles, DeleteFiles
  <2> QED  BY <1>1, <2>2, <2>3 DEF Stored
<1>5. Promotions'
  BY <1>1, <1>2 DEF Promotions
<1>6. Leads'
  <2>1. Sound' => Sound
    BY <1>1 DEF Sound
  <2> QED  BY <1>1, <1>2, <2>1 DEF Leads
<1> QED  BY <1>3, <1>4, <1>5, <1>6

-----------------------------------------------------------------------------
(* The rest of the world, and every step.                                   *)

\* Time passes, or the scheduler activates the auction.
LEMMA WorldStep == ASSUME IInv, Tick \/ Activate PROVE IInv'
<1> USE DEF IInv
<1>1. /\ UNCHANGED page /\ UNCHANGED rows /\ UNCHANGED disk /\ UNCHANGED up /\ UNCHANGED del
      /\ UNCHANGED faults /\ Ids' = Ids /\ (Creates' <=> Creates) /\ (Edits' <=> Edits)
  BY DEF Tick, Activate, server, Env, Ids, Creates, Edits
<1>2. /\ auction' \in [st : {"none", "PENDING", "ACTIVE", "deleted"}, start : Nat]
      /\ UNCHANGED auction \/ (auction.st = "PENDING" /\ auction'.st = "ACTIVE")
  BY DEF Tick, Activate, server, Env, TypeOK
<1>3. now' \in 0 .. MaxTime
  <2>1. now \in 0 .. MaxTime /\ MaxTime \in Nat
    BY ImagesAssumption DEF TypeOK
  <2>2. UNCHANGED now \/ (now < MaxTime /\ now' = now + 1)
    BY DEF Tick, Activate, Env
  <2> QED  BY <2>1, <2>2
<1>4. TypeOK'
  BY <1>1, <1>2, <1>3 DEF TypeOK
<1>5. Phases'
  BY <1>1, <1>2 DEF Phases
<1>6. Requests'
  BY <1>1 DEF Requests
<1>7. Stored' /\ Promotions' /\ Leads'
  BY <1>1, <1>2, NothingStored DEF Moves
<1>8. Checked' /\ FailedCreateLeavesNothing'
  BY <1>1, <1>2 DEF Checked, FailedCreateLeavesNothing, Alone
<1> QED  BY <1>4, <1>5, <1>6, <1>7, <1>8

\* The server stops and starts again.
LEMMA CrashStep == ASSUME IInv, Crash PROVE IInv'
<1> USE DEF IInv
<1>1. /\ UNCHANGED page /\ UNCHANGED auction /\ UNCHANGED rows /\ UNCHANGED disk
      /\ UNCHANGED now /\ faults' = faults \cup {"crash"}
      /\ Ids' = Ids /\ (Creates' <=> Creates) /\ (Edits' <=> Edits)
      /\ page.st \in {"deleting", "uploading", "rollback", "undo", "warned"}
  BY DEF Crash, Ids, Creates, Edits
<1>2. \A f \in New : /\ Died(up[f]) \in Calls({"written", "checked", "counted"})
                     /\ Died(up[f]).heard = up[f].heard
                     /\ Moves(up[f], Died(up[f]), TRUE)
                     /\ up[f].st \in {"none", "ok", "failed"} => Died(up[f]) = up[f]
                     /\ Died(up[f]).st = "none" => up[f].st = "none"
  BY DEF Died, TypeOK, Calls, Moves
<1>3. \A o \in OldFiles :
         /\ Died(del[o]) \in Calls({"was primary", "was other", "promote", "unlink"})
         /\ Died(del[o]).heard = del[o].heard
         /\ Moves(del[o], Died(del[o]), TRUE)
         /\ del[o].st \in {"none", "ok", "failed"} => Died(del[o]) = del[o]
         /\ Died(del[o]).st = "none" => del[o].st = "none"
  BY DEF Died, TypeOK, Calls, Moves
<1>4. /\ up' \in [New -> Calls({"written", "checked", "counted"})]
      /\ del' \in [OldFiles -> Calls({"was primary", "was other", "promote", "unlink"})]
      /\ \A f \in New : up'[f] = Died(up[f])
      /\ \A o \in OldFiles : del'[o] = Died(del[o])
  BY <1>2, <1>3 DEF Crash
<1>5. TypeOK'
  BY <1>1, <1>4 DEF TypeOK
<1>6. Phases'
  <2>1. Idle.st = "none"
    BY DEF Idle
  <2>5. /\ \A f \in New : up'[f].st = "none" <=> up[f].st = "none"
        /\ \A f \in New : up[f].st = "none" => up'[f] = up[f]
        /\ \A o \in OldFiles : del[o].st = "ok" => del'[o].st = "ok"
    BY <1>2, <1>3, <1>4
  <2>2. page.removed \subseteq OldFiles
    BY DEF TypeOK, Pages
  <2>3. page.st = "uploading" =>
           /\ \A o \in page.removed : del'[o].st = "ok"
           /\ \A f \in New : up'[f].st # "none" => f \in page.files
    BY <2>2, <2>5 DEF Phases
  <2>4. page.st = "deleting" => \A f \in New : up'[f] = Idle
    BY <2>1, <2>5 DEF Phases
  <2> QED  BY <1>1, <2>3, <2>4 DEF Phases
<1>7. Requests'
  <2>1. /\ \A f \in New : /\ up'[f].heard = up[f].heard
                          /\ up[f].st = "ok" => up'[f].st = "ok"
                          /\ up'[f].st = "none" <=> up[f].st = "none"
        /\ \A o \in OldFiles : /\ del'[o].heard = del[o].heard
                               /\ del[o].st \in {"none", "ok"} => del'[o].st = del[o].st
                               /\ del'[o].st = "none" <=> del[o].st = "none"
    BY <1>2, <1>3, <1>4
  <2> QED  BY <1>1, <2>1 DEF Requests
<1>8. Stored' /\ Promotions' /\ Leads'
  <2>1. "crash" \in faults'
    BY <1>1
  <2>2. /\ \A f \in New : Moves(up[f], up'[f], "crash" \in faults')
        /\ \A o \in OldFiles : Moves(del[o], del'[o], "crash" \in faults')
    BY <1>2, <1>3, <1>4, <2>1 DEF Moves
  <2> QED  BY <1>1, <2>2, NothingStored
<1>9. Checked' /\ FailedCreateLeavesNothing'
  <2>1. ~Alone'
    BY <1>1 DEF Alone
  <2> QED  BY <1>1, <2>1 DEF Checked, FailedCreateLeavesNothing
<1> QED  BY <1>5, <1>6, <1>7, <1>8, <1>9

\* Nothing happens.
LEMMA StutterStep == ASSUME IInv, UNCHANGED vars PROVE IInv'
<1> USE DEF IInv
<1>1. /\ UNCHANGED page /\ UNCHANGED auction /\ UNCHANGED rows /\ UNCHANGED disk
      /\ UNCHANGED up /\ UNCHANGED del /\ UNCHANGED now /\ UNCHANGED faults
      /\ Ids' = Ids /\ (Creates' <=> Creates) /\ (Edits' <=> Edits)
  BY DEF vars, Ids, Creates, Edits
<1>2. TypeOK' /\ Phases' /\ Requests'
  BY <1>1 DEF TypeOK, Phases, Requests
<1>3. Stored' /\ Promotions' /\ Leads'
  BY <1>1, NothingStored DEF Moves
<1>4. Checked' /\ FailedCreateLeavesNothing'
  BY <1>1 DEF Checked, FailedCreateLeavesNothing, Alone
<1> QED  BY <1>2, <1>3, <1>4

\* The invariant after any step.
LEMMA NextIInv == ASSUME IInv, [Next]_vars PROVE IInv'
<1>1. CASE Progress
  <2>1. CASE CategoriesLoad \/ EditCategoriesLoad
    BY <2>1, CategoriesStep
  <2>2. CASE AuctionLoads
    BY <2>2, AuctionLoadsStep
  <2>3. CASE CallStep
    BY <2>3, RefusalsStep, CreateAnswersStep, UpdateAnswersStep DEF CallStep
  <2>4. CASE PageStep
    BY <2>4, DeletesDoneStep, PhasesStep, RollbackDeletesStep DEF PageStep
  <2>5. ASSUME NEW f \in New, UploadStep(f) PROVE IInv'
    BY <2>5, WriteStep, CheckStep, InsertStep, HearsStep DEF UploadStep
  <2>6. ASSUME NEW o \in OldFiles, DeleteStep(o) PROVE IInv'
    BY <2>6, DeleteReadsStep, DeleteRowStep, PromoteStep, UnlinkStep, HearsStep DEF DeleteStep
  <2> QED  BY <1>1, <2>1, <2>2, <2>3, <2>4, <2>5, <2>6 DEF Progress
<1>2. CASE UserStep
  BY <1>2, ChooseStep, RemoveStep, SubmitStep DEF UserStep
<1>3. CASE Faults
  BY <1>3, RefusalsStep, PhasesStep, HearsStep, CrashStep, UploadErrsStep, DeleteReadsStep,
     PromoteStep DEF Faults
<1>4. CASE Tick \/ Activate
  BY <1>4, WorldStep
<1>5. CASE UNCHANGED vars
  BY <1>5, StutterStep
<1> QED  BY <1>1, <1>2, <1>3, <1>4, <1>5 DEF Next

-----------------------------------------------------------------------------
\* Every image row has its file, no file is left over, no image outlives its auction, and
\* one image is the primary one, after whatever failed short of the exceptions it names.
THEOREM ImagesAreSound == Spec => []ImagesInv
<1>1. IInv /\ [Next]_vars => IInv'
  BY NextIInv
<1> QED  BY InitIInv, <1>1, IInvIsImagesInv, PTL DEF Spec

\* The server accepts what the form let through, and a single image is stored.
THEOREM FormIsEnough == Spec => []FormAgrees
<1>1. IInv /\ [Next]_vars => IInv'
  BY NextIInv
<1> QED  BY InitIInv, <1>1, IInvIsFormAgrees, PTL DEF Spec

\* A creation that failed left no auction, unless a call was lost or it had started.
THEOREM FailureIsClean == Spec => []FailedCreateLeavesNothing
<1>1. IInv /\ [Next]_vars => IInv'
  BY NextIInv
<1>2. IInv => FailedCreateLeavesNothing
  BY DEF IInv
<1> QED  BY InitIInv, <1>1, <1>2, PTL DEF Spec

\* A step that reports success finds every image stored and every removed one gone.
LEMMA SuccessStep ==
    ASSUME IInv, [Next]_vars, page'.st = "success", page.st # "success"
    PROVE  page.files \cup page.existing \subseteq Ids /\ page.removed \cap Ids = {}
<1>1. UploadsDone \/ EditDone
  <2> USE DEF Pages
  <2>1. page \in Pages /\ page' # page
    BY DEF IInv, TypeOK
  <2>2. ASSUME NEW st \in {"uploading", "rollback", "warned", "undo", "failed"}, Goes(st) PROVE FALSE
    BY <2>1, <2>2 DEF Goes
  <2>3. CASE Progress
    <3>1. ~CategoriesLoad /\ ~EditCategoriesLoad
      BY <2>1 DEF CategoriesLoad, EditCategoriesLoad, SetCategories
    <3>2. ~AuctionLoads
      BY <2>1 DEF AuctionLoads
    <3>3. ~CallStep
      BY <2>1 DEF CallStep, CreateRefused, UpdateRefused, Refused, CreateAnswers, UpdateAnswers
    <3>4. /\ \A f \in New : ~UploadStep(f)
          /\ \A o \in OldFiles : ~DeleteStep(o)
      BY <2>1 DEF UploadStep, Write, Check, CountImages, Insert, HearUpload, DeleteStep, DeleteReads,
                  DeleteRow, Promote, Unlink, HearDelete
    <3>5. ~DeletesDone /\ ~UploadsFail /\ ~EditFails /\ ~RollbackReads /\ ~RollbackDeletes
      BY <2>2 DEF DeletesDone, UploadsFail, EditFails, RollbackReads, RollbackDeletes
    <3> QED  BY <2>3, <3>1, <3>2, <3>3, <3>4, <3>5 DEF Progress, PageStep
  <2>4. CASE UserStep
    BY <2>1, <2>4 DEF UserStep, ChooseFiles, AddFiles, Choose, RemoveExisting, CreateSubmit,
                      EditSubmit, Submit
  <2>5. CASE Faults
    <3>1. ~CreateLost /\ ~UpdateLost
      BY <2>1 DEF CreateLost, UpdateLost, Refused
    <3>2. ~RollbackErrs
      BY <2>2 DEF RollbackErrs
    <3> QED  BY <2>1, <2>5, <3>1, <3>2 DEF Faults, Lose, Crash, UploadErrs, DeleteErrs, PromoteErrs
  <2>6. ~Tick /\ ~Activate /\ ~(UNCHANGED vars)
    BY <2>1 DEF Tick, Activate, vars
  <2> QED  BY <2>3, <2>4, <2>5, <2>6 DEF Next
<1>2. page.st = "uploading" /\ \A f \in page.files : up[f].heard = "ok"
  BY <1>1 DEF UploadsDone, EditDone, AllHeard
<1>3. page.files \subseteq New /\ page.removed \subseteq OldFiles
  BY DEF IInv, TypeOK, Pages
<1>4. page.files \subseteq Ids
  BY <1>2, <1>3 DEF IInv, Requests, Stored, UploadFiles, Phases
<1>5. page.removed \cap Ids = {}
  BY <1>2, <1>3 DEF IInv, Phases, Stored, DeleteFiles
<1> QED  BY <1>4, <1>5 DEF IInv, Stored

\* "Success" means that the auction has the images the form showed.
THEOREM SuccessIsReal == Spec => SuccessIsComplete
<1>1. IInv /\ [Next]_vars => IInv'
  BY NextIInv
<1>2. IInv /\ [Next]_vars =>
         [page'.st = "success" /\ page.st # "success" =>
            /\ page.files \cup page.existing \subseteq Ids
            /\ page.removed \cap Ids = {}]_vars
  BY SuccessStep
<1> QED  BY InitIInv, <1>1, <1>2, PTL DEF Spec, SuccessIsComplete
=============================================================================
