------------------------------- MODULE CatalogueSaving -------------------------------
(***************************************************************************)
(* "Enregistrer dans mon catalogue": what a guided draft asks to save is   *)
(* sent before its document is created, and also when the preview is       *)
(* refused for want of a plan (persistFreeEntities). The ids that come     *)
(* back are written into the draft by position. Products, prestations and  *)
(* remises are saved the same way, here as lines; the customer differs.    *)
(* A thing described is a number; prices and folders are left out.         *)
(***************************************************************************)
EXTENDS Naturals, Sequences, SequencesExt, FiniteSets

CONSTANTS
  CatalogueLines, \* bound of the lines of the draft
  Things,         \* numbers of the things described
  CustomerCap,    \* customers the plan allows (real: 20 for Essentiel)
  ItemCap,        \* products, prestations and remises it allows (real: 30)
  MaxEdits        \* bound of what the artisan does

ASSUME CatalogueAssumption ==
  /\ Things \subseteq Nat \ {0} /\ CatalogueLines \in Nat
  /\ CustomerCap \in Nat /\ ItemCap \in Nat /\ MaxEdits \in Nat

VARIABLES
  page,      \* the screen: the steps that edit the draft, its preview, the created document
  slots,     \* the draft: its customer at 0, its lines from 1
  catalogue, \* the entries in the order of their creation: what each is, and its kind
  saver,     \* per reason to save, the calls under way and what they wait for
  orphans,   \* calls of a page that was left, which the server may still process
  allowed,   \* the plan, or the free invoice, lets the next document through
  edits,     \* how much the artisan did
  unheard,   \* history: things whose entry the page may not have heard of
  mixed      \* history: a document was submitted while a refused preview was still saving

catalogueVars == <<page, slots, catalogue, saver, orphans, allowed, edits, unheard, mixed>>

NoEntry == 0
Reasons == {"refusal", "submission"}
EntryKinds == {"customer", "item"}
KindAt(p) == IF p = 0 THEN "customer" ELSE "item"

Blank == [thing |-> 0, save |-> FALSE, entry |-> NoEntry]
NewDraft == [p \in {0} |-> Blank]
Lines == DOMAIN slots \ {0}
Entries == DOMAIN catalogue
EntriesOf(kind) == {e \in Entries : catalogue[e].kind = kind}

\* A call: the thing, its kind, whether it updates an entry, which, and how far it is.
NoCalls == [p \in {} |-> 0]
Idle == [at |-> "idle", calls |-> NoCalls]
CallsOf(b) == {saver[b].calls[p] : p \in DOMAIN saver[b].calls}
InFlight == orphans \cup CallsOf("refusal") \cup CallsOf("submission")

Taken == {slots[p].thing : p \in DOMAIN slots} \cup {catalogue[e].thing : e \in Entries}
           \cup {c.thing : c \in InFlight}
NewThing == IF Things \subseteq Taken THEN 0 ELSE CHOOSE t \in Things : t \notin Taken

CatalogueInit ==
  /\ page = "edit" /\ slots = NewDraft /\ catalogue = <<>>
  /\ saver = [b \in Reasons |-> Idle] /\ orphans = {}
  /\ allowed \in BOOLEAN /\ edits = 0 /\ unheard = {} /\ mixed = FALSE

-------------------------------------------------------------------------------
(* The steps that edit the draft                                            *)

Edit == page = "edit" /\ edits < MaxEdits /\ edits' = edits + 1
EditOnly == UNCHANGED <<page, catalogue, saver, orphans, allowed, unheard, mixed>>

LineOf(thing, entry) == [thing |-> thing, save |-> FALSE, entry |-> entry]
WithLine(line) == [p \in DOMAIN slots \cup {Cardinality(Lines) + 1} |->
                     IF p \in DOMAIN slots THEN slots[p] ELSE line]
RoomForLine == Cardinality(Lines) < CatalogueLines

\* addFreeLine
TypeLine ==
  /\ Edit /\ RoomForLine /\ NewThing # 0
  /\ slots' = WithLine(LineOf(NewThing, NoEntry)) /\ EditOnly

(* Mutant: every pick of an entry is linked to it. *)
AlwaysLinked(e) == LineOf(catalogue[e].thing, e)

\* Only the first line picked from an entry is linked to it; another is a fresh line.
Picked(e) == IF \E p \in Lines : slots[p].entry = e
             THEN LineOf(NewThing, NoEntry) ELSE LineOf(catalogue[e].thing, e)

\* addProductFromCatalog and its counterparts
PickEntry(e) ==
  /\ Edit /\ RoomForLine /\ e \in EntriesOf("item") /\ NewThing # 0
  /\ slots' = WithLine(Picked(e)) /\ EditOnly

\* removeLine: the lines behind it move up.
RemoveSlot(p) ==
  /\ Edit /\ p \in Lines
  /\ slots' = [q \in DOMAIN slots \ {Cardinality(Lines)} |->
                 IF q < p THEN slots[q] ELSE slots[q + 1]]
  /\ EditOnly

\* toggleSaveToCatalog, the box of the customer
ToggleSave(p) ==
  /\ Edit /\ p \in DOMAIN slots /\ slots[p].thing # 0
  /\ slots' = [slots EXCEPT ![p].save = ~@] /\ EditOnly

\* Another customer drops the lines (resetLinesIfCustomerChanging).
ForCustomer(customer) ==
  IF customer.entry = slots[0].entry THEN [slots EXCEPT ![0] = customer]
  ELSE [p \in {0} |-> customer]

\* startNewCustomer and the form; pickCustomer
NameCustomer(customer) == Edit /\ slots' = ForCustomer(customer) /\ EditOnly
TypeCustomer == NewThing # 0 /\ NameCustomer(LineOf(NewThing, NoEntry))
PickCustomer(e) == e \in EntriesOf("customer") /\ NameCustomer(LineOf(catalogue[e].thing, e))

\* reset: "Vider", the choice of a mode
StartOver == page = "edit" /\ slots' = NewDraft /\ UNCHANGED edits /\ EditOnly

-------------------------------------------------------------------------------
(* The preview, and what it saves                                           *)

\* A new customer that has no entry yet; a line is saved as new or updates its entry.
Wanted == {p \in DOMAIN slots : slots[p].save /\ (p = 0 => slots[p].entry = NoEntry)}
Saving == [at |-> "saving",
           calls |-> [p \in Wanted |-> [thing |-> slots[p].thing, kind |-> KindAt(p),
                                        update |-> slots[p].entry # NoEntry,
                                        entry |-> slots[p].entry, at |-> "sent"]]]

\* The preview is computed as the page opens, before anything can be submitted; canPreview keeps
\* an empty draft out. On a 402, what was asked to be saved is saved all the same.
OpenPreviewStep ==
  /\ page = "edit" /\ Lines # {} /\ page' = "preview"
  /\ \/ UNCHANGED saver
     \/ ~allowed /\ saver' = [saver EXCEPT !["refusal"] = Saving]
  /\ UNCHANGED <<slots, catalogue, orphans, allowed, edits, unheard, mixed>>

\* "Créer": nothing waits for the saves of a refused preview, whose boxes are still ticked.
SubmitDraft ==
  /\ page = "preview" /\ saver["submission"].at = "idle"
  /\ edits < MaxEdits /\ edits' = edits + 1
  /\ saver' = [saver EXCEPT !["submission"] = Saving]
  /\ mixed' = (mixed \/ saver["refusal"].at = "saving")
  /\ UNCHANGED <<page, slots, catalogue, orphans, allowed, unheard>>

Answer(b, p, at) == saver' = [saver EXCEPT ![b].calls[p].at = at]

\* assertCatalogCapacity: counted before the row is inserted, by each call of a batch on its own.
Cap(kind) == IF kind = "customer" THEN CustomerCap ELSE ItemCap
HasRoom(kind) == Cardinality(EntriesOf(kind)) < Cap(kind)

\* The two statements of a creation; an update is one. "made" holds the entry to answer with.
NextOfCall(c) == IF ~c.update /\ c.at = "sent" THEN "counted" ELSE "made"
InsertsRow(c) == ~c.update /\ c.at = "counted"
Inserted(c) == IF InsertsRow(c) THEN Append(catalogue, [thing |-> c.thing, kind |-> c.kind])
               ELSE catalogue

\* A step of a call at the server; once processed its answer may be lost, which reads as a
\* failure. Numbers of entries are the answers: the last row is the one just inserted.
ServerStep(b, p) ==
  LET c == saver[b].calls[p] IN
  /\ c.at \in {"sent", "counted"}
  /\ (~c.update /\ c.at = "sent") => HasRoom(c.kind)
  /\ catalogue' = Inserted(c)
  /\ \/ /\ saver' = [saver EXCEPT ![b].calls[p] =
               [c EXCEPT !.at = NextOfCall(c),
                         !.entry = IF InsertsRow(c) THEN Len(catalogue') ELSE @]]
        /\ UNCHANGED unheard
     \/ /\ InsertsRow(c) /\ Answer(b, p, "failed")
        /\ unheard' = unheard \cup {c.thing}
  /\ UNCHANGED <<page, slots, orphans, allowed, edits, mixed>>

\* Refused (the cap, a code already used), or not received: null, without a word. Counting
\* changes nothing, so a call refused after it is one refused before.
CallFails(b, p) ==
  /\ saver[b].calls[p].at = "sent" /\ Answer(b, p, "failed")
  /\ UNCHANGED <<page, slots, catalogue, orphans, allowed, edits, unheard, mixed>>

\* Calls whose page was left: a cancelled request may have reached the server.
OrphanStep(c) ==
  /\ c \in orphans
  /\ c.at = "sent" => HasRoom(c.kind)
  /\ catalogue' = Inserted(c)
  /\ orphans' = (orphans \ {c}) \cup
                  (IF InsertsRow(c) THEN {} ELSE {[c EXCEPT !.at = NextOfCall(c)]})
  /\ UNCHANGED <<page, slots, saver, allowed, edits, unheard, mixed>>

\* forkJoin: all of them, then the ids go to their positions and the boxes are cleared.
WrittenBack(calls) ==
  [p \in DOMAIN slots |->
     IF p \in DOMAIN calls /\ calls[p].at = "made"
     THEN [slots[p] EXCEPT !.entry = calls[p].entry, !.save = FALSE] ELSE slots[p]]

AllSaved(b) ==
  /\ saver[b].at = "saving"
  /\ \A c \in CallsOf(b) : c.at \in {"made", "failed"}
  /\ slots' = WrittenBack(saver[b].calls)
  /\ saver' = [saver EXCEPT ![b] =
                 IF b = "submission" THEN [Idle EXCEPT !.at = "creating"] ELSE Idle]
  /\ UNCHANGED <<page, catalogue, orphans, allowed, edits, unheard, mixed>>

-------------------------------------------------------------------------------
(* The document, and the page left                                          *)

\* The document is created and the draft starts over; the free invoice is used up.
DocumentCreated ==
  /\ saver["submission"].at = "creating" /\ allowed /\ allowed' \in BOOLEAN
  /\ page' = "created" /\ slots' = NewDraft
  /\ saver' = [saver EXCEPT !["submission"] = Idle]
  /\ UNCHANGED <<catalogue, orphans, edits, unheard, mixed>>

\* 402, a number already used, an error: the draft may be submitted again.
DocumentRefused ==
  /\ saver["submission"].at = "creating"
  /\ saver' = [saver EXCEPT !["submission"] = Idle]
  /\ UNCHANGED <<page, slots, catalogue, orphans, allowed, edits, unheard, mixed>>

(* Mutant: the saves go on once their page is left. *)
LeaveSaving(draft) ==
  /\ page # "edit" /\ page' = "edit" /\ slots' = draft
  /\ UNCHANGED <<catalogue, saver, orphans, allowed, edits, unheard, mixed>>

\* back, the tabs: takeUntilDestroyed drops what was under way. "Vider", and a new document,
\* empty the draft too.
LeavePreview(draft) ==
  /\ page # "edit" /\ page' = "edit" /\ slots' = draft
  /\ LET dropped == {c \in CallsOf("refusal") \cup CallsOf("submission") :
                        c.at # "failed" /\ ~c.update}
     IN /\ orphans' = orphans \cup {c \in dropped : c.at # "made"}
        /\ unheard' = unheard \cup {c.thing : c \in dropped}
  /\ saver' = [b \in Reasons |-> Idle]
  /\ UNCHANGED <<catalogue, allowed, edits, mixed>>

\* A subscription, a grant, or their end.
PlanChanges ==
  /\ edits < MaxEdits /\ edits' = edits + 1 /\ allowed' = ~allowed
  /\ UNCHANGED <<page, slots, catalogue, saver, orphans, unheard, mixed>>

CatalogueNext ==
  \/ TypeLine \/ TypeCustomer \/ StartOver \/ OpenPreviewStep
  \/ SubmitDraft \/ DocumentCreated \/ DocumentRefused \/ PlanChanges
  \/ \E e \in Entries : PickEntry(e) \/ PickCustomer(e)
  \/ \E p \in 0 .. CatalogueLines : RemoveSlot(p) \/ ToggleSave(p)
  \/ \E b \in Reasons : \/ AllSaved(b)
                        \/ \E p \in DOMAIN saver[b].calls : ServerStep(b, p) \/ CallFails(b, p)
  \/ \E c \in orphans : OrphanStep(c)
  \/ \E draft \in {slots, NewDraft} : LeavePreview(draft)

CatalogueSpec == CatalogueInit /\ [][CatalogueNext]_catalogueVars

-------------------------------------------------------------------------------
CallOK(c) == c \in [thing : Things, kind : EntryKinds, update : BOOLEAN, entry : Entries \cup {NoEntry},
                    at : {"sent", "counted", "made", "failed"}]

CatalogueTypeOK ==
  /\ page \in {"edit", "preview", "created"}
  /\ DOMAIN slots = 0 .. Cardinality(Lines) /\ Cardinality(Lines) <= CatalogueLines
  /\ \A p \in DOMAIN slots :
       slots[p] \in [thing : Things \cup {0}, save : BOOLEAN, entry : Entries \cup {NoEntry}]
  /\ \A e \in Entries : catalogue[e] \in [thing : Things, kind : EntryKinds]
  /\ \A b \in Reasons : saver[b].at \in {"idle", "saving", "creating"}
  /\ \A c \in InFlight : CallOK(c)
  /\ allowed \in BOOLEAN /\ edits \in 0 .. MaxEdits /\ mixed \in BOOLEAN
  /\ unheard \subseteq Things

(***************************************************************************)
(* However often a document is refused, submitted again, left and edited,  *)
(* a position of the draft that is linked to an entry of the catalogue is  *)
(* what that entry was made of, no two lines are linked to one entry, and  *)
(* a thing is saved once: unless the answer to its creation never reached  *)
(* the page, or the artisan submitted while a refused preview was saving   *)
(* (persistFreeEntities, submit, and addProductFromCatalog's comment).     *)
(***************************************************************************)
SavedOnceInItsPlace ==
  ~mixed =>
    /\ \A p \in DOMAIN slots :
         slots[p].entry # NoEntry => catalogue[slots[p].entry].thing = slots[p].thing
    /\ \A p, q \in Lines : slots[p].entry # NoEntry /\ slots[p].entry = slots[q].entry => p = q
    /\ \A t \in Things \ unheard : Cardinality({e \in Entries : catalogue[e].thing = t}) <= 1
===============================================================================
