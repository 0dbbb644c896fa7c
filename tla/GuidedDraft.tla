------------------------------- MODULE GuidedDraft -------------------------------
(***************************************************************************)
(* The draft of mode rapide in the browser: InvoiceDraftStore and the      *)
(* screens that edit it. The lines step keeps its own copy of the draft    *)
(* (FormArrays) and writes it back on every change; a split service keeps  *)
(* one weight per product line, in order; a remise designates a line; the  *)
(* dictated draft keeps its "à vérifier" flags in a store of their own, by *)
(* position. Descriptions and prices are left out, ids are the clientIds.  *)
(***************************************************************************)
EXTENDS Naturals, Sequences, SequencesExt

CONSTANTS
  MaxDraftLines,    \* bound of the product lines of a draft
  MaxServices, \* bound of its prestations
  MaxRemises   \* bound of its remises

ASSUME GuidedBounds == {MaxDraftLines, MaxServices, MaxRemises} \subseteq Nat

VARIABLES
  screen,   \* the step shown
  draft,    \* InvoiceDraftStore: product lines, prestations and remises
  form,     \* the FormArrays of the lines step, while it is shown
  leaving,  \* ids of the cards whose exit animation is playing
  flags,    \* VoiceDraftReviewStore: per line, the id of the line it is about, or None
  devisLoad,\* a devis is being fetched into the draft
  orphaned  \* history: lines were dropped under remises that may designate them

guidedVars == <<screen, draft, form, leaving, flags, devisLoad, orphaned>>

None == 0
Ids == 1..(MaxDraftLines + MaxServices + MaxRemises)
EmptyDraft == [lines |-> <<>>, services |-> <<>>, remises |-> <<>>]

\* A prestation: visible or redistributed by weight, and how many weights it holds.
Service(id, spread, n) == [id |-> id, spread |-> spread, weights |-> n]

ServiceIds(d) == {d.services[i].id : i \in DOMAIN d.services}
IdsOf(d) == ToSet(d.lines) \cup ServiceIds(d)
InUse == IdsOf(draft) \cup IdsOf(form) \cup leaving
           \cup ToSet(draft.remises) \cup ToSet(form.remises)
\* crypto.randomUUID: ids nothing refers to; those of a draft that is replaced are free.
IdsBeside(used, n) ==
  CHOOSE s \in [1..n -> Ids \ used] : \A i, j \in 1..n : i < j => s[i] < s[j]
NewIds == IdsBeside(InUse, 1)

ShapeOK(d) ==
  /\ d.lines \in BoundedSeq(Ids, MaxDraftLines) /\ Len(d.services) <= MaxServices
  /\ \A i \in DOMAIN d.services :
       d.services[i] \in [id : Ids, spread : BOOLEAN, weights : 0..MaxDraftLines]
  /\ d.remises \in BoundedSeq(Ids \cup {None}, MaxRemises)

GuidedTypeOK ==
  /\ screen \in {"choice", "voice", "review", "customer", "lines", "preview"}
  /\ ShapeOK(draft) /\ ShapeOK(form)
  /\ leaving \subseteq Ids /\ flags \in BoundedSeq(Ids \cup {None}, MaxDraftLines)
  /\ devisLoad \in BOOLEAN /\ orphaned \in BOOLEAN

GuidedInit ==
  /\ screen = "choice" /\ draft = EmptyDraft /\ form = EmptyDraft
  /\ leaving = {} /\ flags = <<>> /\ devisLoad = FALSE /\ orphaned = FALSE

-------------------------------------------------------------------------------
(* The lines step: every change of a FormArray is written to the store      *)

(* Mutant: a removed line leaves its weight behind. *)
Unsynced(d) == d
\* syncServiceLineWeights: as many weights as product lines, popped from the end.
Synced(d) == [d EXCEPT !.services =
                [i \in DOMAIN @ |-> [@[i] EXCEPT !.weights = Len(d.lines)]]]

OnLines == screen = "lines" /\ ~devisLoad

\* Each array that changed is written to the store (valueChanges).
Change(f) ==
  /\ form' = f
  /\ draft' = [a \in DOMAIN draft |-> IF f[a] # form[a] THEN f[a] ELSE draft[a]]

\* addFreeLine, addProductFromCatalog
AddLine ==
  /\ OnLines /\ Len(form.lines) < MaxDraftLines
  /\ Change(Synced([form EXCEPT !.lines = @ \o NewIds]))
  /\ UNCHANGED <<screen, leaving, flags, devisLoad, orphaned>>

\* addFreeServiceLine, addServiceFromCatalog
AddService(spread) ==
  /\ OnLines /\ Len(form.services) < MaxServices
  /\ Change([form EXCEPT !.services =
               Append(@, Service(NewIds[1], spread, Len(form.lines)))])
  /\ UNCHANGED <<screen, leaving, flags, devisLoad, orphaned>>

\* toggleServiceLineVisibility, and the strategy picked in the card
ToggleService(i) ==
  /\ OnLines /\ i \in DOMAIN form.services
  /\ Change([form EXCEPT !.services[i].spread = ~@])
  /\ UNCHANGED <<screen, leaving, flags, devisLoad, orphaned>>

\* addFreeDiscountLine, addDiscountFromCatalog
AddRemise ==
  /\ OnLines /\ Len(form.remises) < MaxRemises
  /\ Change([form EXCEPT !.remises = Append(@, None)])
  /\ UNCHANGED <<screen, leaving, flags, devisLoad, orphaned>>

\* "Appliquer sur": a line or a prestation of the form, a leaving one included.
PickTarget(i, target) ==
  /\ OnLines /\ i \in DOMAIN form.remises /\ target \in IdsOf(form) \cup {None}
  /\ Change([form EXCEPT !.remises[i] = target])
  /\ UNCHANGED <<screen, leaving, flags, devisLoad, orphaned>>

\* removeDiscountLine
RemoveRemise(i) ==
  /\ OnLines /\ i \in DOMAIN form.remises
  /\ Change([form EXCEPT !.remises = RemoveAt(@, i)])
  /\ UNCHANGED <<screen, leaving, flags, devisLoad, orphaned>>

\* removeLine, removeServiceLine: the card plays its exit first.
StartRemoval(id) ==
  /\ OnLines /\ id \in IdsOf(form) \ leaving
  /\ leaving' = leaving \cup {id}
  /\ UNCHANGED <<screen, draft, form, flags, devisLoad, orphaned>>

ClearTargets(f, id) ==
  [f EXCEPT !.remises = [i \in DOMAIN @ |-> IF @[i] = id THEN None ELSE @[i]]]

\* removeAt(indexOf(group)): nothing is cut when the card is not in that array.
CutAt(s, found) == IF found = {} THEN s ELSE RemoveAt(s, CHOOSE i \in found : TRUE)

\* Found again by its group, not by the index of the click: other cards may have
\* left meanwhile. The weights follow the lines.
Without(f, id) ==
  Synced([f EXCEPT
    !.lines = CutAt(@, {i \in DOMAIN @ : @[i] = id}),
    !.services = CutAt(@, {i \in DOMAIN @ : @[i].id = id})])

EndRemoval(id) ==
  /\ OnLines /\ id \in leaving
  /\ leaving' = leaving \ {id}
  /\ Change(ClearTargets(Without(form, id), id))
  /\ UNCHANGED <<screen, flags, devisLoad, orphaned>>

-------------------------------------------------------------------------------
(* The other screens                                                        *)

Steps == {"customer", "lines", "preview"}

\* A step opens: the lines step builds its form from the store (what it pads stays
\* local until the first change), any other drops it, and a card whose exit was
\* playing is back. Leaving the wizard drops a devis on its way.
Show(step, d, loading) ==
  /\ screen' = step /\ leaving' = {}
  /\ devisLoad' = (loading /\ step \in Steps)
  /\ form' = IF step = "lines" /\ ~loading THEN Synced(d) ELSE EmptyDraft

\* The tabs, the back and next buttons, a bookmark. goToPreview writes the form once
\* more; a preview of a draft that cannot be previewed sends back to the lines.
GoTo(step) ==
  /\ screen # "voice" /\ step # screen
  /\ Show(step, draft, devisLoad)
  /\ UNCHANGED <<draft, flags, orphaned>>

\* goToPreview
GoToPreview ==
  /\ OnLines /\ form.lines # <<>>
  /\ draft' = form /\ Show("preview", form, FALSE)
  /\ UNCHANGED <<flags, orphaned>>

\* reset: mode choice, "vider", a new document after one was created
Reset(step) ==
  /\ draft' = EmptyDraft /\ orphaned' = FALSE
  /\ Show(step, EmptyDraft, devisLoad)
  /\ UNCHANGED flags

\* pickCustomer, startNewCustomer: another customer drops the lines, silently.
ChangeCustomer ==
  /\ screen = "customer" /\ (draft.lines # <<>> \/ draft.services # <<>>)
  /\ draft' = [draft EXCEPT !.lines = <<>>, !.services = <<>>]
  /\ orphaned' = (orphaned \/ draft.remises # <<>>)
  /\ UNCHANGED <<screen, form, leaving, flags, devisLoad>>

\* fromDevisId: the outlet is hidden until the devis is there.
AskDevis ==
  /\ screen \in {"choice", "preview"} /\ ~devisLoad
  /\ Show("lines", draft, TRUE)
  /\ UNCHANGED <<draft, flags, orphaned>>

\* loadFromInvoice: new ids, a weight per line for what was redistributed, and the
\* targets of the remises found by position.
LoadFromInvoice(n, m, spread) ==
  /\ devisLoad
  /\ LET ids == IdsBeside({}, n + m)
         d == [lines |-> SubSeq(ids, 1, n),
               services |-> [i \in 1..m |->
                  Service(ids[n + i], spread, IF spread THEN n ELSE 0)],
               remises |-> IF MaxRemises = 0 THEN <<>> ELSE <<ids[n + m]>>]
     IN draft' = d /\ Show(screen, d, FALSE)
  /\ orphaned' = FALSE
  /\ UNCHANGED flags

DevisUnavailable ==
  /\ devisLoad
  /\ Show("choice", draft, FALSE)
  /\ UNCHANGED <<draft, flags, orphaned>>

\* The capture screen: loadFromVoiceDraft, then activate with a flag on some lines.
LoadFromVoiceDraft(n, m, flagged) ==
  /\ screen = "voice"
  /\ LET ids == IdsBeside({}, n + m)
         d == [lines |-> SubSeq(ids, 1, n), remises |-> <<>>,
               services |-> [i \in 1..m |-> Service(ids[n + i], FALSE, 0)]]
     IN /\ draft' = d /\ Show("review", d, FALSE)
        /\ flags' = [i \in 1..n |-> IF i \in flagged THEN ids[i] ELSE None]
  /\ orphaned' = FALSE

\* The review screen's removeLine: both arrays are cut at the same index.
ReviewRemoveLine(i) ==
  /\ screen = "review" /\ i \in DOMAIN draft.lines
  /\ draft' = [draft EXCEPT !.lines = RemoveAt(@, i)]
  /\ flags' = RemoveAt(flags, i)
  /\ UNCHANGED <<screen, form, leaving, devisLoad, orphaned>>

\* updateLine, applyLineSuggestion: the answer takes the flag away.
ReviewUpdateLine(i) ==
  /\ screen = "review" /\ i \in DOMAIN draft.lines /\ flags[i] # None
  /\ flags' = [flags EXCEPT ![i] = None]
  /\ UNCHANGED <<screen, draft, form, leaving, devisLoad, orphaned>>

GuidedNext ==
  \/ AddLine \/ AddRemise \/ GoToPreview \/ ChangeCustomer \/ AskDevis \/ DevisUnavailable
  \/ \E spread \in BOOLEAN : AddService(spread)
  \/ \E i \in 1..MaxServices : ToggleService(i)
  \/ \E i \in 1..MaxRemises : RemoveRemise(i) \/ \E t \in Ids \cup {None} : PickTarget(i, t)
  \/ \E id \in Ids : StartRemoval(id) \/ EndRemoval(id)
  \/ \E step \in Steps \cup {"choice"} : GoTo(step)
  \/ \E step \in {"choice", "customer", "voice"} : Reset(step)
  \/ \E n \in 1..MaxDraftLines, m \in 0..MaxServices :
       \/ \E spread \in BOOLEAN : LoadFromInvoice(n, m, spread)
       \/ \E flagged \in SUBSET (1..n) : LoadFromVoiceDraft(n, m, flagged)
  \/ \E i \in 1..MaxDraftLines : ReviewRemoveLine(i) \/ ReviewUpdateLine(i)

GuidedSpec == GuidedInit /\ [][GuidedNext]_guidedVars

-------------------------------------------------------------------------------
\* ServiceLineWeightsMatchLines: what the API refuses otherwise.
WeightsMatchLines ==
  \A i \in DOMAIN draft.services :
    draft.services[i].spread => draft.services[i].weights = Len(draft.lines)

TargetsArePresent ==
  ~orphaned => \A i \in DOMAIN draft.remises : draft.remises[i] \in IdsOf(draft) \cup {None}

FlagsFollowLines ==
  screen = "review" =>
    /\ Len(flags) = Len(draft.lines)
    /\ \A i \in DOMAIN flags : flags[i] \in {None, draft.lines[i]}

(* Whatever the order of edits, exits, steps and loads, the parts of the   *)
(* draft that refer to each other stay aligned: one weight per line for    *)
(* every split the API will check, no remise on a line that is gone, and a *)
(* "à vérifier" flag under the line it was raised for (InvoiceDraftStore,  *)
(* the lines step, VoiceDraftReviewStore).                                 *)
DraftStaysAligned == WeightsMatchLines /\ TargetsArePresent /\ FlagsFollowLines
===============================================================================
