------------------------------- MODULE InvoiceBoard -------------------------------
(***************************************************************************)
(* The list of documents (InvoiceBoardPage): the rows as the page holds    *)
(* them, its calls, answered in any order, and the modal over it. A row is *)
(* abstracted to the number of writes it has seen, and whether a document  *)
(* was made from it (the facture of a devis, the devis of a facture).      *)
(* A row of the database answers every write with the whole row.           *)
(***************************************************************************)
EXTENDS Naturals

CONSTANTS
  BoardDevis,   \* devis and factures of the list when it is first opened
  BoardFactures,
  NoDoc,        \* no document
  MaxCalls,     \* bound of the calls sent
  MaxClicks,    \* bound of what else happens: modals opened, rows written elsewhere
  MaxWrites     \* bound of the writes of a row

Origins == BoardDevis \cup BoardFactures
\* The document of the other type made from an origin. None is made from one of these: a bound.
Made(d) == <<"made", d>>
MadeFrom(types) == {Made(d) : d \in types}
Docs == Origins \cup MadeFrom(Origins)
Factures == BoardFactures \cup MadeFrom(BoardDevis)
Link(d) == IF d \in Origins THEN Made(d) ELSE NoDoc

ASSUME BoardAssumption ==
  /\ NoDoc \notin Docs /\ MaxCalls \in Nat /\ MaxClicks \in Nat /\ MaxWrites \in Nat \ {0}
  /\ MadeFrom(Origins) \cap Origins = {} /\ BoardDevis \cap BoardFactures = {}

VARIABLES
  row,          \* per document, the writes its row has seen; 0 while it does not exist
  board,        \* per document, the row the page holds: its writes and its link
  clicks,       \* how much else happened
  sentCalls,    \* how many calls were sent
  boardCall,    \* per number, the call
  modal,        \* the modal over the page and the document it was opened for
  pdf,          \* documents whose PDF the page waits for
  previewUrl,   \* the document of the PDF shown, or NoDoc
  blurred       \* history: rows the page cannot know

boardVars == <<row, board, clicks, sentCalls, boardCall, modal, pdf, previewUrl, blurred>>

\* The seven kinds of calls: a status, a box ticked or a schedule cancelled; a transmission;
\* its refresh; a mail; a signature; and the two conversions.
Kinds == {"update", "transmit", "refresh", "mail", "sign", "convert", "devis"}
NoCall == [kind |-> "none", doc |-> NoDoc, at |-> "none", seen |-> 0, linked |-> FALSE]
NoModal == [of |-> "none", doc |-> NoDoc]

Row(d) == [seen |-> row[d], linked |-> Link(d) # NoDoc /\ row[Link(d)] > 0]
Shown == {d \in Docs : board[d].seen > 0}
Unanswered(k) == boardCall[k].at \notin {"none", "orphan"}
Busy(kind) == \E k \in 1 .. sentCalls : boardCall[k].kind = kind /\ Unanswered(k)

\* The constructor: the list as it is read.
BoardInit ==
  /\ row = [d \in Docs |-> IF d \in Origins THEN 1 ELSE 0]
  /\ board = [d \in Docs |-> [seen |-> row[d], linked |-> FALSE]]
  /\ clicks = 0 /\ sentCalls = 0 /\ boardCall = [k \in 1 .. MaxCalls |-> NoCall]
  /\ modal = NoModal /\ pdf = {} /\ previewUrl = NoDoc /\ blurred = {}

-------------------------------------------------------------------------------
(* Calls                                                                    *)

Click == clicks < MaxClicks /\ clicks' = clicks + 1

SendOn(kind, d) ==
  /\ sentCalls < MaxCalls /\ sentCalls' = sentCalls + 1
  /\ boardCall' = [boardCall EXCEPT ![sentCalls'] =
                      [NoCall EXCEPT !.kind = kind, !.doc = d, !.at = "sent"]]

\* updateStatus, toggleManuallySigned, onDeleteSignature, onCancelAutoTransmit: as often as
\* the artisan clicks.
Update(d) ==
  /\ modal = NoModal /\ d \in Shown /\ SendOn("update", d)
  /\ UNCHANGED <<clicks, row, board, modal, pdf, previewUrl, blurred>>

\* onTransmit, onRefreshTransmissionStatus: one at a time on the whole page.
OnePerPage(kind, d) ==
  /\ modal = NoModal /\ d \in Shown \cap Factures
  /\ ~Busy(kind) /\ SendOn(kind, d)
  /\ UNCHANGED <<clicks, row, board, modal, pdf, previewUrl, blurred>>

\* "Facture identique" closes its modal, then converts, unless a conversion is under way.
ConvertDevis(d) ==
  /\ modal = [of |-> "convert", doc |-> d] /\ modal' = NoModal
  /\ \/ ~Busy("convert") /\ SendOn("convert", d)
     \/ Busy("convert") /\ UNCHANGED <<clicks, sentCalls, boardCall>>
  /\ UNCHANGED <<clicks, row, board, pdf, previewUrl, blurred>>

\* The other modals stay open until the answer, or until they are closed.
Confirm(kind) ==
  /\ modal.of = kind /\ ~Busy(kind) /\ SendOn(kind, modal.doc)
  /\ UNCHANGED <<clicks, row, board, modal, pdf, previewUrl, blurred>>

\* An error, for the page that is still there.
Unheard(k) ==
  boardCall' = [boardCall EXCEPT ![k] =
                  IF @.at = "sent" THEN [@ EXCEPT !.at = "failed"] ELSE NoCall]

\* The server writes and answers; the answer may be lost on its way, and a page that was left
\* hears nothing. A document is made from another once.
Serve(k) ==
  LET c == boardCall[k]
      making == c.kind \in {"convert", "devis"}
      target == IF making THEN Link(c.doc) ELSE c.doc
  IN
  /\ c.at \in {"sent", "orphan"} /\ (making => row[target] = 0) /\ row[target] < MaxWrites
  /\ row' = [row EXCEPT ![target] = @ + 1]
  /\ \/ /\ c.at = "sent"
        /\ boardCall' = [boardCall EXCEPT ![k] =
             [@ EXCEPT !.at = "answered", !.seen = row'[target],
                       !.linked = ~making /\ Row(target).linked]]
        /\ UNCHANGED blurred
     \/ /\ Unheard(k)
        /\ blurred' = blurred \cup {c.doc}
  /\ UNCHANGED <<clicks, board, sentCalls, modal, pdf, previewUrl>>

\* Refused, or never received: nothing was written.
RefuseCall(k) ==
  /\ boardCall[k].at \in {"sent", "orphan"}
  /\ Unheard(k)
  /\ UNCHANGED <<clicks, row, board, sentCalls, modal, pdf, previewUrl, blurred>>

\* Another tab or a sweep; another tab also makes documents.
WriteElsewhere(d) ==
  /\ Click
  /\ row[d] < MaxWrites /\ row' = [row EXCEPT ![d] = @ + 1]
  /\ blurred' = blurred \cup {d} \cup {e \in Origins : Link(e) = d}
  /\ UNCHANGED <<board, sentCalls, boardCall, modal, pdf, previewUrl>>

-------------------------------------------------------------------------------
(* Answers                                                                  *)

Forget(k) == boardCall' = [boardCall EXCEPT ![k] = NoCall]
CloseModal(kind) == modal' = IF modal.of = kind THEN NoModal ELSE modal

\* An error leaves the rows, and the modal, as they are.
Fails(k) ==
  /\ boardCall[k].at = "failed" /\ Forget(k)
  /\ UNCHANGED <<clicks, row, board, sentCalls, modal, pdf, previewUrl, blurred>>

\* mergeInvoice, and its copies in updateStatus and onEmailSent: the row of the answer takes
\* the place of the one held. An answer older than the row held takes it back.
Merge(k) ==
  LET c == boardCall[k] IN
  /\ c.at = "answered" /\ c.kind \notin {"convert", "devis"} /\ Forget(k)
  /\ board' = [board EXCEPT ![c.doc] = [seen |-> c.seen, linked |-> c.linked]]
  /\ blurred' = IF c.seen < board[c.doc].seen \/ (board[c.doc].linked /\ ~c.linked)
                THEN blurred \cup {c.doc} ELSE blurred
  /\ CloseModal(c.kind)
  /\ UNCHANGED <<clicks, row, sentCalls, pdf, previewUrl>>

(* Mutant: the row of the devis is the one that was clicked, not the one held now. *)
LinkedAsClicked(d) == [seen |-> 1, linked |-> TRUE]

\* Only the link changes on the row the document was made from.
Linked(d) == [board[d] EXCEPT !.linked = TRUE]

\* convertDevis' answer: the facture joins the list, the devis shows its link.
Converted(k) ==
  LET c == boardCall[k] IN
  /\ c.at = "answered" /\ c.kind = "convert" /\ Forget(k)
  /\ board' = [board EXCEPT ![Link(c.doc)] = [seen |-> c.seen, linked |-> FALSE],
                            ![c.doc] = Linked(c.doc)]
  /\ UNCHANGED <<clicks, row, sentCalls, modal, pdf, previewUrl, blurred>>

\* onDevisCreated links the facture the modal is open for by now, if any: that of the call,
\* unless the modal was closed and opened for another in the meantime.
DevisCreated(k) ==
  LET c == boardCall[k]
      facture == IF modal.of = "devis" THEN modal.doc ELSE NoDoc
  IN
  /\ c.at = "answered" /\ c.kind = "devis" /\ Forget(k)
  /\ board' = [d \in Docs |-> IF d = Link(c.doc) THEN [seen |-> c.seen, linked |-> FALSE]
                              ELSE IF d = facture THEN Linked(d) ELSE board[d]]
  /\ blurred' = IF facture = c.doc THEN blurred ELSE blurred \cup {c.doc, facture}
  /\ CloseModal("devis")
  /\ UNCHANGED <<clicks, row, sentCalls, pdf, previewUrl>>

-------------------------------------------------------------------------------
(* Modals, and the page left and opened again                               *)

\* One at a time: each covers the page. A document is made from another once, as far as the
\* row held tells.
OpenModal(kind, d) ==
  /\ Click
  /\ modal = NoModal /\ d \in Shown
  /\ kind = "convert" => d \in BoardDevis /\ ~board[d].linked
  /\ kind = "devis" => d \in BoardFactures /\ ~board[d].linked
  /\ modal' = [of |-> kind, doc |-> d]
  /\ UNCHANGED <<row, board, sentCalls, boardCall, pdf, previewUrl, blurred>>

\* The signature modal waits for its upload; the others close at any time.
DismissModal ==
  /\ modal.of \in {"convert", "devis", "mail", "sign"}
  /\ modal.of = "sign" => ~Busy("sign")
  /\ modal' = NoModal
  /\ UNCHANGED <<clicks, row, board, sentCalls, boardCall, pdf, previewUrl, blurred>>

OpenPreview(d) ==
  /\ Click
  /\ modal = NoModal /\ d \in Shown
  /\ modal' = [of |-> "preview", doc |-> d] /\ previewUrl' = NoDoc /\ pdf' = pdf \cup {d}
  /\ UNCHANGED <<row, board, sentCalls, boardCall, blurred>>

PdfArrives(d) ==
  /\ d \in pdf /\ pdf' = pdf \ {d} /\ previewUrl' = d
  /\ UNCHANGED <<clicks, row, board, sentCalls, boardCall, modal, blurred>>

(* Mutant: the request of the PDF goes on. *)
ClosePreviewOnly ==
  /\ modal.of = "preview" /\ modal' = NoModal /\ previewUrl' = NoDoc
  /\ UNCHANGED <<clicks, row, board, sentCalls, boardCall, pdf, blurred>>

\* Closed by hand, by an action of the modal, or because the PDF failed: unsubscribed.
ClosePreview ==
  /\ modal.of = "preview" /\ modal' = NoModal /\ previewUrl' = NoDoc /\ pdf' = {}
  /\ UNCHANGED <<clicks, row, board, sentCalls, boardCall, blurred>>

\* takeUntilDestroyed drops every answer; the list is read again.
ReopenBoard ==
  /\ board' = [d \in Docs |-> Row(d)]
  /\ boardCall' = [k \in 1 .. MaxCalls |-> IF boardCall[k].at \in {"sent", "orphan"}
                                      THEN [boardCall[k] EXCEPT !.at = "orphan"] ELSE NoCall]
  /\ modal' = NoModal /\ pdf' = {} /\ previewUrl' = NoDoc /\ blurred' = {}
  /\ UNCHANGED <<clicks, row, sentCalls>>

BoardNext ==
  \/ \E d \in Docs : \/ Update(d) \/ ConvertDevis(d) \/ WriteElsewhere(d)
                     \/ OpenPreview(d) \/ PdfArrives(d)
                     \/ \E kind \in {"transmit", "refresh"} : OnePerPage(kind, d)
                     \/ \E kind \in {"convert", "devis", "mail", "sign"} : OpenModal(kind, d)
  \/ \E kind \in {"devis", "mail", "sign"} : Confirm(kind)
  \/ \E k \in 1 .. sentCalls : \/ Serve(k) \/ RefuseCall(k) \/ Fails(k)
                               \/ Merge(k) \/ Converted(k) \/ DevisCreated(k)
  \/ DismissModal \/ ClosePreview \/ ReopenBoard

BoardSpec == BoardInit /\ [][BoardNext]_boardVars

-------------------------------------------------------------------------------
PageCalls ==
  [kind : Kinds \cup {"none"}, doc : Docs \cup {NoDoc},
   at : {"none", "sent", "answered", "failed", "orphan"}, seen : 0 .. MaxWrites, linked : BOOLEAN]

BoardTypeOK ==
  /\ row \in [Docs -> 0 .. MaxWrites] /\ sentCalls \in 0 .. MaxCalls /\ clicks \in 0 .. MaxClicks
  /\ board \in [Docs -> [seen : 0 .. MaxWrites, linked : BOOLEAN]]
  /\ boardCall \in [1 .. MaxCalls -> PageCalls]
  /\ modal \in [of : {"none", "convert", "devis", "mail", "sign", "preview"},
                doc : Docs \cup {NoDoc}]
  /\ pdf \in SUBSET Docs /\ previewUrl \in Docs \cup {NoDoc}
  /\ blurred \in SUBSET (Docs \cup {NoDoc})

(***************************************************************************)
(* A row the page does not wait for is the row of the database, its link   *)
(* included, whatever calls on whatever rows were answered in between:     *)
(* unless an answer about it was lost or overtaken, someone else wrote it, *)
(* or the modal that made its devis was opened for another facture before  *)
(* the answer (InvoiceBoardPage's merges, convertDevis and onDevisCreated).*)
(***************************************************************************)
BoardShowsTheRow ==
  \A d \in Docs \ blurred :
    (\A k \in 1 .. sentCalls : Unanswered(k) => d \notin {boardCall[k].doc, Link(boardCall[k].doc)})
      => board[d] = Row(d) \/ d \notin Shown

(***************************************************************************)
(* The PDF in the preview is that of the document the preview was opened   *)
(* for, though a PDF takes long and previews are opened and closed in the  *)
(* meantime (openPreview, closePreview).                                   *)
(***************************************************************************)
PreviewIsOfItsInvoice == previewUrl # NoDoc => modal = [of |-> "preview", doc |-> previewUrl]
===============================================================================
