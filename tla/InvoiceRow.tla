------------------------------- MODULE InvoiceRow -------------------------------
(***************************************************************************)
(* What happens to one document after its creation: its payment status,    *)
(* the mails that carry it, its share link and its signature.              *)
(* InvoiceService, InvoiceMailService and InvoiceRepository. Every handler *)
(* reads the row, awaits, and writes some of its columns: requests         *)
(* interleave between the two. The transmission columns are those of       *)
(* EInvoiceTransmission.                                                   *)
(***************************************************************************)
EXTENDS Naturals

CONSTANTS
  Requests, \* requests in flight at one time
  MaxLinks  \* bound of the share tokens generated

ASSUME MaxLinksAssumption == MaxLinks \in Nat

VARIABLES
  document, \* the Invoice row
  handler   \* [Requests -> a handler: its next statement and what it read]

invoiceRowVars == <<document, handler>>

PaymentStatus == {"NON_PAYEE", "ACOMPTE_VERSE", "PAYEE", "ANNULEE"}
NoLink == 0

NoHandler == [pc |-> "idle", op |-> "none", to |-> "NON_PAYEE", read |-> "NON_PAYEE",
              paid |-> FALSE, depositPaid |-> FALSE]

Documents ==
  [kind : {"DEVIS", "FACTURE"}, deposit : BOOLEAN, status : PaymentStatus,
   paidAt : BOOLEAN, depositPaidAt : BOOLEAN, dueDate : BOOLEAN, sentAt : BOOLEAN,
   lastReminderAt : BOOLEAN, shareToken : 0..MaxLinks, links : 0..MaxLinks,
   signature : BOOLEAN, manuallySigned : BOOLEAN]
Handlers ==
  [pc : {"idle", "write", "link", "send", "mark", "tick"},
   op : {"none", "status", "mail", "share", "tick"},
   to : PaymentStatus, read : PaymentStatus, paid : BOOLEAN, depositPaid : BOOLEAN]

InvoiceRowTypeOK ==
  /\ document \in Documents /\ document.shareToken <= document.links
  /\ handler \in [Requests -> Handlers]

\* A fresh row is NON_PAYEE; only a facture has a payment life, with or without a
\* deposit asked. links counts the tokens generated so far.
InvoiceRowInit ==
  /\ \E kind \in {"DEVIS", "FACTURE"}, deposit \in BOOLEAN :
       /\ kind = "DEVIS" => ~deposit
       /\ document = [kind |-> kind, deposit |-> deposit, status |-> "NON_PAYEE",
                      paidAt |-> FALSE, depositPaidAt |-> FALSE, dueDate |-> FALSE,
                      sentAt |-> FALSE, lastReminderAt |-> FALSE, shareToken |-> NoLink,
                      links |-> 0, signature |-> FALSE, manuallySigned |-> FALSE]
  /\ handler = [r \in Requests |-> NoHandler]

Answer(r) == handler' = [handler EXCEPT ![r] = NoHandler]
Continue(r, pc) == handler' = [handler EXCEPT ![r].pc = pc]

-------------------------------------------------------------------------------
(* updateStatus: the board's drag, its buttons, and a new due date          *)

\* findRawById and the two refusals.
ReadForStatus(r, to) ==
  /\ handler[r].pc = "idle"
  /\ document.kind = "FACTURE"
  /\ to = "ACOMPTE_VERSE" => document.deposit
  /\ handler' = [handler EXCEPT ![r] =
       [pc |-> "write", op |-> "status", to |-> to, read |-> document.status,
        paid |-> document.paidAt, depositPaid |-> document.depositPaidAt]]
  /\ UNCHANGED document

(* Mutant: the date of payment is kept when the status leaves PAYEE. *)
PaidAtKept(r) == handler[r].to = "PAYEE" \/ handler[r].paid
\* A date of payment (or none) for the status asked, from the row that was read.
PaidAt(r) ==
  handler[r].to = "PAYEE" \/ (handler[r].to = handler[r].read /\ handler[r].paid)

DepositPaidAt(r) ==
  handler[r].to = "ACOMPTE_VERSE" \/ (handler[r].to = handler[r].read /\ handler[r].depositPaid)

UpdateStatus(r, due) ==
  /\ handler[r].pc = "write" /\ handler[r].op = "status"
  /\ document' = [document EXCEPT !.status = handler[r].to, !.paidAt = PaidAt(r),
                    !.depositPaidAt = DepositPaidAt(r), !.dueDate = @ \/ due]
  /\ Answer(r)

-------------------------------------------------------------------------------
(* Share link: getOrCreateShareToken reads, then writes unconditionally      *)

\* A link that exists is answered as it is: only a first share goes on.
ReadForShare(r) ==
  /\ handler[r].pc = "idle" /\ document.shareToken = NoLink
  /\ handler' = [handler EXCEPT ![r].pc = "link", ![r].op = "share"]
  /\ UNCHANGED document

WriteLink(r) ==
  /\ handler[r].pc = "link" /\ document.links < MaxLinks
  /\ document' = [document EXCEPT !.links = @ + 1, !.shareToken = document.links + 1]
  /\ IF handler[r].op = "mail" THEN Continue(r, "send") ELSE Answer(r)

RevokeShareToken ==
  /\ document.shareToken # NoLink
  /\ document' = [document EXCEPT !.shareToken = NoLink]
  /\ UNCHANGED handler

-------------------------------------------------------------------------------
(* Mail: the template (or the send) makes the link, the transport may refuse *)

\* loadInvoice, then buildShareUrl; the template alone is a share (ReadForShare).
LoadForMail(r) ==
  /\ handler[r].pc = "idle"
  /\ handler' = [handler EXCEPT ![r].op = "mail", ![r].read = document.status,
       ![r].pc = IF document.shareToken = NoLink THEN "link" ELSE "send"]
  /\ UNCHANGED document

DeliveryFails(r) ==
  /\ handler[r].pc = "send"
  /\ Answer(r) /\ UNCHANGED document

Deliver(r) ==
  /\ handler[r].pc = "send"
  /\ Continue(r, "mark") /\ UNCHANGED document

\* A send of what was unpaid when the mail was prepared counts as a reminder.
MarkSent(r) ==
  /\ handler[r].pc = "mark"
  /\ document' = [document EXCEPT !.sentAt = TRUE,
                    !.lastReminderAt = @ \/ handler[r].read = "NON_PAYEE"]
  /\ Answer(r)

-------------------------------------------------------------------------------
(* Signature                                                                *)

UploadSignature ==
  /\ document' = [document EXCEPT !.signature = TRUE] /\ UNCHANGED handler

DeleteSignature ==
  /\ document.signature
  /\ document' = [document EXCEPT !.signature = FALSE] /\ UNCHANGED handler

ReadForTick(r) ==
  /\ handler[r].pc = "idle" /\ ~document.signature
  /\ handler' = [handler EXCEPT ![r].pc = "tick", ![r].op = "tick"]
  /\ UNCHANGED document

SetManuallySigned(r, value) ==
  /\ handler[r].pc = "tick"
  /\ document' = [document EXCEPT !.manuallySigned = value]
  /\ Answer(r)

InvoiceRowNext ==
  \/ \E r \in Requests :
       \/ \E to \in PaymentStatus : ReadForStatus(r, to)
       \/ \E due \in BOOLEAN : UpdateStatus(r, due)
       \/ ReadForShare(r) \/ WriteLink(r)
       \/ LoadForMail(r) \/ DeliveryFails(r) \/ Deliver(r) \/ MarkSent(r)
       \/ ReadForTick(r) \/ \E value \in BOOLEAN : SetManuallySigned(r, value)
  \/ RevokeShareToken \/ UploadSignature \/ DeleteSignature

InvoiceRowSpec == InvoiceRowInit /\ [][InvoiceRowNext]_invoiceRowVars

-------------------------------------------------------------------------------
(* However status changes interleave, the dates say what the status says:  *)
(* the quarterly report (findPaidInRange) counts a facture by paidAt, so a *)
(* paid one without a date is lost to it, and one moved back out of PAYEE  *)
(* with its date would come back dated wrongly (InvoiceService.updateStatus). *)
PaymentFactsMatchStatus ==
  /\ document.paidAt <=> document.status = "PAYEE"
  /\ document.depositPaidAt <=> document.status = "ACOMPTE_VERSE"
  /\ document.status = "ACOMPTE_VERSE" => document.deposit
  /\ document.kind = "DEVIS" => document.status = "NON_PAYEE"
===============================================================================
