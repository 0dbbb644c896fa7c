---------------------------- MODULE InvoiceCreation ----------------------------
(***************************************************************************)
(* The birth of an invoice row: POST /invoices, convert-to-facture and     *)
(* convert-to-devis, as they run concurrently for one company.             *)
(*                                                                         *)
(* A request passes the plan gate, checks the document it starts from,     *)
(* then inserts its row in a transaction that holds a FOR UPDATE lock on   *)
(* the Company row; after the commit it may open the trial-offer window.   *)
(* Outside the transaction every await lets the other requests run.        *)
(*                                                                         *)
(* A row is named by the request that inserts it. A document number is a   *)
(* text and its trailing number, all that computeNextDocumentNumber reads  *)
(* of it: [text |-> "F", n |-> 12] stands for F-000012.                    *)
(***************************************************************************)
EXTENDS Naturals, FiniteSets

CONSTANTS
  Requests,          \* creation requests of one company
  Texts,             \* texts a document number may begin with
  DevisPrefix,       \* Company.devisNumberPrefix (no endpoint changes it)
  ExplicitNumbers,   \* numbers an artisan types
  MaxNumber,         \* bound of the trailing numbers
  NoRequest, NoNumber

Numbers == [text : Texts, n : 0..MaxNumber]

ASSUME TextsAssumption == DevisPrefix \in Texts
ASSUME NumbersAssumption == MaxNumber \in Nat /\ ExplicitNumbers \subseteq Numbers
ASSUME NamesAssumption == NoRequest \notin Requests /\ NoNumber \notin Numbers

(* CreateInvoiceDto, ConvertToFactureDto and ConvertToDevisDto: what a     *)
(* request asks for. A row keeps doc, mode and the source it came from.    *)
Wishes ==
  [kind : {"create", "toFacture", "toDevis"}, doc : {"FACTURE", "DEVIS"},
   mode : {"GUIDED", "MANUAL"}, explicit : BOOLEAN, source : Requests \cup {NoRequest}]

NoWish == [kind |-> "create", doc |-> "FACTURE", mode |-> "MANUAL",
           explicit |-> FALSE, source |-> NoRequest]

VARIABLES
  \* the Company row
  tier,      \* the company has an effective paid plan
  prefix,    \* invoiceNumberPrefix
  lock,      \* the request whose transaction holds the row lock
  offerBy,   \* the request that set trialOfferExpiresAt
  \* the requests and the rows they insert
  step,      \* next statement of a request
  wish,      \* its body
  number,    \* the number it asks for or was given
  created,   \* requests whose row is committed
  \* history
  born       \* rank of a row in the order of commits

companyVars == <<tier, prefix, offerBy>>
vars == <<companyVars, lock, step, wish, number, created, born>>

Steps == {"new", "gate", "count", "check", "lock", "number", "insert", "record", "offer", "done"}

TypeOK ==
  /\ tier \in BOOLEAN
  /\ prefix \in Texts
  /\ lock \in Requests \cup {NoRequest}
  /\ offerBy \in Requests \cup {NoRequest}
  /\ step \in [Requests -> Steps]
  /\ wish \in [Requests -> Wishes]
  /\ number \in [Requests -> Numbers \cup {NoNumber}]
  /\ created \subseteq Requests
  /\ born \in [Requests -> Nat]

Init ==
  /\ tier \in BOOLEAN
  /\ prefix \in Texts
  /\ lock = NoRequest
  /\ offerBy = NoRequest
  /\ step = [r \in Requests |-> "new"]
  /\ wish = [r \in Requests |-> NoWish]
  /\ number = [r \in Requests |-> NoNumber]
  /\ created = {}
  /\ born = [r \in Requests |-> 0]

Goto(r, s) == step' = [step EXCEPT ![r] = s]

(* A refusal (400, 402 or 409) ends the request; nothing of it remains.    *)
Refuse(r) ==
  /\ Goto(r, "done")
  /\ wish' = [wish EXCEPT ![r] = NoWish]
  /\ number' = [number EXCEPT ![r] = NoNumber]
  /\ UNCHANGED <<companyVars, created, born>>

ConvertedFromDevis(r) == IF wish[r].kind = "toDevis" THEN NoRequest ELSE wish[r].source
CreatedFromFacture(r) == IF wish[r].kind = "toDevis" THEN wish[r].source ELSE NoRequest

ConvertedToFacture(d) == {r \in created : ConvertedFromDevis(r) = d}
RetroactiveDevis(f)   == {r \in created : CreatedFromFacture(r) = f}

-------------------------------------------------------------------------------
(* What a request may ask for.                                             *)

Ask(r, w, num) ==
  /\ step[r] = "new"
  /\ wish' = [wish EXCEPT ![r] = w]
  /\ number' = [number EXCEPT ![r] = num]
  /\ Goto(r, "gate")
  /\ UNCHANGED <<companyVars, lock, created, born>>

PostCreate(r) ==
  \E doc \in {"FACTURE", "DEVIS"}, mode \in {"GUIDED", "MANUAL"},
     source \in created \cup {NoRequest}, num \in ExplicitNumbers \cup {NoNumber} :
       Ask(r, [kind |-> "create", doc |-> doc, mode |-> mode,
               explicit |-> num # NoNumber, source |-> source], num)

(* The conversions clone their source, entry mode included; the number of  *)
(* a retroactive devis is mandatory.                                       *)
PostConvertToFacture(r) ==
  \E source \in created :
    Ask(r, [kind |-> "toFacture", doc |-> "FACTURE", mode |-> wish[source].mode,
            explicit |-> FALSE, source |-> source], NoNumber)

PostConvertToDevis(r) ==
  \E source \in created, num \in ExplicitNumbers :
    Ask(r, [kind |-> "toDevis", doc |-> "DEVIS", mode |-> wish[source].mode,
            explicit |-> TRUE, source |-> source], num)

-------------------------------------------------------------------------------
(* The gate and the checks, read outside any transaction.                  *)

Channel(r) == IF wish[r].kind = "create" THEN wish[r].mode ELSE "QUICK_ACTION"

AssertCanCreateInvoice(r) ==
  /\ step[r] = "gate"
  /\ \/ /\ Channel(r) = "MANUAL" \/ tier
        /\ Goto(r, "check")
        /\ UNCHANGED <<companyVars, wish, number, created, born>>
     \/ /\ Channel(r) = "GUIDED" /\ ~tier
        /\ Goto(r, "count")
        /\ UNCHANGED <<companyVars, wish, number, created, born>>
     \/ /\ Channel(r) = "QUICK_ACTION" /\ ~tier
        /\ Refuse(r)
  /\ UNCHANGED lock

(* The one free GUIDED invoice of a company without a plan.                *)
CountInvoices(r) ==
  /\ step[r] = "count"
  /\ \/ /\ \A q \in created : wish[q].mode # "GUIDED"
        /\ Goto(r, "check")
        /\ UNCHANGED <<companyVars, wish, number, created, born>>
     \/ /\ \E q \in created : wish[q].mode = "GUIDED"
        /\ Refuse(r)
  /\ UNCHANGED lock

(* create checks the devis it is said to come from, convertToFacture only  *)
(* its type, convertToDevis its facture.                                   *)
SourceAccepted(r) ==
  LET s == wish[r].source IN
  \/ wish[r].kind = "create" /\ s = NoRequest
  \/ /\ wish[r].kind = "create" /\ s # NoRequest
     /\ wish[s].doc = "DEVIS" /\ ConvertedToFacture(s) = {}
  \/ wish[r].kind = "toFacture" /\ wish[s].doc = "DEVIS"
  \/ wish[r].kind = "toDevis" /\ wish[s].doc = "FACTURE" /\ RetroactiveDevis(s) = {}

CheckSource(r) ==
  /\ step[r] = "check"
  /\ \/ /\ SourceAccepted(r)
        /\ Goto(r, "lock")
        /\ UNCHANGED <<companyVars, wish, number, created, born>>
     \/ /\ ~SourceAccepted(r)
        /\ Refuse(r)
  /\ UNCHANGED lock

-------------------------------------------------------------------------------
(* createWithSequentialNumber: one transaction under the Company row lock. *)

(* Mutant: a plain SELECT, without FOR UPDATE. *)
ReadCompany(r) ==
  /\ step[r] = "lock"
  /\ lock' = r
  /\ Goto(r, "number")
  /\ UNCHANGED <<companyVars, wish, number, created, born>>

LockCompany(r) ==
  /\ step[r] = "lock"
  /\ lock = NoRequest
  /\ lock' = r
  /\ Goto(r, "number")
  /\ UNCHANGED <<companyVars, wish, number, created, born>>

TrailingNumbers(doc) == {number[q].n : q \in {q \in created : wish[q].doc = doc}}

(* One past the highest number of S, counted from 0.                       *)
IsNext(n, S) == n > 0 /\ n - 1 \in S \cup {0} /\ \A m \in S : m < n

AssignNumber(r) ==
  /\ step[r] = "number"
  /\ \/ /\ wish[r].explicit
        /\ UNCHANGED number
     \/ /\ ~wish[r].explicit
        /\ \E n \in 1..MaxNumber :
             /\ IsNext(n, TrailingNumbers(wish[r].doc))
             /\ number' = [number EXCEPT ![r] =
                  [text |-> IF wish[r].doc = "DEVIS" THEN DevisPrefix ELSE prefix, n |-> n]]
  /\ Goto(r, "insert")
  /\ UNCHANGED <<companyVars, lock, wish, created, born>>

(* Mutant: the number alone is unique. *)
UniqueNumber(r) == \A q \in created : number[q] # number[r]

(* The unique constraints (companyId, number), convertedFromDevisId and    *)
(* createdFromFactureId.                                                   *)
Unique(r) ==
  /\ \A q \in created : number[q] # number[r]
  /\ ConvertedFromDevis(r) # NoRequest => ConvertedToFacture(ConvertedFromDevis(r)) = {}
  /\ CreatedFromFacture(r) # NoRequest => RetroactiveDevis(CreatedFromFacture(r)) = {}

(* The inserts, to the commit: all or nothing. A violated constraint (or a *)
(* database error) rolls back.                                             *)
InsertInvoice(r) ==
  /\ step[r] = "insert"
  /\ \/ /\ Unique(r)
        /\ created' = created \cup {r}
        /\ born' = [born EXCEPT ![r] = Cardinality(created) + 1]
        /\ Goto(r, "record")
        /\ UNCHANGED <<companyVars, wish, number>>
     \/ Refuse(r)
  /\ lock' = NoRequest

-------------------------------------------------------------------------------
(* After the commit.                                                       *)

(* Mutant: any row may open the window. *)
RecordAnyInvoice(r) ==
  /\ step[r] = "record"
  /\ Goto(r, IF Cardinality(created) >= 1 /\ ~tier THEN "offer" ELSE "done")
  /\ UNCHANGED <<companyVars, lock, wish, number, created, born>>

(* recordInvoiceCreated's reads: is this the company's very first row?     *)
RecordInvoiceCreated(r) ==
  /\ step[r] = "record"
  /\ Goto(r, IF Cardinality(created) = 1 /\ ~tier THEN "offer" ELSE "done")
  /\ UNCHANGED <<companyVars, lock, wish, number, created, born>>

(* The conditional update of trialOfferExpiresAt: it writes the Company    *)
(* row, so it waits for the lock.                                          *)
StartTrialOfferWindow(r) ==
  /\ step[r] = "offer" /\ lock = NoRequest
  /\ offerBy' = IF offerBy = NoRequest THEN r ELSE offerBy
  /\ Goto(r, "done")
  /\ UNCHANGED <<tier, prefix, lock, wish, number, created, born>>

Create(r) ==
  \/ PostCreate(r) \/ PostConvertToFacture(r) \/ PostConvertToDevis(r)
  \/ AssertCanCreateInvoice(r) \/ CountInvoices(r) \/ CheckSource(r)
  \/ LockCompany(r) \/ AssignNumber(r) \/ InsertInvoice(r)
  \/ RecordInvoiceCreated(r) \/ StartTrialOfferWindow(r)

(* Mutant: an empty prefix is accepted. *)
UpdatePrefixUnchecked ==
  /\ lock = NoRequest
  /\ prefix' \in Texts \cup {""}
  /\ UNCHANGED <<tier, offerBy, lock, step, wish, number, created, born>>

(* updateProfile writes the Company row, so it waits for the lock.         *)
UpdatePrefix ==
  /\ lock = NoRequest
  /\ prefix' \in Texts
  /\ UNCHANGED <<tier, offerBy, lock, step, wish, number, created, born>>

(* A plan begins or ends. *)
ChangePlan ==
  /\ tier' = ~tier
  /\ UNCHANGED <<prefix, offerBy, lock, step, wish, number, created, born>>

(* The process restarts: requests in flight are lost, an open transaction  *)
(* is rolled back and its lock released.                                   *)
Crash ==
  /\ step' = [r \in Requests |-> IF step[r] = "new" THEN "new" ELSE "done"]
  /\ wish' = [r \in Requests |-> IF r \in created THEN wish[r] ELSE NoWish]
  /\ number' = [r \in Requests |-> IF r \in created THEN number[r] ELSE NoNumber]
  /\ lock' = NoRequest
  /\ UNCHANGED <<companyVars, created, born>>

Next ==
  \/ \E r \in Requests : Create(r)
  \/ UpdatePrefix \/ ChangePlan \/ Crash

Spec == Init /\ [][Next]_vars

-------------------------------------------------------------------------------
(* What must hold.                                                         *)

(* The numbers the application gives follow the order in which documents   *)
(* of a type were issued, without a gap: an automatic number is above      *)
(* those of every earlier row of its type, and right after one of them.    *)
ChronologicalNumbers ==
  \A r \in created : ~wish[r].explicit =>
    LET earlier == {number[q].n : q \in {q \in created :
                      wish[q].doc = wish[r].doc /\ born[q] < born[r]}}
    IN IsNext(number[r].n, earlier)

(* However conversions race, a devis becomes at most one facture, a facture *)
(* gets at most one retroactive devis, and a document's source is an       *)
(* earlier document of the right type.                                     *)
LineageIsSound ==
  \A r \in created :
    /\ ConvertedFromDevis(r) # NoRequest =>
         /\ wish[ConvertedFromDevis(r)].doc = "DEVIS"
         /\ ConvertedToFacture(ConvertedFromDevis(r)) = {r}
    /\ CreatedFromFacture(r) # NoRequest =>
         /\ wish[CreatedFromFacture(r)].doc = "FACTURE"
         /\ RetroactiveDevis(CreatedFromFacture(r)) = {r}
    /\ wish[r].source # NoRequest =>
         wish[r].source \in created /\ born[wish[r].source] < born[r]

(* The trial-offer window is opened by the company's first invoice only,   *)
(* however late its request gets to write it.                              *)
OfferIsForTheFirst ==
  offerBy # NoRequest => offerBy \in created /\ born[offerBy] = 1

(* createInvoiceRow calls a conflict on an automatic number "vanishingly   *)
(* unlikely given the row lock". (Numbers are unique across document       *)
(* types but computed within one, so the code does not ensure it.)         *)
AutomaticNeverConflicts ==
  \A r \in Requests : step[r] = "insert" /\ ~wish[r].explicit =>
    \A q \in created : number[q] # number[r]
===============================================================================
