---------------------------- MODULE DocumentProofs ----------------------------
(* Theorems about the parts of MCDocuments: InvoiceCreation, for every set  *)
(* of requests, texts, explicit numbers and bounds of the numbers;          *)
(* InvoiceBoard, for every number of calls, clicks and writes; and          *)
(* CatalogueSaving, for drafts of any length; then about all of them side   *)
(* by side.                                                                 *)
EXTENDS MCDocuments, FiniteSetTheorems, SequenceTheorems, TLAPS

-------------------------------------------------------------------------------
(* InvoiceCreation                                                          *)

(* A row exists exactly from the commit of its request on, and its rank is *)
(* the number of rows there were.                                          *)
RowInv ==
  /\ IsFiniteSet(created)
  /\ \A r \in created :
       /\ step[r] \in {"record", "offer", "done"}
       /\ number[r] \in Numbers
       /\ born[r] \in 1..Cardinality(created)
  /\ \A r \in Requests : step[r] \in {"record", "offer"} => r \in created
  /\ \A r \in Requests : step[r] = "offer" => born[r] = 1

(* The lock is held through the transaction.                               *)
LockInv ==
  \A r \in Requests : step[r] \in {"number", "insert"} => lock = r

(* A request keeps its explicit number, and the number given to one in the *)
(* transaction is still the next one when the row is inserted.             *)
NumberInv ==
  \A r \in Requests :
    /\ wish[r].explicit => number[r] \in Numbers
    /\ step[r] = "insert" => number[r] \in Numbers
    /\ step[r] = "insert" /\ ~wish[r].explicit =>
         IsNext(number[r].n, TrailingNumbers(wish[r].doc))

(* A request starts from an existing row, of the right type once checked.  *)
Checked(r) == step[r] \in {"lock", "number", "insert"} \/ r \in created

SourceInv ==
  \A r \in Requests :
    /\ wish[r].source \in created \cup {NoRequest}
    /\ wish[r].kind = "toDevis" => wish[r].source # NoRequest
    /\ Checked(r) /\ wish[r].source # NoRequest =>
         wish[wish[r].source].doc = IF wish[r].kind = "toDevis" THEN "FACTURE" ELSE "DEVIS"

(* Two rows of the same lineage are one, and a source is older.            *)
SameLineage(r, q) ==
  /\ wish[r].source # NoRequest /\ wish[q].source = wish[r].source
  /\ wish[q].kind = "toDevis" <=> wish[r].kind = "toDevis"

LineageInv ==
  \A r \in created :
    /\ \A q \in created : SameLineage(r, q) => q = r
    /\ wish[r].source # NoRequest => born[wish[r].source] < born[r]

IInv ==
  /\ TypeOK
  /\ RowInv
  /\ LockInv
  /\ NumberInv
  /\ SourceInv
  /\ LineageInv
  /\ ChronologicalNumbers
  /\ OfferIsForTheFirst

-------------------------------------------------------------------------------
(* Which steps write what.                                                 *)

(* A step of a request writes its own fields only.                         *)
LEMMA OwnFields ==
  ASSUME TypeOK, NEW r \in Requests, Create(r), IsFiniteSet(created)
  PROVE  /\ \E s \in Steps : step' = [step EXCEPT ![r] = s]
         /\ \E w \in Wishes : wish' = [wish EXCEPT ![r] = w]
         /\ \E n \in Numbers \cup {NoNumber} : number' = [number EXCEPT ![r] = n]
         /\ \E b \in Nat : born' = [born EXCEPT ![r] = b]
<1>1. ASSUME UNCHANGED wish PROVE \E w \in Wishes : wish' = [wish EXCEPT ![r] = w]
  <2>1. wish' = [wish EXCEPT ![r] = wish[r]] /\ wish[r] \in Wishes
    BY <1>1 DEF TypeOK
  <2> QED
    BY <2>1
<1>2. ASSUME UNCHANGED number
      PROVE  \E n \in Numbers \cup {NoNumber} : number' = [number EXCEPT ![r] = n]
  <2>1. number' = [number EXCEPT ![r] = number[r]] /\ number[r] \in Numbers \cup {NoNumber}
    BY <1>2 DEF TypeOK
  <2> QED
    BY <2>1
<1>3. ASSUME UNCHANGED born PROVE \E b \in Nat : born' = [born EXCEPT ![r] = b]
  <2>1. born' = [born EXCEPT ![r] = born[r]] /\ born[r] \in Nat
    BY <1>3 DEF TypeOK
  <2> QED
    BY <2>1
<1>4. ASSUME Refuse(r)
      PROVE  /\ \E w \in Wishes : wish' = [wish EXCEPT ![r] = w]
             /\ \E n \in Numbers \cup {NoNumber} : number' = [number EXCEPT ![r] = n]
             /\ UNCHANGED born
  <2>1. NoWish \in Wishes
    BY DEF NoWish, Wishes
  <2> QED
    BY <1>4, <2>1 DEF Refuse
<1>5. CASE PostCreate(r) \/ PostConvertToFacture(r) \/ PostConvertToDevis(r)
  <2>1. PICK w \in Wishes, num \in Numbers \cup {NoNumber} : Ask(r, w, num)
    BY <1>5, NumbersAssumption
       DEF PostCreate, PostConvertToFacture, PostConvertToDevis, Wishes, TypeOK
  <2> QED
    BY <1>3, <2>1 DEF Ask, Goto, Steps
<1>6. CASE AssertCanCreateInvoice(r) \/ CountInvoices(r) \/ CheckSource(r)
  <2>1. \E s \in Steps : step' = [step EXCEPT ![r] = s]
    BY <1>6 DEF AssertCanCreateInvoice, CountInvoices, CheckSource, Refuse, Goto, Steps
  <2>2. Refuse(r) \/ UNCHANGED <<wish, number, born>>
    BY <1>6 DEF AssertCanCreateInvoice, CountInvoices, CheckSource
  <2> QED
    BY <1>1, <1>2, <1>3, <1>4, <2>1, <2>2
<1>7. CASE LockCompany(r) \/ RecordInvoiceCreated(r) \/ StartTrialOfferWindow(r)
  <2>1. \E s \in Steps : step' = [step EXCEPT ![r] = s]
    BY <1>7 DEF LockCompany, RecordInvoiceCreated, StartTrialOfferWindow, Goto, Steps
  <2>2. UNCHANGED <<wish, number, born>>
    BY <1>7 DEF LockCompany, RecordInvoiceCreated, StartTrialOfferWindow
  <2> QED
    BY <1>1, <1>2, <1>3, <2>1, <2>2
<1>8. CASE AssignNumber(r)
  <2>1. \E s \in Steps : step' = [step EXCEPT ![r] = s]
    BY <1>8 DEF AssignNumber, Goto, Steps
  <2>2. UNCHANGED <<wish, born>>
    BY <1>8 DEF AssignNumber
  <2>3. CASE UNCHANGED number
    BY <1>1, <1>2, <1>3, <2>1, <2>2, <2>3
  <2>4. CASE \E n \in 1..MaxNumber : number' = [number EXCEPT ![r] =
                  [text |-> IF wish[r].doc = "DEVIS" THEN DevisPrefix ELSE prefix, n |-> n]]
    <3>1. PICK n \in 1..MaxNumber : number' = [number EXCEPT ![r] =
                  [text |-> IF wish[r].doc = "DEVIS" THEN DevisPrefix ELSE prefix, n |-> n]]
      BY <2>4
    <3>2. [text |-> IF wish[r].doc = "DEVIS" THEN DevisPrefix ELSE prefix, n |-> n] \in Numbers
      BY TextsAssumption, NumbersAssumption DEF Numbers, TypeOK
    <3> QED
      BY <1>1, <1>3, <2>1, <2>2, <3>1, <3>2
  <2> QED
    BY <1>8, <2>3, <2>4 DEF AssignNumber
<1>9. CASE InsertInvoice(r)
  <2>1. \E s \in Steps : step' = [step EXCEPT ![r] = s]
    BY <1>9 DEF InsertInvoice, Refuse, Goto, Steps
  <2>2. Cardinality(created) + 1 \in Nat
    BY FS_CardinalityType
  <2>3. CASE Refuse(r)
    BY <1>3, <1>4, <2>1, <2>3
  <2>4. CASE UNCHANGED <<wish, number>> /\ born' = [born EXCEPT ![r] = Cardinality(created) + 1]
    BY <1>1, <1>2, <2>1, <2>2, <2>4
  <2> QED
    BY <1>9, <2>3, <2>4 DEF InsertInvoice
<1> QED
  BY <1>5, <1>6, <1>7, <1>8, <1>9 DEF Create

(* The rest of a request's step.                                           *)
LEMMA SharedFields ==
  ASSUME NEW r \in Requests, Create(r)
  PROVE  /\ UNCHANGED <<tier, prefix>>
         /\ offerBy' \in {offerBy, r} /\ lock' \in {lock, r, NoRequest}
         /\ created' \in {created, created \cup {r}}
<1>1. CASE PostCreate(r) \/ PostConvertToFacture(r) \/ PostConvertToDevis(r)
  BY <1>1 DEF PostCreate, PostConvertToFacture, PostConvertToDevis, Ask, companyVars
<1>2. CASE AssertCanCreateInvoice(r) \/ CountInvoices(r) \/ CheckSource(r)
  BY <1>2 DEF AssertCanCreateInvoice, CountInvoices, CheckSource, Refuse, companyVars
<1>3. CASE LockCompany(r) \/ AssignNumber(r) \/ InsertInvoice(r)
  BY <1>3 DEF LockCompany, AssignNumber, InsertInvoice, Refuse, companyVars
<1>4. CASE RecordInvoiceCreated(r) \/ StartTrialOfferWindow(r)
  BY <1>4 DEF RecordInvoiceCreated, StartTrialOfferWindow, companyVars
<1> QED
  BY <1>1, <1>2, <1>3, <1>4 DEF Create

(* Rows appear only at the end of a transaction, and are never rewritten.  *)
LEMMA RowsAreKept ==
  ASSUME TypeOK, RowInv, [Next]_vars
  PROVE  /\ \A r \in created :
              wish'[r] = wish[r] /\ number'[r] = number[r] /\ born'[r] = born[r]
         /\ \/ created' = created
            \/ \E r \in Requests : InsertInvoice(r) /\ Unique(r) /\ created' = created \cup {r}
<1>1. ASSUME NEW r \in Requests, Create(r)
      PROVE  \/ created' = created
             \/ InsertInvoice(r) /\ Unique(r) /\ created' = created \cup {r}
  BY <1>1 DEF Create, PostCreate, PostConvertToFacture, PostConvertToDevis, Ask,
     AssertCanCreateInvoice, CountInvoices, CheckSource, LockCompany, AssignNumber,
     InsertInvoice, RecordInvoiceCreated, StartTrialOfferWindow, Refuse
<1>2. ASSUME NEW r \in Requests, Create(r), NEW q \in created
      PROVE  wish'[q] = wish[q] /\ number'[q] = number[q] /\ born'[q] = born[q]
  <2>1. CASE q # r
    BY <1>2, <2>1, OwnFields DEF TypeOK, RowInv
  <2>2. CASE q = r
    <3>1. step[r] \in {"record", "offer", "done"}
      BY <2>2 DEF RowInv
    <3>2. RecordInvoiceCreated(r) \/ StartTrialOfferWindow(r)
      BY <1>2, <3>1 DEF Create, PostCreate, PostConvertToFacture, PostConvertToDevis, Ask,
         AssertCanCreateInvoice, CountInvoices, CheckSource, LockCompany, AssignNumber,
         InsertInvoice
    <3> QED
      BY <2>2, <3>2 DEF RecordInvoiceCreated, StartTrialOfferWindow
  <2> QED
    BY <2>1, <2>2
<1>3. CASE UpdatePrefix \/ ChangePlan \/ UNCHANGED vars
  BY <1>3 DEF UpdatePrefix, ChangePlan, vars
<1>4. CASE Crash
  BY <1>4 DEF Crash, TypeOK
<1> QED
  BY <1>1, <1>2, <1>3, <1>4 DEF Next

-------------------------------------------------------------------------------
(* One lemma per part of the invariant.                                    *)

(* Every action keeps the types.                                           *)
LEMMA TypeStep == ASSUME TypeOK, RowInv, [Next]_vars PROVE TypeOK'
<1>1. ASSUME NEW r \in Requests, Create(r) PROVE TypeOK'
  BY <1>1, OwnFields, SharedFields DEF TypeOK, RowInv
<1>2. CASE UpdatePrefix \/ ChangePlan \/ UNCHANGED vars
  BY <1>2 DEF UpdatePrefix, ChangePlan, vars, companyVars, TypeOK
<1>3. CASE Crash
  <2>1. NoWish \in Wishes
    BY DEF NoWish, Wishes
  <2> QED
    BY <1>3, <2>1 DEF Crash, TypeOK, Steps, companyVars
<1> QED
  BY <1>1, <1>2, <1>3 DEF Next

(* One request at a time is inside the transaction.                        *)
LEMMA LockStep == ASSUME TypeOK, RowInv, LockInv, [Next]_vars PROVE LockInv'
<1>1. ASSUME NEW r \in Requests, Create(r) PROVE LockInv'
  <2>1. \A q \in Requests \ {r} : step'[q] = step[q]
    BY <1>1, OwnFields DEF TypeOK, RowInv
  <2>2. CASE LockCompany(r) \/ AssignNumber(r)
    BY <1>1, <2>1, <2>2, NamesAssumption DEF LockCompany, AssignNumber, Goto, TypeOK, LockInv
  <2>3. CASE InsertInvoice(r)
    <3>1. step'[r] \in {"record", "done"}
      BY <2>3 DEF InsertInvoice, Refuse, Goto, TypeOK
    <3>2. lock = r
      BY <2>3 DEF InsertInvoice, LockInv
    <3> QED
      BY <2>1, <3>1, <3>2 DEF LockInv
  <2>4. CASE lock' = lock /\ step'[r] \notin {"number", "insert"}
    BY <2>1, <2>4 DEF LockInv
  <2> QED
    BY <1>1, <2>2, <2>3, <2>4 DEF Create, PostCreate, PostConvertToFacture, PostConvertToDevis,
       Ask, AssertCanCreateInvoice, CountInvoices, CheckSource, RecordInvoiceCreated,
       StartTrialOfferWindow, Refuse, Goto, TypeOK
<1>2. CASE UpdatePrefix \/ ChangePlan \/ UNCHANGED vars
  BY <1>2 DEF UpdatePrefix, ChangePlan, vars, LockInv
<1>3. CASE Crash
  BY <1>3 DEF Crash, LockInv, TypeOK
<1> QED
  BY <1>1, <1>2, <1>3 DEF Next

(* A request whose row is committed is past its insert.                    *)
LEMMA RowStep ==
  ASSUME TypeOK, RowInv, NumberInv, [Next]_vars PROVE RowInv'
<1>1. ASSUME NEW r \in Requests, InsertInvoice(r), Unique(r), created' = created \cup {r}
      PROVE  RowInv'
  <2>1. r \notin created /\ number[r] \in Numbers
    BY <1>1 DEF InsertInvoice, RowInv, NumberInv
  <2>2. /\ IsFiniteSet(created') /\ Cardinality(created') = Cardinality(created) + 1
        /\ Cardinality(created) \in Nat
    BY <1>1, <2>1, FS_AddElement, FS_CardinalityType DEF RowInv
  <2>3. born'[r] = Cardinality(created) + 1 /\ step'[r] = "record" /\ number'[r] = number[r]
    BY <1>1, <2>1 DEF InsertInvoice, Goto, Refuse, TypeOK
  <2>4. \A q \in Requests \ {r} :
          born'[q] = born[q] /\ step'[q] = step[q] /\ number'[q] = number[q]
    BY <1>1, OwnFields DEF Create, TypeOK, RowInv
  <2>5. \A q \in created' : /\ step'[q] \in {"record", "offer", "done"}
                            /\ number'[q] \in Numbers
                            /\ born'[q] \in 1..Cardinality(created')
    BY <1>1, <2>1, <2>2, <2>3, <2>4 DEF RowInv, TypeOK
  <2>6. \A q \in Requests : step'[q] \in {"record", "offer"} => q \in created'
    BY <1>1, <2>3, <2>4 DEF RowInv
  <2>7. \A q \in Requests : step'[q] = "offer" => born'[q] = 1
    BY <2>3, <2>4 DEF RowInv
  <2> QED
    BY <2>2, <2>5, <2>6, <2>7 DEF RowInv
<1>2. ASSUME NEW r \in Requests, Create(r), created' = created PROVE RowInv'
  <2>1. \A q \in Requests \ {r} : step'[q] = step[q] /\ born'[q] = born[q]
    BY <1>2, OwnFields DEF TypeOK, RowInv
  <2>2. \A q \in created : number'[q] = number[q] /\ born'[q] = born[q]
    BY <1>2, RowsAreKept DEF Next
  <2>3. CASE RecordInvoiceCreated(r)
    <3>1. /\ r \in created /\ step'[r] \in {"offer", "done"}
          /\ step'[r] = "offer" => Cardinality(created) = 1
      BY <2>3 DEF RecordInvoiceCreated, RowInv, Goto, TypeOK
    <3>2. step'[r] = "offer" => born[r] = 1
      BY <3>1 DEF RowInv
    <3> QED
      BY <1>2, <2>1, <2>2, <3>1, <3>2 DEF RowInv, TypeOK
  <2>4. CASE StartTrialOfferWindow(r)
    <3>1. step'[r] = "done"
      BY <2>4 DEF StartTrialOfferWindow, Goto, TypeOK
    <3> QED
      BY <1>2, <2>1, <2>2, <3>1 DEF RowInv, TypeOK
  <2>5. CASE step[r] \notin {"record", "offer", "done"} /\ step'[r] \notin {"record", "offer"}
    <3>1. r \notin created
      BY <2>5 DEF RowInv
    <3> QED
      BY <1>2, <2>1, <2>2, <2>5, <3>1 DEF RowInv, TypeOK
  <2>6. InsertInvoice(r) => step'[r] = "done" \/ r \in created'
    BY <1>2 DEF InsertInvoice, Refuse, Goto, TypeOK
  <2>7. InsertInvoice(r) => step[r] = "insert" /\ r \notin created
    BY DEF InsertInvoice, RowInv
  <2> QED
    BY <1>2, <2>3, <2>4, <2>5, <2>6, <2>7 DEF Create, PostCreate, PostConvertToFacture,
       PostConvertToDevis, Ask, AssertCanCreateInvoice, CountInvoices, CheckSource,
       LockCompany, AssignNumber, Refuse, Goto, TypeOK
<1>3. CASE UpdatePrefix \/ ChangePlan \/ UNCHANGED vars
  BY <1>3 DEF UpdatePrefix, ChangePlan, vars, RowInv
<1>4. CASE Crash
  BY <1>4 DEF Crash, RowInv, TypeOK
<1> QED
  BY <1>1, <1>2, <1>3, <1>4, RowsAreKept DEF Next

(* The number computed under the lock is still the next one at the insert. *)
LEMMA NumberStep ==
  ASSUME TypeOK, RowInv, LockInv, NumberInv, [Next]_vars PROVE NumberInv'
<1> DEFINE Good(r) ==
      /\ wish[r].explicit => number[r] \in Numbers
      /\ step[r] = "insert" => number[r] \in Numbers
      /\ step[r] = "insert" /\ ~wish[r].explicit =>
           IsNext(number[r].n, TrailingNumbers(wish[r].doc))
<1>1. ASSUME NEW r \in Requests, Create(r), NEW q \in Requests \ {r} PROVE Good(q)'
  <2>1. step'[q] = step[q] /\ wish'[q] = wish[q] /\ number'[q] = number[q]
    BY <1>1, OwnFields DEF TypeOK, RowInv
  <2>2. CASE created' = created
    <3>1. \A p \in created : wish'[p] = wish[p] /\ number'[p] = number[p]
      BY <1>1, RowsAreKept DEF Next
    <3>2. {number'[p].n : p \in {p \in created' : wish'[p].doc = wish'[q].doc}}
            = TrailingNumbers(wish[q].doc)
      BY <2>1, <2>2, <3>1 DEF TrailingNumbers
    <3> QED
      BY <1>1, <2>1, <3>2 DEF NumberInv, TrailingNumbers
  <2>3. CASE InsertInvoice(r)
    <3>1. step[q] # "insert"
      BY <1>1, <2>3 DEF InsertInvoice, LockInv
    <3> QED
      BY <1>1, <2>1, <3>1 DEF NumberInv
  <2> QED
    BY <1>1, <2>2, <2>3, RowsAreKept DEF Create, PostCreate, PostConvertToFacture,
       PostConvertToDevis, Ask, AssertCanCreateInvoice, CountInvoices, CheckSource,
       LockCompany, AssignNumber, RecordInvoiceCreated, StartTrialOfferWindow, Refuse
<1>2. ASSUME NEW r \in Requests, AssignNumber(r) PROVE Good(r)'
  <2>1. step'[r] = "insert" /\ wish' = wish /\ created' = created
    BY <1>2 DEF AssignNumber, Goto, TypeOK
  <2>2. CASE wish[r].explicit
    <3>1. number' = number
      BY <1>2, <2>2 DEF AssignNumber
    <3> QED
      BY <2>1, <2>2, <3>1 DEF NumberInv
  <2>3. CASE ~wish[r].explicit
    <3>1. PICK n \in 1..MaxNumber :
            /\ IsNext(n, TrailingNumbers(wish[r].doc))
            /\ number' = [number EXCEPT ![r] =
                 [text |-> IF wish[r].doc = "DEVIS" THEN DevisPrefix ELSE prefix, n |-> n]]
      BY <1>2, <2>3 DEF AssignNumber
    <3>2. number'[r].n = n /\ number'[r] \in Numbers
      BY <3>1, TextsAssumption, NumbersAssumption DEF Numbers, TypeOK
    <3>3. r \notin created
      BY <1>2 DEF AssignNumber, RowInv
    <3>4. {number'[p].n : p \in {p \in created' : wish'[p].doc = wish'[r].doc}}
            = TrailingNumbers(wish[r].doc)
      BY <2>1, <3>1, <3>3 DEF TrailingNumbers, TypeOK
    <3> QED
      BY <2>1, <2>3, <3>1, <3>2, <3>4 DEF TrailingNumbers
  <2> QED
    BY <2>2, <2>3
<1>3. ASSUME NEW r \in Requests, PostCreate(r) \/ PostConvertToFacture(r) \/ PostConvertToDevis(r)
      PROVE  Good(r)'
  <2>1. step'[r] = "gate"
    BY <1>3 DEF PostCreate, PostConvertToFacture, PostConvertToDevis, Ask, Goto, TypeOK
  <2>2. CASE PostCreate(r)
    <3>1. PICK doc \in {"FACTURE", "DEVIS"}, mode \in {"GUIDED", "MANUAL"},
               source \in created \cup {NoRequest}, num \in ExplicitNumbers \cup {NoNumber} :
            Ask(r, [kind |-> "create", doc |-> doc, mode |-> mode,
                    explicit |-> num # NoNumber, source |-> source], num)
      BY <2>2 DEF PostCreate
    <3>2. number'[r] = num /\ wish'[r].explicit = (num # NoNumber)
      BY <3>1 DEF Ask, TypeOK
    <3> QED
      BY <2>1, <3>1, <3>2, NumbersAssumption
  <2>3. CASE PostConvertToFacture(r)
    <3>1. ~wish'[r].explicit
      BY <2>3 DEF PostConvertToFacture, Ask, TypeOK
    <3> QED
      BY <2>1, <3>1
  <2>4. CASE PostConvertToDevis(r)
    <3>1. number'[r] \in ExplicitNumbers
      BY <2>4 DEF PostConvertToDevis, Ask, TypeOK
    <3> QED
      BY <2>1, <3>1, NumbersAssumption
  <2> QED
    BY <1>3, <2>2, <2>3, <2>4
<1>4. ASSUME NEW r \in Requests, Create(r), step'[r] # "insert",
             Refuse(r) \/ UNCHANGED <<wish, number>>
      PROVE  Good(r)'
  BY <1>4 DEF Refuse, NoWish, NumberInv, TypeOK
<1>5. ASSUME NEW r \in Requests, Create(r) PROVE Good(r)'
  <2>1. CASE AssertCanCreateInvoice(r) \/ CountInvoices(r) \/ CheckSource(r)
    BY <1>4, <1>5, <2>1 DEF AssertCanCreateInvoice, CountInvoices, CheckSource, Refuse, Goto, TypeOK
  <2>2. CASE LockCompany(r) \/ InsertInvoice(r) \/ RecordInvoiceCreated(r) \/ StartTrialOfferWindow(r)
    BY <1>4, <1>5, <2>2 DEF LockCompany, InsertInvoice, RecordInvoiceCreated,
       StartTrialOfferWindow, Refuse, Goto, TypeOK
  <2> QED
    BY <1>2, <1>3, <1>5, <2>1, <2>2 DEF Create
<1>6. ASSUME NEW r \in Requests, Create(r) PROVE NumberInv'
  BY <1>1, <1>5, <1>6 DEF NumberInv
<1>7. CASE UpdatePrefix \/ ChangePlan \/ UNCHANGED vars
  BY <1>7 DEF UpdatePrefix, ChangePlan, vars, NumberInv, TrailingNumbers
<1>8. CASE Crash
  BY <1>8 DEF Crash, NumberInv, RowInv, TypeOK, NoWish
<1> QED
  BY <1>6, <1>7, <1>8 DEF Next

(* The source a request checked keeps its type and its place.              *)
LEMMA SourceStep ==
  ASSUME TypeOK, RowInv, SourceInv, [Next]_vars PROVE SourceInv'
<1> DEFINE Good(r) ==
      /\ wish[r].source \in created \cup {NoRequest}
      /\ wish[r].kind = "toDevis" => wish[r].source # NoRequest
      /\ Checked(r) /\ wish[r].source # NoRequest =>
           wish[wish[r].source].doc = IF wish[r].kind = "toDevis" THEN "FACTURE" ELSE "DEVIS"
<1>1. created \subseteq created' /\ \A p \in created : wish'[p] = wish[p]
  BY RowsAreKept
<1>2. ASSUME NEW q \in Requests, wish'[q] = wish[q], Checked(q)' => Checked(q)
      PROVE  Good(q)'
  BY <1>1, <1>2 DEF SourceInv
<1>3. ASSUME NEW q \in Requests, wish'[q] = NoWish PROVE Good(q)'
  BY <1>3 DEF NoWish
<1>4. ASSUME NEW r \in Requests, Create(r), NEW q \in Requests \ {r} PROVE Good(q)'
  <2>1. step'[q] = step[q] /\ wish'[q] = wish[q]
    BY <1>4, OwnFields DEF TypeOK, RowInv
  <2>2. q \in created' => q \in created
    BY <1>4, SharedFields
  <2> QED
    BY <1>2, <2>1, <2>2 DEF Checked
<1>5. ASSUME NEW r \in Requests, PostCreate(r) \/ PostConvertToFacture(r) \/ PostConvertToDevis(r)
      PROVE  Good(r)'
  <2>1. step[r] = "new" /\ step'[r] = "gate" /\ created' = created
    BY <1>5 DEF PostCreate, PostConvertToFacture, PostConvertToDevis, Ask, Goto, TypeOK
  <2>2. ~Checked(r)'
    BY <2>1 DEF Checked, RowInv
  <2>3. wish'[r].source \in created \cup {NoRequest}
    BY <1>5 DEF PostCreate, PostConvertToFacture, PostConvertToDevis, Ask, TypeOK
  <2>4. wish'[r].kind = "toDevis" => wish'[r].source # NoRequest
    BY <1>5, NamesAssumption DEF PostCreate, PostConvertToFacture, PostConvertToDevis, Ask, TypeOK
  <2> QED
    BY <2>1, <2>2, <2>3, <2>4
<1>6. ASSUME NEW r \in Requests, CheckSource(r) PROVE Good(r)'
  <2>1. CASE Refuse(r)
    BY <1>3, <2>1 DEF Refuse, TypeOK
  <2>2. CASE SourceAccepted(r) /\ wish' = wish /\ created' = created
    <3>1. wish[r].kind \in {"create", "toFacture", "toDevis"}
      BY DEF TypeOK, Wishes
    <3>2. wish[r].source # NoRequest =>
            wish[wish[r].source].doc = IF wish[r].kind = "toDevis" THEN "FACTURE" ELSE "DEVIS"
      BY <2>2, <3>1 DEF SourceAccepted
    <3> QED
      BY <2>2, <3>2 DEF SourceInv
  <2> QED
    BY <1>6, <2>1, <2>2 DEF CheckSource
<1>7. ASSUME NEW r \in Requests, AssertCanCreateInvoice(r) \/ CountInvoices(r) PROVE Good(r)'
  <2>1. CASE Refuse(r)
    BY <1>3, <2>1 DEF Refuse, TypeOK
  <2>2. CASE wish' = wish /\ created' = created /\ step'[r] \in {"count", "check"}
    BY <1>2, <2>2 DEF Checked
  <2> QED
    BY <1>7, <2>1, <2>2 DEF AssertCanCreateInvoice, CountInvoices, Goto, TypeOK
<1>8. ASSUME NEW r \in Requests,
             LockCompany(r) \/ AssignNumber(r) \/ InsertInvoice(r)
               \/ RecordInvoiceCreated(r) \/ StartTrialOfferWindow(r)
      PROVE  Good(r)'
  <2>1. CASE Refuse(r)
    BY <1>3, <2>1 DEF Refuse, TypeOK
  <2>2. CASE ~Refuse(r)
    <3>1. wish' = wish
      BY <1>8, <2>2 DEF LockCompany, AssignNumber, InsertInvoice, RecordInvoiceCreated,
                        StartTrialOfferWindow
    <3>2. Checked(r)
      BY <1>8 DEF LockCompany, AssignNumber, InsertInvoice, RecordInvoiceCreated,
                  StartTrialOfferWindow, Checked, RowInv
    <3> QED
      BY <1>2, <3>1, <3>2
  <2> QED
    BY <2>1, <2>2
<1>9. ASSUME NEW r \in Requests, Create(r) PROVE SourceInv'
  <2>1. Good(r)'
    BY <1>5, <1>6, <1>7, <1>8, <1>9 DEF Create
  <2> QED
    BY <1>4, <1>9, <2>1 DEF SourceInv
<1>10. CASE UpdatePrefix \/ ChangePlan \/ UNCHANGED vars
  BY <1>2, <1>10 DEF UpdatePrefix, ChangePlan, vars, SourceInv, Checked
<1>11. CASE Crash
  <2>1. ASSUME NEW q \in Requests PROVE Good(q)'
    <3>1. CASE q \in created
      BY <1>2, <1>11, <3>1 DEF Crash, Checked
    <3>2. CASE q \notin created
      BY <1>3, <1>11, <3>2 DEF Crash
    <3> QED
      BY <3>1, <3>2
  <2> QED
    BY <2>1 DEF SourceInv
<1> QED
  BY <1>9, <1>10, <1>11 DEF Next

(* The rank given to a new row is above all others.                        *)
LEMMA NewRank ==
  ASSUME TypeOK, RowInv, NEW r \in Requests, InsertInvoice(r), r \in created'
  PROVE  /\ r \notin created /\ born'[r] \in Nat
         /\ \A q \in created : born[q] \in Nat /\ born[q] < born'[r]
<1>1. r \notin created
  BY DEF InsertInvoice, RowInv
<1>2. born'[r] = Cardinality(created) + 1
  BY <1>1 DEF InsertInvoice, Refuse, TypeOK
<1>3. Cardinality(created) \in Nat
  BY FS_CardinalityType DEF RowInv
<1> QED
  BY <1>1, <1>2, <1>3 DEF RowInv

(* No action gives a document a second conversion.                         *)
LEMMA LineageStep ==
  ASSUME TypeOK, RowInv, SourceInv, LineageInv, [Next]_vars PROVE LineageInv'
<1>1. \A p \in created : wish'[p] = wish[p] /\ born'[p] = born[p]
  BY RowsAreKept
<1>2. \A p \in created : wish[p].source \in created \cup {NoRequest}
  BY DEF SourceInv, TypeOK
<1>3. CASE created' = created
  BY <1>1, <1>2, <1>3 DEF LineageInv, SameLineage
<1>4. ASSUME NEW r \in Requests, InsertInvoice(r), Unique(r), created' = created \cup {r}
      PROVE  LineageInv'
  <2>1. r \notin created /\ \A q \in created : born[q] < born'[r]
    BY <1>4, NewRank
  <2>2. wish'[r] = wish[r]
    BY <1>4, <2>1 DEF InsertInvoice, Refuse
  <2>3. wish[r].source \in created \cup {NoRequest}
    BY DEF SourceInv
  <2>4. \A q \in created : ~SameLineage(r, q) /\ ~SameLineage(q, r)
    BY <1>4 DEF Unique, ConvertedToFacture, RetroactiveDevis, ConvertedFromDevis,
                CreatedFromFacture, SameLineage
  <2> QED
    BY <1>1, <1>2, <1>4, <2>1, <2>2, <2>3, <2>4 DEF LineageInv, SameLineage
<1> QED
  BY <1>3, <1>4, RowsAreKept

(* No action gives a number out of sequence.                               *)
LEMMA ChronologyStep ==
  ASSUME TypeOK, RowInv, NumberInv, ChronologicalNumbers, [Next]_vars
  PROVE  ChronologicalNumbers'
<1>1. \A p \in created : wish'[p] = wish[p] /\ number'[p] = number[p] /\ born'[p] = born[p]
  BY RowsAreKept
<1>2. CASE created' = created
  <2>1. ASSUME NEW p \in created, ~wish'[p].explicit
        PROVE  IsNext(number'[p].n, {number'[q].n : q \in {q \in created' :
                 wish'[q].doc = wish'[p].doc /\ born'[q] < born'[p]}})
    <3> DEFINE E == {q \in created : wish[q].doc = wish[p].doc /\ born[q] < born[p]}
    <3>1. {q \in created' : wish'[q].doc = wish'[p].doc /\ born'[q] < born'[p]} = E
      BY <1>1, <1>2
    <3>2. {number'[q].n : q \in E} = {number[q].n : q \in E}
      BY <1>1
    <3>3. IsNext(number[p].n, {number[q].n : q \in E})
      BY <1>1, <2>1 DEF ChronologicalNumbers
    <3> QED
      BY <1>1, <3>1, <3>2, <3>3
  <2> QED
    BY <1>2, <2>1 DEF ChronologicalNumbers
<1>3. ASSUME NEW r \in Requests, InsertInvoice(r), Unique(r), created' = created \cup {r}
      PROVE  ChronologicalNumbers'
  <2>1. /\ r \notin created /\ born'[r] \in Nat
        /\ \A q \in created : born[q] \in Nat /\ born[q] < born'[r]
    BY <1>3, NewRank
  <2>2. wish'[r] = wish[r] /\ number'[r] = number[r] /\ step[r] = "insert"
    BY <1>3, <2>1 DEF InsertInvoice, Refuse
  <2> DEFINE Earlier(p) == {q \in created : wish[q].doc = wish[p].doc /\ born[q] < born[p]}
  <2>3. ASSUME NEW p \in created
        PROVE  {q \in created' : wish'[q].doc = wish'[p].doc /\ born'[q] < born'[p]} = Earlier(p)
    BY <1>1, <1>3, <2>1
  <2>4. {q \in created' : wish'[q].doc = wish'[r].doc /\ born'[q] < born'[r]}
          = {q \in created : wish[q].doc = wish[r].doc}
    BY <1>1, <1>3, <2>1, <2>2
  <2>5. ASSUME NEW p \in created, ~wish'[p].explicit
        PROVE  IsNext(number'[p].n, {number'[q].n : q \in {q \in created' :
                 wish'[q].doc = wish'[p].doc /\ born'[q] < born'[p]}})
    <3>1. {number'[q].n : q \in Earlier(p)} = {number[q].n : q \in Earlier(p)}
      BY <1>1
    <3>2. IsNext(number[p].n, {number[q].n : q \in Earlier(p)})
      BY <1>1, <2>5 DEF ChronologicalNumbers
    <3> QED
      BY <1>1, <2>3, <3>1, <3>2
  <2>6. ASSUME ~wish'[r].explicit
        PROVE  IsNext(number'[r].n, {number'[q].n : q \in {q \in created' :
                 wish'[q].doc = wish'[r].doc /\ born'[q] < born'[r]}})
    <3>1. {number'[q].n : q \in {q \in created : wish[q].doc = wish[r].doc}}
            = TrailingNumbers(wish[r].doc)
      BY <1>1 DEF TrailingNumbers
    <3> QED
      BY <2>2, <2>4, <2>6, <3>1 DEF NumberInv
  <2> QED
    BY <1>3, <2>5, <2>6 DEF ChronologicalNumbers
<1> QED
  BY <1>2, <1>3, RowsAreKept

(* No action lets a later invoice open the trial-offer window.             *)
LEMMA OfferStep ==
  ASSUME TypeOK, RowInv, OfferIsForTheFirst, [Next]_vars PROVE OfferIsForTheFirst'
<1>1. created \subseteq created' /\ \A p \in created : born'[p] = born[p]
  BY RowsAreKept
<1>2. ASSUME NEW r \in Requests, StartTrialOfferWindow(r) PROVE OfferIsForTheFirst'
  BY <1>1, <1>2 DEF StartTrialOfferWindow, RowInv, OfferIsForTheFirst
<1>3. CASE offerBy' = offerBy
  BY <1>1, <1>3 DEF OfferIsForTheFirst
<1>4. (\E r \in Requests : StartTrialOfferWindow(r)) \/ offerBy' = offerBy
  BY DEF Next, Create, PostCreate, PostConvertToFacture, PostConvertToDevis, Ask,
     AssertCanCreateInvoice, CountInvoices, CheckSource, LockCompany, AssignNumber,
     InsertInvoice, RecordInvoiceCreated, Refuse, UpdatePrefix, ChangePlan, Crash,
     vars, companyVars
<1> QED
  BY <1>2, <1>3, <1>4

-------------------------------------------------------------------------------
(* The theorems.                                                           *)

(* The inductive invariant holds.                                          *)
THEOREM Invariance == Spec => []IInv
<1>1. Init => IInv
  <2> SUFFICES ASSUME Init PROVE IInv
    OBVIOUS
  <2>1. TypeOK
    BY DEF Init, TypeOK, Steps, Wishes, NoWish
  <2>2. RowInv
    BY FS_EmptySet DEF Init, RowInv
  <2>3. LockInv /\ NumberInv /\ SourceInv
    BY DEF Init, LockInv, NumberInv, SourceInv, Checked, NoWish
  <2>4. LineageInv /\ ChronologicalNumbers /\ OfferIsForTheFirst
    BY DEF Init, LineageInv, ChronologicalNumbers, OfferIsForTheFirst
  <2> QED
    BY <2>1, <2>2, <2>3, <2>4 DEF IInv
<1>2. IInv /\ [Next]_vars => IInv'
  BY TypeStep, RowStep, LockStep, NumberStep, SourceStep, LineageStep,
     ChronologyStep, OfferStep DEF IInv
<1> QED
  BY <1>1, <1>2, PTL DEF Spec

(* The types of the state. *)
THEOREM TypeCorrect == Spec => []TypeOK
<1>1. IInv => TypeOK
  BY DEF IInv
<1> QED
  BY <1>1, Invariance, PTL

(* Automatic numbers are chronological and without gaps, whatever the      *)
(* concurrent creations, overrides, prefix changes and restarts.           *)
THEOREM NumbersFollow == Spec => []ChronologicalNumbers
<1>1. IInv => ChronologicalNumbers
  BY DEF IInv
<1> QED
  BY <1>1, Invariance, PTL

(* A devis becomes at most one facture, a facture gets at most one         *)
(* retroactive devis, and lineage never runs in a circle.                  *)
THEOREM LineageHolds == Spec => []LineageIsSound
<1>1. IInv => LineageIsSound
  <2> SUFFICES ASSUME IInv, NEW r \in created
               PROVE  /\ ConvertedFromDevis(r) # NoRequest =>
                           /\ wish[ConvertedFromDevis(r)].doc = "DEVIS"
                           /\ ConvertedToFacture(ConvertedFromDevis(r)) = {r}
                      /\ CreatedFromFacture(r) # NoRequest =>
                           /\ wish[CreatedFromFacture(r)].doc = "FACTURE"
                           /\ RetroactiveDevis(CreatedFromFacture(r)) = {r}
                      /\ wish[r].source # NoRequest =>
                           wish[r].source \in created /\ born[wish[r].source] < born[r]
    BY DEF LineageIsSound
  <2>1. r \in Requests /\ \A q \in created : SameLineage(r, q) => q = r
    BY DEF IInv, TypeOK, LineageInv
  <2>2. wish[r].source # NoRequest =>
          /\ wish[r].source \in created /\ born[wish[r].source] < born[r]
          /\ wish[wish[r].source].doc = IF wish[r].kind = "toDevis" THEN "FACTURE" ELSE "DEVIS"
    BY <2>1 DEF IInv, SourceInv, LineageInv, Checked
  <2>3. ASSUME ConvertedFromDevis(r) # NoRequest
        PROVE  ConvertedToFacture(ConvertedFromDevis(r)) = {r}
    BY <2>1, <2>3, NamesAssumption DEF ConvertedToFacture, ConvertedFromDevis, SameLineage
  <2>4. ASSUME CreatedFromFacture(r) # NoRequest
        PROVE  RetroactiveDevis(CreatedFromFacture(r)) = {r}
    BY <2>1, <2>4, NamesAssumption DEF RetroactiveDevis, CreatedFromFacture, SameLineage
  <2> QED
    BY <2>2, <2>3, <2>4 DEF ConvertedFromDevis, CreatedFromFacture
<1> QED
  BY <1>1, Invariance, PTL

(* Only the company's first invoice opens the trial-offer window.          *)
THEOREM OfferHolds == Spec => []OfferIsForTheFirst
<1>1. IInv => OfferIsForTheFirst
  BY DEF IInv
<1> QED
  BY <1>1, Invariance, PTL

-------------------------------------------------------------------------------
(* InvoiceBoard                                                            *)

Making(c) == c.kind \in {"convert", "devis"}
Answered(k) == boardCall[k].at = "answered"
BoardCallsOf == 1 .. MaxCalls

\* No row held is ahead of the database; a modal is open over a row that is held.
ShownInv ==
  /\ \A d \in Docs : board[d].seen <= row[d]
  /\ modal.of # "none" => modal.doc \in Shown
  /\ modal.of = "convert" => modal.doc \in BoardDevis
  /\ modal.of = "devis" => modal.doc \in BoardFactures

\* A call is about a row that is held, the one it converts of the right type.
SentInv ==
  \A k \in BoardCallsOf : boardCall[k].at # "none" =>
    /\ k <= sentCalls /\ boardCall[k].kind \in Kinds /\ boardCall[k].doc \in Shown
    /\ boardCall[k].kind = "convert" => boardCall[k].doc \in BoardDevis
    /\ boardCall[k].kind = "devis" => boardCall[k].doc \in BoardFactures

\* An answer about a row is a row the database has held.
RowAnswer(c) ==
  c.seen <= row[c.doc] /\ (c.linked => Row(c.doc).linked)

\* An answer that makes a document brings one that is not held, and is the only one to.
MadeAnswer(k) ==
  LET made == Link(boardCall[k].doc) IN
  /\ boardCall[k].seen <= row[made] /\ board[made].seen = 0
  /\ made \notin blurred => boardCall[k].seen = row[made]
  /\ \A j \in BoardCallsOf :
       (Answered(j) /\ Making(boardCall[j]) /\ boardCall[j].doc = boardCall[k].doc) => j = k

AnswerInv ==
  \A k \in BoardCallsOf : Answered(k) =>
    /\ boardCall[k].seen > 0
    /\ ~Making(boardCall[k]) => RowAnswer(boardCall[k])
    /\ Making(boardCall[k]) => MadeAnswer(k)

\* The row of the database is on its way, and so is the link.
RowComes(d) ==
  \E k \in BoardCallsOf : /\ Answered(k) /\ ~Making(boardCall[k])
                     /\ boardCall[k].doc = d /\ boardCall[k].seen = row[d]
LinkComes(d) ==
  \E k \in BoardCallsOf : Answered(k) /\ Making(boardCall[k]) /\ boardCall[k].doc = d

(* A row the page can know is held as it is, or an answer that carries it  *)
(* is waiting to be merged.                                                *)
KnownRow(d) ==
  /\ board[d].seen > 0 => board[d].seen = row[d] \/ RowComes(d)
  /\ board[d].linked => Row(d).linked
  /\ Row(d).linked => board[d].linked \/ LinkComes(d)

RowsInv == \A d \in Docs \ blurred : KnownRow(d)

\* Only the preview that is open waits for a PDF.
PreviewInv ==
  /\ pdf \subseteq {modal.doc} /\ (modal.of # "preview" => pdf = {})
  /\ PreviewIsOfItsInvoice

BoardInv == BoardTypeOK /\ ShownInv /\ SentInv /\ AnswerInv /\ RowsInv /\ PreviewInv

(* A document is made from one origin, and is none itself.                 *)
LEMMA LinkFacts ==
  /\ NoDoc \notin Docs /\ Origins \subseteq Docs
  /\ BoardDevis \subseteq Origins /\ BoardFactures \subseteq Origins
  /\ \A d \in Origins : Link(d) \in Docs \ Origins /\ Link(Link(d)) = NoDoc
  /\ \A d : d \notin Origins => Link(d) = NoDoc
  /\ \A d, e \in Origins : Link(d) = Link(e) => d = e
<1>1. \A d, e : Made(d) = Made(e) => d = e
  BY DEF Made
<1> QED
  BY <1>1, BoardAssumption DEF Docs, Origins, Link, MadeFrom

LEMMA RowFields ==
  ASSUME NEW d
  PROVE  /\ Row(d).seen = row[d]
         /\ Row(d).linked <=> Link(d) # NoDoc /\ row[Link(d)] > 0
         /\ Row(d)'.seen = row'[d]
         /\ Row(d)'.linked <=> Link(d) # NoDoc /\ row'[Link(d)] > 0
BY Zenon DEF Row

(* What the invariant says of the page.                                    *)
LEMMA BoardIsTrue == BoardInv => BoardShowsTheRow /\ PreviewIsOfItsInvoice
<1> SUFFICES ASSUME BoardInv PROVE BoardShowsTheRow
  BY DEF BoardInv, PreviewInv
<1> SUFFICES ASSUME NEW d \in Docs \ blurred, d \in Shown,
                    \A k \in 1 .. sentCalls : Unanswered(k) =>
                       d \notin {boardCall[k].doc, Link(boardCall[k].doc)}
             PROVE  board[d] = Row(d)
  BY DEF BoardShowsTheRow
<1>1. \A k \in BoardCallsOf : Answered(k) => boardCall[k].doc # d
  BY DEF BoardInv, BoardTypeOK, SentInv, BoardCallsOf, Answered, Unanswered
<1>2. ~RowComes(d) /\ ~LinkComes(d)
  BY <1>1 DEF RowComes, LinkComes
<1>3. KnownRow(d) /\ board[d].seen > 0
  BY DEF BoardInv, RowsInv, Shown
<1>4. board[d].seen = row[d] /\ (board[d].linked <=> Row(d).linked)
  BY <1>2, <1>3 DEF KnownRow
<1>5. board[d] \in [seen : 0 .. MaxWrites, linked : BOOLEAN]
  BY DEF BoardInv, BoardTypeOK
<1> QED
  BY <1>4, <1>5 DEF Row

LEMMA BoardStarts == BoardInit => BoardInv
<1> SUFFICES ASSUME BoardInit PROVE BoardInv
  OBVIOUS
<1>1. /\ NoCall.at = "none" /\ NoModal.of = "none" /\ NoModal.doc = NoDoc
      /\ NoCall \in PageCalls
  BY BoardAssumption DEF NoCall, NoModal, PageCalls
<1>2. row \in [Docs -> 0 .. MaxWrites]
  BY BoardAssumption DEF BoardInit
<1>3. /\ board \in [Docs -> [seen : 0 .. MaxWrites, linked : BOOLEAN]]
      /\ \A d \in Docs : board[d].seen = row[d] /\ board[d].linked = FALSE
  BY <1>2 DEF BoardInit
<1>4. /\ boardCall \in [1 .. MaxCalls -> PageCalls]
      /\ \A k \in BoardCallsOf : boardCall[k].at = "none"
  BY <1>1 DEF BoardInit, BoardCallsOf
<1>5. BoardTypeOK
  BY <1>1, <1>2, <1>3, <1>4, BoardAssumption DEF BoardInit, BoardTypeOK, NoModal
<1>6. ShownInv
  BY <1>1, <1>2, <1>3, BoardAssumption DEF BoardInit, ShownInv
<1>7. SentInv /\ AnswerInv
  BY <1>4 DEF SentInv, AnswerInv, Answered
<1>8. RowsInv
  <2>1. ASSUME NEW d \in Docs PROVE ~Row(d).linked
    <3>1. CASE d \in Origins
      <4>1. row[Link(d)] = 0
        BY <3>1, LinkFacts DEF BoardInit
      <4> QED
        BY <4>1, RowFields
    <3>2. CASE d \notin Origins
      BY <3>2, LinkFacts, RowFields
    <3> QED
      BY <3>1, <3>2
  <2> QED
    BY <1>3, <2>1 DEF RowsInv, KnownRow
<1>9. PreviewInv
  BY DEF BoardInit, PreviewInv, PreviewIsOfItsInvoice
<1> QED
  BY <1>5, <1>6, <1>7, <1>8, <1>9 DEF BoardInv

(* The calls that do not answer make no difference to the rows: one of     *)
(* them changes, and no answer is lost.                                    *)
LEMMA CallsMove ==
  ASSUME BoardInv, BoardTypeOK', SentInv', UNCHANGED <<row, board>>,
         blurred \subseteq blurred', NEW k \in BoardCallsOf, ~Answered(k), ~Answered(k)',
         \A j \in BoardCallsOf \ {k} : boardCall'[j] = boardCall[j]
  PROVE  AnswerInv' /\ RowsInv'
<1>1. \A j \in BoardCallsOf : Answered(j)' <=> Answered(j)
  BY DEF Answered
<1>2. \A j \in BoardCallsOf : Answered(j) => boardCall'[j] = boardCall[j]
  BY DEF Answered
<1>3. \A d \in Docs : Row(d)' = Row(d)
  BY DEF Row
<1>4. AnswerInv'
  <2>1. ASSUME NEW j \in BoardCallsOf, Answered(j)'
        PROVE  /\ boardCall'[j].seen > 0
               /\ ~Making(boardCall'[j]) => RowAnswer(boardCall[j])'
               /\ Making(boardCall'[j]) => MadeAnswer(j)'
    <3>1. Answered(j) /\ boardCall'[j] = boardCall[j]
      BY <1>1, <1>2, <2>1
    <3>2. /\ boardCall[j].seen > 0
          /\ ~Making(boardCall[j]) => RowAnswer(boardCall[j])
          /\ Making(boardCall[j]) => MadeAnswer(j)
      BY <3>1 DEF BoardInv, AnswerInv
    <3>3. RowAnswer(boardCall[j]) => RowAnswer(boardCall[j])'
      BY <3>1 DEF RowAnswer, Row
    <3>4. MadeAnswer(j) => MadeAnswer(j)'
      BY <1>1, <1>2, <3>1 DEF MadeAnswer, Making
    <3> QED
      BY <3>1, <3>2, <3>3, <3>4
  <2> QED
    BY <2>1 DEF AnswerInv, Making
<1>5. RowsInv'
  <2>1. \A d \in Docs : (RowComes(d) => RowComes(d)') /\ (LinkComes(d) => LinkComes(d)')
    BY <1>1, <1>2 DEF RowComes, LinkComes, Making
  <2> QED
    BY <1>3, <2>1 DEF BoardInv, RowsInv, KnownRow
<1> QED
  BY <1>4, <1>5

\* What an action leaves of the calls when it writes one of them.
LEMMA CallsType ==
  ASSUME BoardTypeOK, NEW k \in BoardCallsOf, NEW c \in PageCalls,
         boardCall' = [boardCall EXCEPT ![k] = c]
  PROVE  /\ boardCall' \in [1 .. MaxCalls -> PageCalls] /\ boardCall'[k] = c
         /\ \A j \in BoardCallsOf \ {k} : boardCall'[j] = boardCall[j]
BY DEF BoardTypeOK, BoardCallsOf

\* The call that is sent.
Sent(kind, d) == [NoCall EXCEPT !.kind = kind, !.doc = d, !.at = "sent"]

LEMMA SentFacts ==
  ASSUME NEW kind \in Kinds, NEW d \in Docs
  PROVE  /\ Sent(kind, d) \in PageCalls
         /\ Sent(kind, d).at = "sent" /\ Sent(kind, d).kind = kind /\ Sent(kind, d).doc = d
<1>1. NoCall \in PageCalls
  BY BoardAssumption DEF NoCall, PageCalls
<1>2. Sent(kind, d) \in PageCalls
  BY <1>1 DEF Sent, PageCalls
<1> QED
  BY <1>1, <1>2 DEF Sent, PageCalls

(* A call is sent about a row that is held; its modal may close.           *)
LEMMA SendKeeps ==
  ASSUME BoardInv, NEW kind \in Kinds, NEW d \in Shown, SendOn(kind, d),
         kind = "convert" => d \in BoardDevis, kind = "devis" => d \in BoardFactures,
         UNCHANGED <<clicks, row, board, pdf, previewUrl, blurred>>,
         modal' = modal \/ (modal' = NoModal /\ modal.of # "preview")
  PROVE  BoardInv'
<1>0. BoardTypeOK /\ d \in Docs /\ sentCalls \in Nat
  BY BoardAssumption DEF BoardInv, BoardTypeOK, Shown
<1>1. /\ sentCalls' = sentCalls + 1 /\ sentCalls + 1 \in BoardCallsOf
      /\ boardCall' = [boardCall EXCEPT ![sentCalls + 1] = Sent(kind, d)]
  BY <1>0, BoardAssumption DEF SendOn, Sent, BoardCallsOf
<1>2. /\ boardCall' \in [1 .. MaxCalls -> PageCalls]
      /\ boardCall'[sentCalls + 1] = Sent(kind, d)
      /\ \A j \in BoardCallsOf \ {sentCalls + 1} : boardCall'[j] = boardCall[j]
  <2>1. PICK n \in BoardCallsOf : n = sentCalls + 1
    BY <1>1
  <2>2. PICK c \in PageCalls : c = Sent(kind, d)
    BY <1>0, SentFacts
  <2> QED
    BY <1>0, <1>1, <2>1, <2>2, CallsType
<1>3. NoModal.of = "none" /\ NoModal.doc = NoDoc
      /\ NoModal \in [of : {"none", "convert", "devis", "mail", "sign", "preview"},
                      doc : Docs \cup {NoDoc}]
  BY DEF NoModal
<1>4. BoardTypeOK'
  BY <1>0, <1>1, <1>2, <1>3, BoardAssumption DEF BoardTypeOK, BoardCallsOf
<1>5. Shown' = Shown
  BY DEF Shown
<1>6. ShownInv'
  BY <1>3, <1>5 DEF BoardInv, ShownInv
<1>7. SentInv'
  <2>1. ASSUME NEW k \in BoardCallsOf, boardCall'[k].at # "none"
        PROVE  /\ k <= sentCalls' /\ boardCall'[k].kind \in Kinds /\ boardCall'[k].doc \in Shown
               /\ boardCall'[k].kind = "convert" => boardCall'[k].doc \in BoardDevis
               /\ boardCall'[k].kind = "devis" => boardCall'[k].doc \in BoardFactures
    <3>1. CASE k = sentCalls + 1
      BY <1>0, <1>1, <1>2, <3>1, SentFacts
    <3>2. CASE k # sentCalls + 1
      BY <1>0, <1>1, <1>2, <2>1, <3>2 DEF BoardInv, SentInv, BoardCallsOf
    <3> QED
      BY <3>1, <3>2
  <2> QED
    BY <1>5, <2>1 DEF SentInv
<1>8. AnswerInv' /\ RowsInv'
  <2>1. ~Answered(sentCalls + 1)
    BY <1>0, <1>1 DEF BoardInv, SentInv, Answered
  <2>2. PICK k \in BoardCallsOf : k = sentCalls + 1
    BY <1>1
  <2>3. ~Answered(k) /\ ~Answered(k)'
    BY <1>0, <1>2, <2>1, <2>2, SentFacts DEF Answered
  <2> QED
    BY <1>2, <1>4, <1>7, <2>2, <2>3, CallsMove
<1>9. PreviewInv'
  BY <1>3 DEF BoardInv, PreviewInv, PreviewIsOfItsInvoice
<1> QED
  BY <1>4, <1>6, <1>7, <1>8, <1>9 DEF BoardInv

(* An error or a refusal: one call that is no answer becomes another.      *)
LEMMA ErrorKeeps ==
  ASSUME BoardInv, NEW k \in 1 .. sentCalls, RefuseCall(k) \/ Fails(k)
  PROVE  BoardInv'
<1>0. BoardTypeOK /\ k \in BoardCallsOf /\ boardCall[k] \in PageCalls
  BY BoardAssumption DEF BoardInv, BoardTypeOK, BoardCallsOf
<1>1. PICK c \in PageCalls :
        /\ boardCall' = [boardCall EXCEPT ![k] = c]
        /\ c.at # "answered"
        /\ c.at # "none" => c.kind = boardCall[k].kind /\ c.doc = boardCall[k].doc
  <2>1. NoCall \in PageCalls /\ NoCall.at = "none"
    BY BoardAssumption DEF NoCall, PageCalls
  <2>2. [boardCall[k] EXCEPT !.at = "failed"] \in PageCalls
        /\ [boardCall[k] EXCEPT !.at = "failed"].at = "failed"
        /\ [boardCall[k] EXCEPT !.at = "failed"].kind = boardCall[k].kind
        /\ [boardCall[k] EXCEPT !.at = "failed"].doc = boardCall[k].doc
    BY <1>0 DEF PageCalls
  <2>3. CASE boardCall[k].at = "sent"
    BY <1>0, <2>1, <2>2, <2>3 DEF RefuseCall, Fails, Unheard, Forget, BoardTypeOK, BoardCallsOf
  <2>4. CASE boardCall[k].at # "sent"
    BY <1>0, <2>1, <2>4 DEF RefuseCall, Fails, Unheard, Forget, BoardTypeOK, BoardCallsOf
  <2> QED
    BY <2>3, <2>4
<1>2. /\ boardCall[k].at \notin {"answered", "none"}
      /\ UNCHANGED <<clicks, row, board, sentCalls, modal, pdf, previewUrl, blurred>>
  BY DEF RefuseCall, Fails
<1>3. /\ boardCall' \in [1 .. MaxCalls -> PageCalls] /\ boardCall'[k] = c
      /\ \A j \in BoardCallsOf \ {k} : boardCall'[j] = boardCall[j]
  BY <1>0, <1>1, CallsType
<1>4. BoardTypeOK'
  BY <1>0, <1>2, <1>3 DEF BoardTypeOK
<1>5. Shown' = Shown
  BY <1>2 DEF Shown
<1>6. ShownInv' /\ PreviewInv'
  BY <1>2, <1>5 DEF BoardInv, ShownInv, PreviewInv, PreviewIsOfItsInvoice
<1>7. SentInv'
  BY <1>0, <1>1, <1>2, <1>3, <1>5 DEF BoardInv, SentInv
<1>8. AnswerInv' /\ RowsInv'
  BY <1>0, <1>1, <1>2, <1>3, <1>4, <1>7, CallsMove DEF Answered
<1> QED
  BY <1>4, <1>6, <1>7, <1>8 DEF BoardInv

(* Modals and previews: neither the rows nor the calls move.               *)
LEMMA ModalKeeps ==
  ASSUME BoardInv, BoardTypeOK', UNCHANGED <<row, board, sentCalls, boardCall, blurred>>,
         ShownInv', PreviewInv'
  PROVE  BoardInv'
<1>1. SentInv'
  BY DEF BoardInv, SentInv, Shown
<1>2. AnswerInv'
  BY DEF BoardInv, AnswerInv, Answered, Making, RowAnswer, MadeAnswer, Row
<1>3. RowsInv'
  BY DEF BoardInv, RowsInv, KnownRow, RowComes, LinkComes, Answered, Making, Row
<1> QED
  BY <1>1, <1>2, <1>3 DEF BoardInv

\* The row a call writes.
Target(c) == IF Making(c) THEN Link(c.doc) ELSE c.doc

(* The server writes one row: that of the call, or the one it makes of it. *)
LEMMA ServeRow ==
  ASSUME BoardInv, NEW k \in 1 .. sentCalls, Serve(k)
  PROVE  /\ k \in BoardCallsOf /\ boardCall[k] \in PageCalls /\ boardCall[k].at \in {"sent", "orphan"}
         /\ boardCall[k].kind \in Kinds /\ boardCall[k].doc \in Shown
         /\ Making(boardCall[k]) => boardCall[k].doc \in Origins /\ row[Target(boardCall[k])] = 0
         /\ Target(boardCall[k]) \in Docs
         /\ row' = [row EXCEPT ![Target(boardCall[k])] = @ + 1]
         /\ row' \in [Docs -> 0 .. MaxWrites]
         /\ row'[Target(boardCall[k])] = row[Target(boardCall[k])] + 1
         /\ \A d \in Docs \ {Target(boardCall[k])} : row'[d] = row[d]
<1> DEFINE t == Target(boardCall[k])
<1>1. /\ k \in BoardCallsOf /\ boardCall[k] \in PageCalls /\ boardCall[k].at \in {"sent", "orphan"}
  BY BoardAssumption DEF BoardInv, BoardTypeOK, BoardCallsOf, Serve
<1>2. /\ boardCall[k].kind \in Kinds /\ boardCall[k].doc \in Shown
      /\ Making(boardCall[k]) => boardCall[k].doc \in Origins
  BY <1>1, LinkFacts DEF BoardInv, SentInv, Making
<1>3. /\ row[t] < MaxWrites /\ (Making(boardCall[k]) => row[t] = 0)
      /\ row' = [row EXCEPT ![t] = @ + 1]
  BY DEF Serve, Making, Target
<1>4. t \in Docs
  BY <1>2, LinkFacts DEF Target, Shown
<1>5. row[t] \in 0 .. MaxWrites /\ row[t] + 1 \in 0 .. MaxWrites
  BY <1>3, <1>4, BoardAssumption DEF BoardInv, BoardTypeOK
<1> HIDE DEF t
<1> QED
  BY <1>1, <1>2, <1>3, <1>4, <1>5 DEF BoardInv, BoardTypeOK, t

(* The links of the database after a write: only the document a call makes *)
(* gives one.                                                              *)
LEMMA ServeLinks ==
  ASSUME BoardInv, NEW k \in 1 .. sentCalls, Serve(k)
  PROVE  /\ \A d \in Docs : row[d] <= row'[d] /\ (Row(d).linked => Row(d)'.linked)
         /\ \A d \in Docs \ {boardCall[k].doc} : Row(d)'.linked <=> Row(d).linked
         /\ \A d \in Docs : d = boardCall[k].doc =>
               IF Making(boardCall[k]) THEN Row(d)'.linked
               ELSE Row(d)'.linked <=> Row(d).linked
         /\ \A j \in BoardCallsOf : Answered(j) /\ Making(boardCall[j]) =>
               /\ boardCall[j].doc \in Origins
               /\ Link(boardCall[j].doc) \in Docs /\ Link(boardCall[j].doc) # Target(boardCall[k])
<1> DEFINE c == boardCall[k]
           t == Target(c)
<1>0. BoardTypeOK /\ \A d \in Docs : row[d] \in Nat /\ board[d].seen \in Nat
  BY DEF BoardInv, BoardTypeOK
<1>1. /\ c.doc \in Shown /\ c.doc \in Docs /\ t \in Docs
      /\ Making(c) => c.doc \in Origins /\ row[t] = 0 /\ t = Link(c.doc)
      /\ ~Making(c) => t = c.doc
      /\ row'[t] = row[t] + 1 /\ \A d \in Docs \ {t} : row'[d] = row[d]
  BY ServeRow DEF Target, Shown
<1>2. ~Making(c) => row[t] > 0
  BY <1>0, <1>1 DEF BoardInv, ShownInv, Shown
<1> HIDE DEF t, c
<1>a. \A d \in Docs : row[d] <= row'[d]
  <2>1. \A d \in Docs : row[d] <= row[d] /\ row[d] <= row[d] + 1
    BY <1>0
  <2> QED
    BY <1>1, <2>1
<1>3. ASSUME NEW d \in Docs
      PROVE  row[d] <= row'[d] /\ (Row(d).linked => Row(d)'.linked)
  <2>1. CASE d \in Origins
    <3>1. Link(d) \in Docs /\ Link(d) # NoDoc /\ row[Link(d)] \in Nat /\ row[Link(d)] <= row'[Link(d)]
      BY <1>0, <1>a, <2>1, LinkFacts
    <3>2. row'[Link(d)] \in Nat
      BY <1>0, <1>1, <3>1
    <3>3. row[Link(d)] > 0 => row'[Link(d)] > 0
      BY <3>1, <3>2
    <3> QED
      BY <1>a, <3>3, RowFields
  <2>2. CASE d \notin Origins
    BY <1>a, <2>2, LinkFacts, RowFields
  <2> QED
    BY <2>1, <2>2
<1>4. ASSUME NEW d \in Docs, Making(c) => d # c.doc, ~Row(d).linked
      PROVE  ~Row(d)'.linked
  <2>1. CASE d \in Origins /\ Link(d) # t
    BY <1>1, <1>4, <2>1, LinkFacts, RowFields
  <2>2. CASE d \in Origins /\ Link(d) = t
    <3>1. ~Making(c)
      BY <1>1, <1>4, <2>2, LinkFacts
    <3> QED
      BY <1>2, <1>4, <2>2, <3>1, LinkFacts, RowFields
  <2>3. CASE d \notin Origins
    BY <2>3, LinkFacts, RowFields
  <2> QED
    BY <2>1, <2>2, <2>3
<1>5. ASSUME NEW d \in Docs, d = c.doc, Making(c)
      PROVE  Row(d)'.linked
  <2>1. t = Link(d) /\ t # NoDoc /\ row'[t] > 0
    BY <1>1, <1>5, LinkFacts
  <2> QED
    BY <2>1, RowFields
<1>6. ASSUME NEW j \in BoardCallsOf, Answered(j), Making(boardCall[j])
      PROVE  /\ boardCall[j].doc \in Origins
             /\ Link(boardCall[j].doc) \in Docs /\ Link(boardCall[j].doc) # t
  <2>1. boardCall[j].doc \in Origins
    BY <1>6, LinkFacts DEF BoardInv, SentInv, Answered, Making
  <2>2. /\ boardCall[j].seen > 0 /\ boardCall[j].seen <= row[Link(boardCall[j].doc)]
        /\ board[Link(boardCall[j].doc)].seen = 0
    BY <1>6 DEF BoardInv, AnswerInv, MadeAnswer
  <2>3. Link(boardCall[j].doc) \in Docs /\ boardCall[j].seen \in Nat
    BY <1>0, <2>1, LinkFacts DEF BoardTypeOK, PageCalls, BoardCallsOf
  <2>4. CASE Making(c)
    <3>1. row[t] = 0
      BY <1>1, <2>4
    <3>2. row[Link(boardCall[j].doc)] # 0
      BY <2>2, <2>3
    <3> QED
      BY <2>1, <2>3, <3>1, <3>2
  <2>5. CASE ~Making(c)
    <3>1. t \in Shown
      BY <1>1, <2>5
    <3> QED
      BY <2>1, <2>2, <2>3, <3>1 DEF Shown
  <2> QED
    BY <2>4, <2>5
<1>7. ASSUME NEW d \in Docs, d = c.doc, ~Making(c)
      PROVE  Row(d)'.linked <=> Row(d).linked
  BY <1>3, <1>4, <1>7
<1>8. \A d \in Docs \ {c.doc} : Row(d)'.linked <=> Row(d).linked
  BY <1>3, <1>4
<1> QED
  BY <1>3, <1>5, <1>6, <1>7, <1>8 DEF t, c

(* The call that was served: its answer brings the row it wrote, or is     *)
(* lost and the page cannot know the row.                                  *)
LEMMA ServeCall ==
  ASSUME BoardInv, NEW k \in 1 .. sentCalls, Serve(k)
  PROVE  \E a \in PageCalls :
           /\ boardCall' = [boardCall EXCEPT ![k] = a]
           /\ a.at # "none" => a.kind = boardCall[k].kind /\ a.doc = boardCall[k].doc
           /\ a.at # "answered" => blurred' = blurred \cup {boardCall[k].doc}
           /\ a.at = "answered" =>
                /\ blurred' = blurred /\ a.seen = row'[Target(boardCall[k])]
                /\ a.linked => ~Making(boardCall[k]) /\ Row(boardCall[k].doc).linked
<1> DEFINE c == boardCall[k]
           t == Target(c)
           linked == ~Making(c) /\ Row(t).linked
<1>0. /\ k \in BoardCallsOf /\ c \in PageCalls /\ t \in Docs
      /\ row' \in [Docs -> 0 .. MaxWrites]
      /\ boardCall \in [1 .. MaxCalls -> PageCalls]
  BY ServeRow DEF BoardInv, BoardTypeOK
<1>1. CASE boardCall' = [boardCall EXCEPT ![k] =
             [@ EXCEPT !.at = "answered", !.seen = row'[t], !.linked = linked]]
           /\ blurred' = blurred
  <2> DEFINE a == [c EXCEPT !.at = "answered", !.seen = row'[t], !.linked = linked]
  <2>1. linked \in BOOLEAN /\ row'[t] \in 0 .. MaxWrites
    BY <1>0
  <2>2. boardCall' = [boardCall EXCEPT ![k] = a]
    BY <1>0, <1>1
  <2>3. linked => ~Making(c) /\ Row(c.doc).linked
    BY DEF Target
  <2> HIDE DEF linked, t
  <2>4. a \in PageCalls
    BY <1>0, <2>1 DEF PageCalls
  <2>5. a.at = "answered" /\ a.kind = c.kind /\ a.doc = c.doc /\ a.seen = row'[t]
    BY <1>0, <2>1 DEF PageCalls
  <2>6. a.linked => linked
    BY <1>0, <2>1 DEF PageCalls
  <2> HIDE DEF a
  <2> QED
    BY <1>1, <2>2, <2>3, <2>4, <2>5, <2>6 DEF t
<1>2. CASE Unheard(k) /\ blurred' = blurred \cup {c.doc}
  <2>1. NoCall \in PageCalls /\ NoCall.at = "none"
    BY BoardAssumption DEF NoCall, PageCalls
  <2>2. /\ [c EXCEPT !.at = "failed"] \in PageCalls
        /\ [c EXCEPT !.at = "failed"].at = "failed"
        /\ [c EXCEPT !.at = "failed"].kind = c.kind
        /\ [c EXCEPT !.at = "failed"].doc = c.doc
    BY <1>0 DEF PageCalls
  <2>3. CASE c.at = "sent"
    <3>1. boardCall' = [boardCall EXCEPT ![k] = [c EXCEPT !.at = "failed"]]
      BY <1>0, <1>2, <2>3 DEF Unheard, BoardCallsOf
    <3> QED
      BY <1>2, <2>2, <3>1
  <2>4. CASE c.at # "sent"
    <3>1. boardCall' = [boardCall EXCEPT ![k] = NoCall]
      BY <1>0, <1>2, <2>4 DEF Unheard, BoardCallsOf
    <3> QED
      BY <1>2, <2>1, <3>1
  <2> QED
    BY <2>3, <2>4
<1> QED
  BY <1>1, <1>2 DEF Serve, Making, Target

LEMMA ServeKeeps ==
  ASSUME BoardInv, NEW k \in 1 .. sentCalls, Serve(k)
  PROVE  BoardInv'
<1>1. PICK c \in PageCalls : c = boardCall[k]
  BY ServeRow
<1>2. PICK t \in Docs : t = Target(c)
  BY <1>1, ServeRow
<1>3. PICK a \in PageCalls :
        /\ boardCall' = [boardCall EXCEPT ![k] = a]
        /\ a.at # "none" => a.kind = c.kind /\ a.doc = c.doc
        /\ a.at # "answered" => blurred' = blurred \cup {c.doc}
        /\ a.at = "answered" =>
             /\ blurred' = blurred /\ a.seen = row'[t]
             /\ a.linked => ~Making(c) /\ Row(c.doc).linked
  BY <1>1, <1>2, ServeCall
<1>4. /\ k \in BoardCallsOf /\ c.at \in {"sent", "orphan"} /\ c.kind \in Kinds
      /\ c.doc \in Shown /\ c.doc \in Docs
      /\ Making(c) => c.doc \in Origins /\ row[t] = 0 /\ t = Link(c.doc)
      /\ ~Making(c) => t = c.doc
      /\ row' \in [Docs -> 0 .. MaxWrites] /\ row'[t] = row[t] + 1
      /\ \A d \in Docs \ {t} : row'[d] = row[d]
  BY <1>1, <1>2, ServeRow DEF Target, Shown
<1>5. /\ \A d \in Docs : row[d] <= row'[d] /\ (Row(d).linked => Row(d)'.linked)
      /\ \A d \in Docs \ {c.doc} : Row(d)'.linked <=> Row(d).linked
      /\ \A d \in Docs : d = c.doc =>
            IF Making(c) THEN Row(d)'.linked ELSE Row(d)'.linked <=> Row(d).linked
      /\ \A j \in BoardCallsOf : Answered(j) /\ Making(boardCall[j]) =>
            /\ boardCall[j].doc \in Origins
            /\ Link(boardCall[j].doc) \in Docs /\ Link(boardCall[j].doc) # t
  BY <1>1, <1>2, ServeLinks
<1>6. /\ boardCall' \in [1 .. MaxCalls -> PageCalls] /\ boardCall'[k] = a
      /\ \A j \in BoardCallsOf \ {k} : boardCall'[j] = boardCall[j]
  BY <1>3, <1>4, CallsType DEF BoardInv
<1>7. UNCHANGED <<clicks, board, sentCalls, modal, pdf, previewUrl>>
  BY DEF Serve
<1>8. blurred \subseteq blurred' /\ blurred' \in SUBSET (Docs \cup {NoDoc})
  BY <1>3, <1>4 DEF BoardInv, BoardTypeOK
<1>9. BoardTypeOK'
  BY <1>4, <1>6, <1>7, <1>8 DEF BoardInv, BoardTypeOK
<1>10. Shown' = Shown /\ \A d \in Docs : row[d] \in Nat /\ row'[d] \in Nat /\ board[d].seen \in Nat
  BY <1>4, <1>7 DEF Shown, BoardInv, BoardTypeOK
<1>11. ShownInv'
  <2>1. \A d \in Docs : board'[d].seen <= row'[d]
    BY <1>5, <1>7, <1>10 DEF BoardInv, ShownInv
  <2> QED
    BY <1>7, <1>10, <2>1 DEF BoardInv, ShownInv
<1>12. SentInv'
  BY <1>1, <1>3, <1>4, <1>6, <1>7, <1>10 DEF BoardInv, SentInv
<1>13. ASSUME NEW j \in BoardCallsOf, Answered(j)', j # k
       PROVE  /\ boardCall'[j].seen > 0
              /\ ~Making(boardCall[j])' => RowAnswer(boardCall[j])'
              /\ Making(boardCall[j])' => MadeAnswer(j)'
  <2>1. Answered(j) /\ boardCall'[j] = boardCall[j] /\ boardCall[j].seen > 0
    BY <1>6, <1>13 DEF BoardInv, AnswerInv, Answered
  <2>2. boardCall[j].doc \in Docs /\ boardCall[j].seen \in Nat
    <3>1. boardCall[j] \in PageCalls
      BY DEF BoardInv, BoardTypeOK, BoardCallsOf
    <3>2. boardCall[j].doc \in Docs
      BY <2>1 DEF BoardInv, SentInv, Answered, Shown
    <3> QED
      BY <3>1, <3>2, BoardAssumption DEF PageCalls
  <2>3. CASE ~Making(boardCall[j])
    <3>1. RowAnswer(boardCall[j])
      BY <2>1, <2>3 DEF BoardInv, AnswerInv
    <3>2. PICK d \in Docs : d = boardCall[j].doc
      BY <2>2
    <3>3. boardCall[j].seen <= row'[d] /\ (boardCall[j].linked => Row(d)'.linked)
      BY <1>5, <1>10, <2>2, <3>1, <3>2 DEF RowAnswer
    <3> QED
      BY <2>1, <2>3, <3>2, <3>3 DEF RowAnswer, Making
  <2>4. CASE Making(boardCall[j])
    <3>1. MadeAnswer(j)
      BY <2>1, <2>4 DEF BoardInv, AnswerInv
    <3>2. Link(boardCall[j].doc) \in Docs /\ row'[Link(boardCall[j].doc)] = row[Link(boardCall[j].doc)]
      BY <1>4, <1>5, <2>1, <2>4
    <3>3. ASSUME NEW i \in BoardCallsOf, Answered(i)', Making(boardCall'[i]),
                 boardCall'[i].doc = boardCall[j].doc
          PROVE  i = j
      <4>1. CASE i # k
        BY <1>6, <3>1, <3>3, <4>1 DEF MadeAnswer, Answered
      <4>2. CASE i = k
        <5>1. Making(c) /\ c.doc = boardCall[j].doc
          BY <1>3, <1>6, <3>3, <4>2 DEF Answered, Making
        <5>2. t = Link(boardCall[j].doc)
          BY <1>4, <5>1
        <5> QED
          BY <1>5, <2>1, <2>4, <5>2
      <4> QED
        BY <4>1, <4>2
    <3> QED
      BY <1>7, <1>8, <2>1, <2>4, <3>1, <3>2, <3>3 DEF MadeAnswer, Making
  <2> QED
    BY <2>1, <2>3, <2>4 DEF Making
<1>14. ASSUME Answered(k)'
       PROVE  /\ boardCall'[k].seen > 0
              /\ ~Making(boardCall[k])' => RowAnswer(boardCall[k])'
              /\ Making(boardCall[k])' => MadeAnswer(k)'
  <2>1. /\ a.at = "answered" /\ a.kind = c.kind /\ a.doc = c.doc /\ a.seen = row'[t]
        /\ blurred' = blurred /\ (a.linked => ~Making(c) /\ Row(c.doc).linked)
        /\ a.seen > 0
    BY <1>3, <1>4, <1>6, <1>10, <1>14 DEF Answered
  <2>2. CASE ~Making(c)
    <3>1. PICK d \in Docs : d = c.doc
      BY <1>4
    <3>2. a.seen <= row'[d] /\ (a.linked => Row(d)'.linked)
      BY <1>4, <1>5, <1>10, <2>1, <2>2, <3>1
    <3> QED
      BY <1>6, <2>1, <2>2, <3>1, <3>2 DEF RowAnswer, Making
  <2>3. CASE Making(c)
    <3>1. t = Link(a.doc) /\ board[t].seen = 0
      BY <1>4, <1>10, <2>1, <2>3 DEF BoardInv, ShownInv
    <3>2. ASSUME NEW i \in BoardCallsOf, Answered(i)', Making(boardCall'[i]), boardCall'[i].doc = a.doc
          PROVE  i = k
      BY <1>5, <1>6, <3>1, <3>2 DEF Answered
    <3> QED
      BY <1>4, <1>6, <1>7, <1>10, <2>1, <2>3, <3>1, <3>2 DEF MadeAnswer, Making
  <2> QED
    BY <1>6, <2>1, <2>2, <2>3 DEF Making
<1>15. AnswerInv'
  BY <1>13, <1>14 DEF AnswerInv
<1>16. ASSUME NEW d \in Docs, d \notin blurred'
       PROVE  KnownRow(d)'
  <2>1. KnownRow(d)
    BY <1>8, <1>16 DEF BoardInv, RowsInv
  <2>2. LinkComes(d) => LinkComes(d)'
    BY <1>1, <1>4, <1>6 DEF LinkComes, Answered, Making
  <2>3. CASE d # c.doc
    <3>1. Row(d)'.linked <=> Row(d).linked
      BY <1>5, <2>3
    <3>2. CASE d # t
      <4>1. RowComes(d) => RowComes(d)'
        BY <1>1, <1>4, <1>6, <3>2 DEF RowComes, Answered, Making
      <4> QED
        BY <1>4, <1>7, <2>1, <2>2, <3>1, <3>2, <4>1 DEF KnownRow
    <3>3. CASE d = t
      <4>1. board[d].seen = 0
        BY <1>4, <1>10, <2>3, <3>3 DEF BoardInv, ShownInv
      <4> QED
        BY <1>7, <1>10, <2>1, <2>2, <3>1, <4>1 DEF KnownRow
    <3> QED
      BY <3>2, <3>3
  <2>4. CASE d = c.doc
    <3>1. /\ a.at = "answered" /\ a.kind = c.kind /\ a.doc = d /\ a.seen = row'[t]
      BY <1>3, <1>16, <2>4
    <3>2. CASE ~Making(c)
      <4>1. RowComes(d)'
        BY <1>4, <1>6, <2>4, <3>1, <3>2 DEF RowComes, Answered, Making
      <4>2. Row(d)'.linked <=> Row(d).linked
        BY <1>5, <2>4, <3>2
      <4> QED
        BY <1>7, <2>1, <2>2, <4>1, <4>2 DEF KnownRow
    <3>3. CASE Making(c)
      <4>1. LinkComes(d)' /\ Row(d)'.linked
        BY <1>4, <1>5, <1>6, <2>4, <3>1, <3>3 DEF LinkComes, Answered, Making
      <4>2. row'[d] = row[d]
        BY <1>4, <2>4, <3>3, LinkFacts
      <4>3. RowComes(d) => RowComes(d)'
        BY <1>1, <1>4, <1>6, <4>2 DEF RowComes, Answered, Making
      <4> QED
        BY <1>7, <2>1, <4>1, <4>2, <4>3 DEF KnownRow
    <3> QED
      BY <3>2, <3>3
  <2> QED
    BY <2>3, <2>4
<1>17. RowsInv'
  BY <1>16 DEF RowsInv
<1>18. PreviewInv'
  BY <1>7 DEF BoardInv, PreviewInv, PreviewIsOfItsInvoice
<1> QED
  BY <1>9, <1>11, <1>12, <1>15, <1>17, <1>18 DEF BoardInv

(* A row written elsewhere: the page cannot know it any more, nor whether  *)
(* a document has just been made from its origin.                          *)
LEMMA ElsewhereKeeps ==
  ASSUME BoardInv, NEW t \in Docs, WriteElsewhere(t)
  PROVE  BoardInv'
<1>1. /\ row[t] \in 0 .. MaxWrites /\ row[t] + 1 \in 0 .. MaxWrites /\ clicks' \in 0 .. MaxClicks
  BY BoardAssumption DEF BoardInv, BoardTypeOK, WriteElsewhere, Click
<1>2. /\ row' \in [Docs -> 0 .. MaxWrites] /\ row'[t] = row[t] + 1
      /\ \A d \in Docs \ {t} : row'[d] = row[d]
  BY <1>1 DEF BoardInv, BoardTypeOK, WriteElsewhere
<1>3. UNCHANGED <<board, sentCalls, boardCall, modal, pdf, previewUrl>>
  BY DEF WriteElsewhere
<1>4. /\ blurred \subseteq blurred' /\ blurred' \in SUBSET (Docs \cup {NoDoc})
      /\ t \in blurred' /\ \A d \in Origins : Link(d) = t => d \in blurred'
  BY LinkFacts DEF BoardInv, BoardTypeOK, WriteElsewhere
<1>5. BoardTypeOK'
  BY <1>1, <1>2, <1>3, <1>4 DEF BoardInv, BoardTypeOK
<1>6. Shown' = Shown /\ \A d \in Docs : row[d] \in Nat /\ row'[d] \in Nat /\ board[d].seen \in Nat
  BY <1>2, <1>3 DEF Shown, BoardInv, BoardTypeOK
<1>7. \A d \in Docs : row[d] <= row'[d]
  <2>1. \A d \in Docs : row[d] <= row[d] /\ row[d] <= row[d] + 1
    BY <1>6
  <2> QED
    BY <1>2, <2>1
<1>8. ASSUME NEW d \in Docs, Row(d).linked
      PROVE  Row(d)'.linked
  <2>1. Link(d) # NoDoc /\ row[Link(d)] > 0 /\ Link(d) \in Docs
    BY <1>8, RowFields, LinkFacts
  <2>2. row'[Link(d)] > 0
    <3>1. row[Link(d)] \in Nat /\ row'[Link(d)] \in Nat /\ row[Link(d)] <= row'[Link(d)]
      BY <1>6, <1>7, <2>1
    <3> QED
      BY <2>1, <3>1
  <2> QED
    BY <2>1, <2>2, RowFields
<1>9. ShownInv'
  <2>1. \A d \in Docs : board[d].seen <= row'[d]
    BY <1>6, <1>7 DEF BoardInv, ShownInv
  <2> QED
    BY <1>3, <1>6, <2>1 DEF BoardInv, ShownInv
<1>10. SentInv'
  BY <1>3, <1>6 DEF BoardInv, SentInv
<1>11. ASSUME NEW k \in BoardCallsOf, Answered(k)
       PROVE  /\ boardCall[k].seen > 0
              /\ ~Making(boardCall[k]) => RowAnswer(boardCall[k])'
              /\ Making(boardCall[k]) => MadeAnswer(k)'
  <2>1. boardCall[k].doc \in Docs /\ boardCall[k].seen \in Nat /\ boardCall[k].seen > 0
    <3>1. boardCall[k] \in PageCalls
      BY DEF BoardInv, BoardTypeOK, BoardCallsOf
    <3>2. boardCall[k].doc \in Docs /\ boardCall[k].seen > 0
      BY <1>11 DEF BoardInv, SentInv, AnswerInv, Answered, Shown
    <3> QED
      BY <3>1, <3>2, BoardAssumption DEF PageCalls
  <2>2. CASE ~Making(boardCall[k])
    <3>1. RowAnswer(boardCall[k])
      BY <1>11, <2>2 DEF BoardInv, AnswerInv
    <3>2. PICK d \in Docs : d = boardCall[k].doc
      BY <2>1
    <3>3. boardCall[k].seen <= row'[d] /\ (boardCall[k].linked => Row(d)'.linked)
      BY <1>6, <1>7, <1>8, <2>1, <3>1, <3>2 DEF RowAnswer
    <3> QED
      BY <1>3, <2>1, <2>2, <3>2, <3>3 DEF RowAnswer
  <2>3. CASE Making(boardCall[k])
    <3>1. MadeAnswer(k)
      BY <1>11, <2>3 DEF BoardInv, AnswerInv
    <3>2. Link(boardCall[k].doc) \in Docs
      BY <1>11, <2>3, LinkFacts DEF BoardInv, SentInv, Answered, Making
    <3>3. boardCall[k].seen <= row'[Link(boardCall[k].doc)]
      BY <1>6, <1>7, <2>1, <3>1, <3>2 DEF MadeAnswer
    <3>4. Link(boardCall[k].doc) \notin blurred' => boardCall[k].seen = row'[Link(boardCall[k].doc)]
      BY <1>2, <1>4, <3>1, <3>2 DEF MadeAnswer
    <3> QED
      BY <1>3, <2>1, <2>3, <3>1, <3>3, <3>4 DEF MadeAnswer, Making, Answered
  <2> QED
    BY <2>1, <2>2, <2>3
<1>12. AnswerInv'
  BY <1>3, <1>11 DEF AnswerInv, Answered, Making
<1>13. ASSUME NEW d \in Docs, d \notin blurred'
       PROVE  KnownRow(d)'
  <2>1. KnownRow(d) /\ d # t /\ (d \in Origins => Link(d) # t)
    BY <1>4, <1>13 DEF BoardInv, RowsInv
  <2>2. row'[d] = row[d] /\ (Row(d)'.linked <=> Row(d).linked)
    BY <1>2, <2>1, LinkFacts, RowFields
  <2>3. (RowComes(d)' <=> RowComes(d)) /\ (LinkComes(d)' <=> LinkComes(d))
    BY <1>3, <2>2 DEF RowComes, LinkComes, Answered, Making
  <2> QED
    BY <1>3, <2>1, <2>2, <2>3 DEF KnownRow
<1>14. RowsInv'
  BY <1>13 DEF RowsInv
<1>15. PreviewInv'
  BY <1>3 DEF BoardInv, PreviewInv, PreviewIsOfItsInvoice
<1> QED
  BY <1>5, <1>9, <1>10, <1>12, <1>14, <1>15 DEF BoardInv

(* What every answer leaves: its call is forgotten, its modal may close,   *)
(* and the rows held are those of before but one, two or three.            *)
LEMMA AnswerKeeps ==
  ASSUME BoardInv, NEW k \in 1 .. sentCalls, Answered(k), Forget(k),
         UNCHANGED <<clicks, row, sentCalls, pdf, previewUrl>>,
         modal' = modal \/ (modal' = NoModal /\ modal.of # "preview"),
         board' \in [Docs -> [seen : 0 .. MaxWrites, linked : BOOLEAN]],
         \A d \in Docs : board'[d].seen <= row[d] /\ (board[d].seen > 0 => board'[d].seen > 0),
         blurred \subseteq blurred', blurred' \in SUBSET (Docs \cup {NoDoc}),
         \A j \in BoardCallsOf \ {k} : Answered(j) /\ Making(boardCall[j]) =>
            board'[Link(boardCall[j].doc)].seen = 0,
         RowsInv'
  PROVE  BoardInv'
<1>1. /\ NoCall \in PageCalls /\ NoCall.at = "none"
      /\ NoModal.of = "none" /\ NoModal.doc = NoDoc
      /\ NoModal \in [of : {"none", "convert", "devis", "mail", "sign", "preview"},
                      doc : Docs \cup {NoDoc}]
  BY BoardAssumption DEF NoCall, NoModal, PageCalls
<1>2. BoardTypeOK /\ k \in BoardCallsOf
  BY BoardAssumption DEF BoardInv, BoardTypeOK, BoardCallsOf
<1>3. /\ boardCall' \in [1 .. MaxCalls -> PageCalls] /\ boardCall'[k] = NoCall
      /\ \A j \in BoardCallsOf \ {k} : boardCall'[j] = boardCall[j]
  BY <1>1, <1>2, CallsType DEF Forget
<1>4. BoardTypeOK'
  BY <1>1, <1>2, <1>3 DEF BoardTypeOK
<1>5. Shown \subseteq Shown'
  BY DEF Shown
<1>6. ShownInv'
  BY <1>1, <1>5 DEF BoardInv, ShownInv
<1>7. SentInv'
  BY <1>1, <1>3, <1>5 DEF BoardInv, SentInv
<1>8. \A d \in Docs : Row(d)' = Row(d)
  BY DEF Row
<1>9. ASSUME NEW j \in BoardCallsOf, Answered(j)'
      PROVE  /\ boardCall'[j].seen > 0
             /\ ~Making(boardCall'[j]) => RowAnswer(boardCall[j])'
             /\ Making(boardCall'[j]) => MadeAnswer(j)'
  <2>1. j # k /\ Answered(j) /\ boardCall'[j] = boardCall[j]
    BY <1>1, <1>3, <1>9 DEF Answered
  <2>2. /\ boardCall[j].seen > 0
        /\ ~Making(boardCall[j]) => RowAnswer(boardCall[j])
        /\ Making(boardCall[j]) => MadeAnswer(j)
    BY <2>1 DEF BoardInv, AnswerInv
  <2>3. RowAnswer(boardCall[j]) => RowAnswer(boardCall[j])'
    BY <2>1 DEF RowAnswer, Row
  <2>4. Making(boardCall[j]) /\ MadeAnswer(j) => MadeAnswer(j)'
    <3>1. \A i \in BoardCallsOf : Answered(i)' => Answered(i) /\ boardCall'[i] = boardCall[i]
      BY <1>1, <1>3 DEF Answered
    <3> QED
      BY <2>1, <3>1 DEF MadeAnswer, Making
  <2> QED
    BY <2>1, <2>2, <2>3, <2>4
<1>10. AnswerInv'
  BY <1>9 DEF AnswerInv, Making
<1>11. PreviewInv'
  BY <1>1 DEF BoardInv, PreviewInv, PreviewIsOfItsInvoice
<1> QED
  BY <1>4, <1>6, <1>7, <1>10, <1>11 DEF BoardInv

(* What an answer brings.                                                  *)
LEMMA AnswerFacts ==
  ASSUME BoardInv, NEW k \in 1 .. sentCalls, Answered(k)
  PROVE  /\ k \in BoardCallsOf /\ boardCall[k] \in PageCalls /\ boardCall[k].kind \in Kinds
         /\ boardCall[k].doc \in Docs /\ boardCall[k].doc \in Shown
         /\ boardCall[k].seen \in 0 .. MaxWrites /\ boardCall[k].seen > 0
         /\ boardCall[k].linked \in BOOLEAN
         /\ ~Making(boardCall[k]) => RowAnswer(boardCall[k])
         /\ Making(boardCall[k]) => boardCall[k].doc \in Origins /\ MadeAnswer(k)
<1>1. k \in BoardCallsOf /\ boardCall[k] \in PageCalls
  BY BoardAssumption DEF BoardInv, BoardTypeOK, BoardCallsOf
<1>2. /\ boardCall[k].kind \in Kinds /\ boardCall[k].doc \in Shown
      /\ Making(boardCall[k]) => boardCall[k].doc \in Origins
  BY <1>1, LinkFacts DEF BoardInv, SentInv, Answered, Making
<1>3. /\ boardCall[k].seen > 0
      /\ ~Making(boardCall[k]) => RowAnswer(boardCall[k])
      /\ Making(boardCall[k]) => MadeAnswer(k)
  BY <1>1 DEF BoardInv, AnswerInv
<1>4. boardCall[k].seen \in 0 .. MaxWrites /\ boardCall[k].linked \in BOOLEAN
  BY <1>1 DEF PageCalls
<1> QED
  BY <1>1, <1>2, <1>3, <1>4 DEF Shown

\* A modal that closes.
LEMMA ModalCloses ==
  ASSUME NEW kind \in Kinds, CloseModal(kind)
  PROVE  modal' = modal \/ (modal' = NoModal /\ modal.of # "preview")
BY DEF CloseModal, Kinds

(* The row of an answer takes the place of the one held: the latest one,   *)
(* unless the page cannot know it or a later answer is still to come.      *)
LEMMA MergeKeeps ==
  ASSUME BoardInv, NEW k \in 1 .. sentCalls, Merge(k)
  PROVE  BoardInv'
<1>1. Answered(k) /\ ~Making(boardCall[k]) /\ Forget(k)
  BY DEF Merge, Answered, Making
<1>2. PICK c \in PageCalls : c = boardCall[k]
  BY <1>1, AnswerFacts
<1>3. /\ k \in BoardCallsOf /\ c.kind \in Kinds /\ c.doc \in Docs /\ c.doc \in Shown
      /\ c.seen \in 0 .. MaxWrites /\ c.seen > 0 /\ c.linked \in BOOLEAN
      /\ c.seen <= row[c.doc] /\ (c.linked => Row(c.doc).linked)
  BY <1>1, <1>2, AnswerFacts DEF RowAnswer
<1>4. /\ board' = [board EXCEPT ![c.doc] = [seen |-> c.seen, linked |-> c.linked]]
      /\ blurred' = IF c.seen < board[c.doc].seen \/ (board[c.doc].linked /\ ~c.linked)
                    THEN blurred \cup {c.doc} ELSE blurred
      /\ UNCHANGED <<clicks, row, sentCalls, pdf, previewUrl>>
      /\ modal' = modal \/ (modal' = NoModal /\ modal.of # "preview")
  BY <1>2, <1>3, ModalCloses DEF Merge
<1>5. /\ board \in [Docs -> [seen : 0 .. MaxWrites, linked : BOOLEAN]]
      /\ \A d \in Docs : board[d].seen <= row[d] /\ board[d].seen \in Nat /\ row[d] \in Nat
      /\ blurred \in SUBSET (Docs \cup {NoDoc})
  BY DEF BoardInv, BoardTypeOK, ShownInv
<1>6. /\ board' \in [Docs -> [seen : 0 .. MaxWrites, linked : BOOLEAN]]
      /\ board'[c.doc].seen = c.seen /\ (board'[c.doc].linked <=> c.linked)
      /\ \A d \in Docs \ {c.doc} : board'[d] = board[d]
  BY <1>3, <1>4, <1>5
<1>7. blurred \subseteq blurred' /\ blurred' \in SUBSET (Docs \cup {NoDoc})
  BY <1>3, <1>4, <1>5
<1>8. \A d \in Docs : board'[d].seen <= row[d] /\ (board[d].seen > 0 => board'[d].seen > 0)
  BY <1>3, <1>5, <1>6
<1>9. ASSUME NEW j \in BoardCallsOf \ {k}, Answered(j), Making(boardCall[j])
      PROVE  board'[Link(boardCall[j].doc)].seen = 0
  <2>1. board[Link(boardCall[j].doc)].seen = 0 /\ Link(boardCall[j].doc) \in Docs
    BY <1>9, LinkFacts DEF BoardInv, AnswerInv, MadeAnswer, SentInv, Answered, Making
  <2> QED
    BY <1>3, <1>6, <2>1 DEF Shown
<1>10. \A j \in BoardCallsOf \ {k} : boardCall'[j] = boardCall[j]
  BY <1>1 DEF BoardInv, BoardTypeOK, Forget, BoardCallsOf
<1>11. ASSUME NEW d \in Docs, d \notin blurred'
       PROVE  KnownRow(d)'
  <2>1. KnownRow(d) /\ row'[d] = row[d] /\ Row(d)' = Row(d)
    BY <1>4, <1>7, <1>11 DEF BoardInv, RowsInv, Row
  <2>2. LinkComes(d) => LinkComes(d)'
    BY <1>1, <1>10 DEF LinkComes, Answered, Making
  <2>3. RowComes(d) => RowComes(d)' \/ (d = c.doc /\ c.seen = row[d])
    BY <1>2, <1>10, <2>1 DEF RowComes, Answered, Making
  <2>4. CASE d # c.doc
    BY <1>6, <2>1, <2>2, <2>3, <2>4 DEF KnownRow
  <2>5. CASE d = c.doc
    <3>1. ~(c.seen < board[d].seen) /\ ~(board[d].linked /\ ~c.linked)
      BY <1>4, <1>11, <2>5
    <3>2. c.seen = row[d] \/ RowComes(d)'
      BY <1>3, <1>5, <2>1, <2>3, <2>5, <3>1 DEF Shown, KnownRow
    <3>3. /\ c.linked => Row(d).linked
          /\ Row(d).linked => c.linked \/ LinkComes(d)'
      BY <1>3, <2>1, <2>2, <2>5, <3>1 DEF KnownRow
    <3>4. board'[d].seen = c.seen /\ (board'[d].linked <=> c.linked)
      BY <1>6, <2>5
    <3> QED
      BY <2>1, <3>2, <3>3, <3>4 DEF KnownRow
  <2> QED
    BY <2>4, <2>5
<1>12. RowsInv'
  BY <1>11 DEF RowsInv
<1> QED
  BY <1>1, <1>4, <1>6, <1>7, <1>8, <1>9, <1>12, AnswerKeeps

(* The document that was made joins the list, and the row it is linked     *)
(* from is that of its origin, or neither row can be known any more.       *)
LEMMA MadeKeeps ==
  ASSUME BoardInv, NEW k \in 1 .. sentCalls, Answered(k), Making(boardCall[k]), Forget(k),
         NEW c \in PageCalls, c = boardCall[k], NEW origin \in Docs \cup {NoDoc}, origin # Link(c.doc),
         board' = [d \in Docs |-> IF d = Link(c.doc) THEN [seen |-> c.seen, linked |-> FALSE]
                                  ELSE IF d = origin THEN Linked(d) ELSE board[d]],
         blurred' = IF origin = c.doc THEN blurred ELSE blurred \cup {c.doc, origin},
         UNCHANGED <<clicks, row, sentCalls, pdf, previewUrl>>,
         modal' = modal \/ (modal' = NoModal /\ modal.of # "preview")
  PROVE  BoardInv'
<1>1. /\ k \in BoardCallsOf /\ c.doc \in Origins /\ c.doc \in Docs
      /\ c.seen \in 0 .. MaxWrites /\ c.seen > 0
  BY AnswerFacts
<1>2. PICK made \in Docs : made = Link(c.doc)
  BY <1>1, LinkFacts
<1>3. /\ made \notin Origins /\ made # NoDoc /\ made # c.doc /\ Link(made) = NoDoc
      /\ c.seen <= row[made] /\ board[made].seen = 0
      /\ made \notin blurred => c.seen = row[made]
      /\ \A j \in BoardCallsOf :
            (Answered(j) /\ Making(boardCall[j]) /\ boardCall[j].doc = c.doc) => j = k
  BY <1>1, <1>2, LinkFacts, AnswerFacts DEF MadeAnswer
<1>4. /\ board \in [Docs -> [seen : 0 .. MaxWrites, linked : BOOLEAN]]
      /\ \A d \in Docs : board[d].seen <= row[d] /\ board[d].seen \in Nat /\ row[d] \in Nat
      /\ blurred \in SUBSET (Docs \cup {NoDoc})
  BY DEF BoardInv, BoardTypeOK, ShownInv
<1>5. /\ \A d \in Docs : Linked(d) \in [seen : 0 .. MaxWrites, linked : BOOLEAN]
      /\ \A d \in Docs : Linked(d).seen = board[d].seen /\ Linked(d).linked = TRUE
  BY <1>4 DEF Linked
<1>6. /\ board' \in [Docs -> [seen : 0 .. MaxWrites, linked : BOOLEAN]]
      /\ board'[made].seen = c.seen /\ ~board'[made].linked
      /\ \A d \in Docs \ {made} : board'[d].seen = board[d].seen
      /\ \A d \in Docs \ {made, origin} : board'[d] = board[d]
      /\ \A d \in Docs : d = origin => board'[d].linked
  BY <1>1, <1>2, <1>4, <1>5
<1>7. blurred \subseteq blurred' /\ blurred' \in SUBSET (Docs \cup {NoDoc})
  BY <1>1, <1>4
<1>8. \A d \in Docs : board'[d].seen <= row[d] /\ (board[d].seen > 0 => board'[d].seen > 0)
  BY <1>1, <1>3, <1>4, <1>6
<1>9. ASSUME NEW j \in BoardCallsOf \ {k}, Answered(j), Making(boardCall[j])
      PROVE  board'[Link(boardCall[j].doc)].seen = 0
  <2>1. /\ board[Link(boardCall[j].doc)].seen = 0 /\ Link(boardCall[j].doc) \in Docs
        /\ boardCall[j].doc \in Origins
    BY <1>9, LinkFacts DEF BoardInv, AnswerInv, MadeAnswer, SentInv, Answered, Making
  <2>2. Link(boardCall[j].doc) # made
    BY <1>1, <1>2, <1>3, <1>9, <2>1, LinkFacts
  <2> QED
    BY <1>6, <2>1, <2>2
<1>10. \A j \in BoardCallsOf \ {k} : boardCall'[j] = boardCall[j]
  BY DEF BoardInv, BoardTypeOK, Forget, BoardCallsOf
<1>11. ASSUME NEW d \in Docs, d \notin blurred'
       PROVE  KnownRow(d)'
  <2>1. KnownRow(d) /\ row'[d] = row[d] /\ Row(d)' = Row(d)
    BY <1>7, <1>11 DEF BoardInv, RowsInv, Row
  <2>2. RowComes(d) => RowComes(d)'
    BY <1>10, <2>1 DEF RowComes, Answered, Making
  <2>3. CASE d = made
    <3>1. ~Row(d).linked
      BY <1>3, <2>3, RowFields
    <3>2. board'[d].seen = row[d]
      BY <1>3, <1>6, <1>7, <1>11, <2>3
    <3> QED
      BY <1>6, <2>1, <2>3, <3>1, <3>2 DEF KnownRow
  <2>4. CASE d = c.doc
    <3>1. board'[d].linked /\ board'[d].seen = board[d].seen
      BY <1>3, <1>6, <1>11, <2>4
    <3>2. Row(d).linked
      BY <1>1, <1>2, <1>3, <1>4, <2>4, RowFields
    <3> QED
      BY <2>1, <2>2, <3>1, <3>2 DEF KnownRow
  <2>5. CASE d # made /\ d # c.doc
    <3>1. d # origin
      BY <1>11, <2>5
    <3>2. board'[d] = board[d]
      BY <1>6, <2>5, <3>1
    <3>3. LinkComes(d) => LinkComes(d)'
      BY <1>10, <2>5 DEF LinkComes, Answered, Making
    <3> QED
      BY <2>1, <2>2, <3>2, <3>3 DEF KnownRow
  <2> QED
    BY <2>3, <2>4, <2>5
<1>12. RowsInv'
  BY <1>11 DEF RowsInv
<1> QED
  BY <1>6, <1>7, <1>8, <1>9, <1>12, AnswerKeeps

LEMMA CreationKeeps ==
  ASSUME BoardInv, NEW k \in 1 .. sentCalls, Converted(k) \/ DevisCreated(k)
  PROVE  BoardInv'
<1>1. Answered(k) /\ Making(boardCall[k]) /\ Forget(k)
  BY DEF Converted, DevisCreated, Answered, Making
<1>2. PICK c \in PageCalls : c = boardCall[k]
  BY <1>1, AnswerFacts
<1>3. /\ c.kind \in Kinds /\ c.doc \in Docs /\ c.doc \in Origins /\ c.doc # Link(c.doc)
      /\ board[Link(c.doc)].seen = 0
  BY <1>1, <1>2, AnswerFacts, LinkFacts DEF MadeAnswer
<1>4. CASE Converted(k)
  <2>1. board' = [d \in Docs |-> IF d = Link(c.doc) THEN [seen |-> c.seen, linked |-> FALSE]
                                 ELSE IF d = c.doc THEN Linked(d) ELSE board[d]]
    BY <1>2, <1>3, <1>4 DEF Converted, BoardInv, BoardTypeOK
  <2>2. blurred' = IF c.doc = c.doc THEN blurred ELSE blurred \cup {c.doc, c.doc}
    BY <1>4 DEF Converted
  <2>3. UNCHANGED <<clicks, row, sentCalls, modal, pdf, previewUrl>>
    BY <1>4 DEF Converted
  <2> QED
    BY <1>1, <1>2, <1>3, <2>1, <2>2, <2>3, MadeKeeps
<1>5. CASE DevisCreated(k)
  <2>1. PICK facture \in Docs \cup {NoDoc} :
          /\ facture # Link(c.doc)
          /\ facture = IF modal.of = "devis" THEN modal.doc ELSE NoDoc
    <3>1. NoDoc # Link(c.doc)
      BY <1>3, LinkFacts
    <3>2. modal.of = "devis" => modal.doc \in Docs /\ modal.doc # Link(c.doc)
      BY <1>3 DEF BoardInv, ShownInv, Shown
    <3> QED
      BY <3>1, <3>2
  <2>2. /\ board' = [d \in Docs |-> IF d = Link(c.doc) THEN [seen |-> c.seen, linked |-> FALSE]
                                    ELSE IF d = facture THEN Linked(d) ELSE board[d]]
        /\ blurred' = IF facture = c.doc THEN blurred ELSE blurred \cup {c.doc, facture}
        /\ UNCHANGED <<clicks, row, sentCalls, pdf, previewUrl>> /\ CloseModal("devis")
    BY <1>2, <1>5, <2>1 DEF DevisCreated
  <2>3. modal' = modal \/ (modal' = NoModal /\ modal.of # "preview")
    BY <2>2, ModalCloses DEF Kinds
  <2> QED
    BY <1>1, <1>2, <2>1, <2>2, <2>3, MadeKeeps
<1> QED
  BY <1>4, <1>5

(* The page opened again holds the rows of the database, and hears none of *)
(* the calls under way.                                                    *)
LEMMA ReopenKeeps ==
  ASSUME BoardInv, ReopenBoard
  PROVE  BoardInv'
<1>0. BoardTypeOK /\ \A k \in BoardCallsOf : boardCall[k] \in PageCalls
  BY DEF BoardInv, BoardTypeOK, BoardCallsOf
<1>1. /\ NoCall \in PageCalls /\ NoCall.at = "none"
      /\ NoModal.of = "none" /\ NoModal.doc = NoDoc
      /\ NoModal \in [of : {"none", "convert", "devis", "mail", "sign", "preview"},
                      doc : Docs \cup {NoDoc}]
  BY BoardAssumption DEF NoCall, NoModal, PageCalls
<1>2. ASSUME NEW k \in BoardCallsOf
      PROVE  /\ boardCall'[k] \in PageCalls /\ boardCall'[k].at \in {"none", "orphan"}
             /\ boardCall'[k].at = "orphan" => /\ boardCall[k].at # "none"
                                              /\ boardCall'[k].kind = boardCall[k].kind
                                              /\ boardCall'[k].doc = boardCall[k].doc
  <2>1. /\ [boardCall[k] EXCEPT !.at = "orphan"] \in PageCalls
        /\ [boardCall[k] EXCEPT !.at = "orphan"].at = "orphan"
        /\ [boardCall[k] EXCEPT !.at = "orphan"].kind = boardCall[k].kind
        /\ [boardCall[k] EXCEPT !.at = "orphan"].doc = boardCall[k].doc
    BY <1>0 DEF PageCalls
  <2> QED
    BY <1>1, <2>1 DEF ReopenBoard, BoardCallsOf
<1>3. ASSUME NEW d \in Docs
      PROVE  /\ Row(d) \in [seen : 0 .. MaxWrites, linked : BOOLEAN] /\ Row(d).seen = row[d]
             /\ board'[d] = Row(d)
  BY <1>0 DEF Row, ReopenBoard, BoardTypeOK
<1>4. /\ board' \in [Docs -> [seen : 0 .. MaxWrites, linked : BOOLEAN]]
      /\ boardCall' \in [1 .. MaxCalls -> PageCalls]
  BY <1>2, <1>3 DEF ReopenBoard, BoardCallsOf
<1>5. BoardTypeOK'
  BY <1>0, <1>1, <1>4 DEF BoardTypeOK, ReopenBoard
<1>6. Shown \subseteq Shown' /\ \A d \in Docs : row'[d] = row[d] /\ row[d] \in Nat
  BY <1>0, <1>3 DEF Shown, BoardInv, BoardTypeOK, ShownInv, ReopenBoard
<1>7. ShownInv'
  BY <1>1, <1>3, <1>6 DEF ShownInv, ReopenBoard
<1>8. SentInv'
  BY <1>2, <1>6 DEF BoardInv, SentInv, ReopenBoard
<1>9. AnswerInv'
  BY <1>2 DEF AnswerInv, Answered
<1>10. RowsInv'
  <2>1. \A d \in Docs : Row(d)' = Row(d)
    BY DEF Row, ReopenBoard
  <2> QED
    BY <1>3, <1>6, <2>1 DEF RowsInv, KnownRow
<1>11. PreviewInv'
  BY DEF ReopenBoard, PreviewInv, PreviewIsOfItsInvoice
<1> QED
  BY <1>5, <1>7, <1>8, <1>9, <1>10, <1>11 DEF BoardInv

(* The modals and the preview.                                             *)
LEMMA ModalsKeep ==
  ASSUME BoardInv,
         \/ \E d \in Docs : \/ OpenPreview(d) \/ PdfArrives(d)
                            \/ \E kind \in {"convert", "devis", "mail", "sign"} : OpenModal(kind, d)
         \/ DismissModal \/ ClosePreview
  PROVE  BoardInv'
<1>0. /\ NoModal.of = "none" /\ NoModal.doc = NoDoc
      /\ NoModal \in [of : {"none", "convert", "devis", "mail", "sign", "preview"},
                      doc : Docs \cup {NoDoc}]
  BY DEF NoModal
<1> USE DEF BoardTypeOK, ShownInv, Shown, PreviewInv, PreviewIsOfItsInvoice
<1>a. Click => clicks' \in 0 .. MaxClicks
  BY BoardAssumption DEF Click, BoardInv
<1>1. ASSUME NEW d \in Docs, OpenPreview(d) PROVE BoardInv'
  <2>1. BoardTypeOK'
    BY <1>1, <1>a DEF OpenPreview, BoardInv
  <2>2. ShownInv' /\ PreviewInv'
    BY <1>0, <1>1 DEF OpenPreview, BoardInv
  <2>3. UNCHANGED <<row, board, sentCalls, boardCall, blurred>>
    BY <1>1 DEF OpenPreview
  <2> QED
    BY <2>1, <2>2, <2>3, ModalKeeps
<1>2. ASSUME NEW d \in Docs, PdfArrives(d) PROVE BoardInv'
  <2>1. BoardTypeOK'
    BY <1>2 DEF PdfArrives, BoardInv
  <2>2. ShownInv'
    BY <1>2 DEF PdfArrives, BoardInv
  <2>3. modal = [of |-> "preview", doc |-> d]
    BY <1>2 DEF PdfArrives, BoardInv
  <2>4. PreviewInv'
    BY <1>2, <2>3 DEF PdfArrives, BoardInv
  <2>5. UNCHANGED <<row, board, sentCalls, boardCall, blurred>>
    BY <1>2 DEF PdfArrives
  <2> QED
    BY <2>1, <2>2, <2>4, <2>5, ModalKeeps
<1>3. ASSUME NEW d \in Docs, NEW kind \in {"convert", "devis", "mail", "sign"}, OpenModal(kind, d)
      PROVE  BoardInv'
  <2>1. BoardTypeOK'
    BY <1>3, <1>a DEF OpenModal, BoardInv
  <2>2. ShownInv' /\ PreviewInv'
    BY <1>0, <1>3 DEF OpenModal, BoardInv
  <2>3. UNCHANGED <<row, board, sentCalls, boardCall, blurred>>
    BY <1>3 DEF OpenModal
  <2> QED
    BY <2>1, <2>2, <2>3, ModalKeeps
<1>4. CASE DismissModal
  <2>1. BoardTypeOK'
    BY <1>0, <1>4 DEF DismissModal, BoardInv
  <2>2. ShownInv' /\ PreviewInv'
    BY <1>0, <1>4 DEF DismissModal, BoardInv
  <2>3. UNCHANGED <<row, board, sentCalls, boardCall, blurred>>
    BY <1>4 DEF DismissModal
  <2> QED
    BY <2>1, <2>2, <2>3, ModalKeeps
<1>5. CASE ClosePreview
  <2>1. BoardTypeOK'
    BY <1>0, <1>5 DEF ClosePreview, BoardInv
  <2>2. ShownInv' /\ PreviewInv'
    BY <1>0, <1>5 DEF ClosePreview, BoardInv
  <2>3. UNCHANGED <<row, board, sentCalls, boardCall, blurred>>
    BY <1>5 DEF ClosePreview
  <2> QED
    BY <2>1, <2>2, <2>3, ModalKeeps
<1> QED
  BY <1>1, <1>2, <1>3, <1>4, <1>5

(* The actions that send a call.                                           *)
LEMMA SendsKeep ==
  ASSUME BoardInv,
         \/ \E d \in Docs : \/ Update(d) \/ ConvertDevis(d)
                            \/ \E kind \in {"transmit", "refresh"} : OnePerPage(kind, d)
         \/ \E kind \in {"devis", "mail", "sign"} : Confirm(kind)
  PROVE  BoardInv'
<1>1. ASSUME NEW d \in Docs, Update(d) PROVE BoardInv'
  BY <1>1, SendKeeps DEF Update, Kinds
<1>2. ASSUME NEW d \in Docs, NEW kind \in {"transmit", "refresh"}, OnePerPage(kind, d)
      PROVE  BoardInv'
  BY <1>2, SendKeeps DEF OnePerPage, Kinds
<1>3. ASSUME NEW d \in Docs, ConvertDevis(d) PROVE BoardInv'
  <2>1. /\ modal.of = "convert" /\ modal.doc = d /\ modal' = NoModal
        /\ UNCHANGED <<row, board, pdf, previewUrl, blurred>>
    BY <1>3 DEF ConvertDevis
  <2>2. d \in Shown /\ d \in BoardDevis
    BY <2>1 DEF BoardInv, ShownInv
  <2>3. CASE SendOn("convert", d) /\ clicks' = clicks
    BY <2>1, <2>2, <2>3, SendKeeps DEF Kinds
  <2>4. CASE UNCHANGED <<clicks, sentCalls, boardCall>>
    <3>1. /\ NoModal.of = "none" /\ NoModal.doc = NoDoc
          /\ NoModal \in [of : {"none", "convert", "devis", "mail", "sign", "preview"},
                          doc : Docs \cup {NoDoc}]
      BY DEF NoModal
    <3>2. BoardTypeOK'
      BY <2>1, <2>4, <3>1 DEF BoardInv, BoardTypeOK
    <3>3. ShownInv' /\ PreviewInv'
      BY <2>1, <3>1 DEF BoardInv, ShownInv, Shown, PreviewInv, PreviewIsOfItsInvoice
    <3> QED
      BY <2>1, <2>4, <3>2, <3>3, ModalKeeps
  <2> QED
    BY <1>3, <2>3, <2>4 DEF ConvertDevis
<1>4. ASSUME NEW kind \in {"devis", "mail", "sign"}, Confirm(kind) PROVE BoardInv'
  <2>1. modal.doc \in Shown /\ (kind = "devis" => modal.doc \in BoardFactures)
    BY <1>4 DEF Confirm, BoardInv, ShownInv
  <2> QED
    BY <1>4, <2>1, SendKeeps DEF Confirm, Kinds
<1> QED
  BY <1>1, <1>2, <1>3, <1>4

LEMMA BoardStep ==
  ASSUME BoardInv, [BoardNext]_boardVars
  PROVE  BoardInv'
<1>1. CASE UNCHANGED boardVars
  <2>1. BoardTypeOK' /\ ShownInv' /\ PreviewInv'
    BY <1>1 DEF boardVars, BoardInv, BoardTypeOK, ShownInv, Shown, PreviewInv, PreviewIsOfItsInvoice
  <2> QED
    BY <1>1, <2>1, ModalKeeps DEF boardVars
<1>2. CASE BoardNext
  BY <1>2, SendsKeep, ModalsKeep, ElsewhereKeeps, ServeKeeps, ErrorKeeps, MergeKeeps,
     CreationKeeps, ReopenKeeps DEF BoardNext
<1> QED
  BY <1>1, <1>2

LEMMA BoardAlways == BoardSpec => []BoardInv
BY BoardStarts, BoardStep, PTL DEF BoardSpec

(* The rows, the calls and the modal of the page have the values the code  *)
(* gives them (InvoiceBoardPage).                                          *)
THEOREM BoardTypes == BoardSpec => []BoardTypeOK
<1>1. BoardInv => BoardTypeOK
  BY DEF BoardInv
<1> QED
  BY <1>1, BoardAlways, PTL

(* A row the page does not wait for is the row of the database, for every  *)
(* number of documents, calls and writes, in whatever order the answers    *)
(* come (mergeInvoice, convertDevis, onDevisCreated).                      *)
THEOREM BoardIsOfTheRows == BoardSpec => []BoardShowsTheRow
BY BoardIsTrue, BoardAlways, PTL

(* The PDF shown is that of the document the preview was opened for        *)
(* (openPreview, closePreview).                                            *)
THEOREM PreviewOfInvoice == BoardSpec => []PreviewIsOfItsInvoice
BY BoardIsTrue, BoardAlways, PTL

-------------------------------------------------------------------------------
(* What is saved in the catalogue                                          *)

Slot == [thing : Things \cup {0}, save : BOOLEAN, entry : Nat]
Entry == [thing : Things, kind : EntryKinds]
SaveCall == [thing : Things, kind : EntryKinds, update : BOOLEAN, entry : Nat,
             at : {"sent", "counted", "made", "failed"}]

\* A draft, and one that fits the catalogue.
SlotsShape(s) ==
  /\ \E n \in 0..CatalogueLines : s \in [0..n -> Slot]
  /\ \A p \in DOMAIN s : s[p].entry <= Len(catalogue) /\ (s[p].save => s[p].thing # 0)

Saves(b) == DOMAIN saver[b].calls
BatchShape(b) ==
  /\ saver[b] = [at |-> saver[b].at, calls |-> saver[b].calls]
  /\ saver[b].at \in {"idle", "saving", "creating"}
  /\ saver[b].calls = [p \in Saves(b) |-> saver[b].calls[p]]
  /\ \A p \in Saves(b) : saver[b].calls[p] \in SaveCall /\ saver[b].calls[p].entry <= Len(catalogue)

SavingShape ==
  /\ page \in {"edit", "preview", "created"} /\ SlotsShape(slots) /\ catalogue \in Seq(Entry)
  /\ saver = [b \in Reasons |-> saver[b]] /\ \A b \in Reasons : BatchShape(b)
  /\ \A c \in orphans : c \in SaveCall /\ c.entry <= Len(catalogue)
  /\ allowed \in BOOLEAN /\ edits \in 0 .. MaxEdits /\ mixed \in BOOLEAN /\ unheard \subseteq Things

(* Nothing is saved while the draft is edited, and one batch at a time      *)
(* unless a submission was sent during a refused preview.                   *)
PageInv ==
  /\ page = "edit" => \A b \in Reasons : saver[b].at = "idle"
  /\ \A b \in Reasons : saver[b].at # "saving" => Saves(b) = {}
  /\ saver["refusal"].at # "creating"
  /\ page = "created" => saver["submission"].at = "idle"
  /\ ~mixed => saver["submission"].at = "idle" \/ saver["refusal"].at = "idle"
  /\ ~mixed /\ page = "created" => saver["refusal"].at = "idle"

\* What a page that was left may still create, it will not hear of.
OrphanInv ==
  \A c \in orphans : ~c.update /\ c.at \in {"sent", "counted"} /\ c.thing \in unheard

MadeOnce(b, p) == ~saver[b].calls[p].update /\ saver[b].calls[p].at = "made"
MadeAt(p) == \E b \in Reasons : p \in Saves(b) /\ MadeOnce(b, p)

(* A call is about the position it was made for, and what it made is linked *)
(* to no position yet.                                                      *)
CallInv(b, p) ==
  LET c == saver[b].calls[p]
  IN /\ p \in DOMAIN slots /\ c.thing = slots[p].thing /\ c.kind = KindAt(p)
     /\ c.update <=> slots[p].entry # NoEntry
     /\ c.update => c.entry = slots[p].entry
     /\ MadeOnce(b, p) =>
          /\ c.entry # NoEntry /\ catalogue[c.entry] = [thing |-> c.thing, kind |-> c.kind]
          /\ \A q \in DOMAIN slots : slots[q].entry # c.entry
          /\ \A q \in Saves(b) \ {p} : MadeOnce(b, q) => saver[b].calls[q].entry # c.entry
CallsInv == \A b \in Reasons : \A p \in Saves(b) : CallInv(b, p)

(* A position is linked to what it describes, two positions neither to one  *)
(* entry nor about one thing that is well known, and of an unlinked one     *)
(* that nothing was just made for there is no entry.                        *)
SlotsInv(s) ==
  /\ \A p \in DOMAIN s : s[p].entry # NoEntry =>
       catalogue[s[p].entry] = [thing |-> s[p].thing, kind |-> KindAt(p)]
  /\ \A p, q \in DOMAIN s : p # q /\ s[p].entry = s[q].entry => s[p].entry = NoEntry
  /\ \A p, q \in DOMAIN s : p # q /\ s[p].thing = s[q].thing => s[p].thing \in unheard \cup {0}
Unknown(t) == t \in unheard \/ \A e \in Entries : catalogue[e].thing # t
UnlinkedInv(s) ==
  \A p \in DOMAIN s : s[p].entry = NoEntry /\ ~MadeAt(p) => Unknown(s[p].thing)

EntriesInv ==
  \A e, f \in Entries : e # f /\ catalogue[e].thing = catalogue[f].thing => catalogue[e].thing \in unheard

GoodSaving == CallsInv /\ SlotsInv(slots) /\ UnlinkedInv(slots) /\ EntriesInv

SavingInv == SavingShape /\ PageInv /\ OrphanInv /\ (~mixed => GoodSaving)

LEMMA SlotsAreNumbered ==
  ASSUME NEW s, SlotsShape(s)
  PROVE  \E n \in 0..CatalogueLines :
           /\ DOMAIN s = 0..n /\ DOMAIN s \ {0} = 1..n /\ Cardinality(DOMAIN s \ {0}) = n
           /\ n \in Nat /\ s \in [0..n -> Slot]
<1>1. PICK n \in 0..CatalogueLines : s \in [0..n -> Slot]
  BY DEF SlotsShape
<1>2. n \in Nat
  BY CatalogueAssumption
<1>3. DOMAIN s = 0..n /\ DOMAIN s \ {0} = 1..n
  BY <1>1, <1>2
<1>4. Cardinality(1..n) = n
  BY <1>2, FS_Interval
<1> QED
  BY <1>1, <1>2, <1>3, <1>4

LEMMA CatalogueIs ==
  ASSUME catalogue \in Seq(Entry)
  PROVE  /\ Len(catalogue) \in Nat /\ Entries = 1..Len(catalogue)
         /\ \A e \in Entries : catalogue[e] \in Entry
BY LenProperties, ElementOfSeq DEF Entries

(* While the draft is edited no call is under way.                         *)
LEMMA NothingSaved ==
  ASSUME SavingInv, page = "edit"
  PROVE  /\ \A b \in Reasons : saver[b].at = "idle" /\ Saves(b) = {}
         /\ ~mixed => SlotsInv(slots) /\ UnlinkedInv(slots) /\ EntriesInv
         /\ \A p : ~MadeAt(p)
BY DEF SavingInv, PageInv, MadeAt, GoodSaving

LEMMA ThingIsNew ==
  ASSUME NewThing # 0
  PROVE  NewThing \in Things \ Taken
BY DEF NewThing

(* An edit that leaves a draft whose links are right.                       *)
LEMMA EditSaves ==
  ASSUME SavingInv, page = "edit", SlotsShape(slots'), edits' \in 0..MaxEdits, EditOnly,
         ~mixed => /\ SlotsInv(slots')
                   /\ \A p \in DOMAIN slots' : slots'[p].entry = NoEntry => Unknown(slots'[p].thing)
  PROVE  SavingInv'
<1>1. UNCHANGED <<page, catalogue, saver, orphans, allowed, unheard, mixed>>
  BY DEF EditOnly
<1>2. \A b \in Reasons : saver[b].at = "idle" /\ Saves(b) = {}
  BY NothingSaved
<1>3. SavingShape' /\ PageInv' /\ OrphanInv'
  BY <1>1 DEF SavingInv, SavingShape, SlotsShape, BatchShape, Saves, PageInv, OrphanInv
<1>4. ASSUME ~mixed PROVE GoodSaving'
  <2>1. CallsInv'
    BY <1>1, <1>2 DEF CallsInv, Saves
  <2>2. SlotsInv(slots)'
    BY <1>1, <1>4 DEF SlotsInv
  <2>3. UnlinkedInv(slots)'
    BY <1>1, <1>4 DEF UnlinkedInv, Unknown, Entries
  <2>4. EntriesInv'
    BY <1>1, <1>4 DEF SavingInv, GoodSaving, EntriesInv, Entries
  <2> QED
    BY <2>1, <2>2, <2>3, <2>4 DEF GoodSaving
<1> QED
  BY <1>1, <1>3, <1>4 DEF SavingInv

(* A draft made of the positions of another, in an order that keeps the     *)
(* customer the customer.                                                   *)
LEMMA SamePositions ==
  ASSUME SavingInv, page = "edit", ~mixed, NEW s, NEW f \in [DOMAIN s -> DOMAIN slots],
         \A p, q \in DOMAIN s : f[p] = f[q] => p = q,
         \A p \in DOMAIN s : /\ KindAt(f[p]) = KindAt(p) /\ s[p].thing = slots[f[p]].thing
                             /\ s[p].entry = slots[f[p]].entry
  PROVE  SlotsInv(s) /\ \A p \in DOMAIN s : s[p].entry = NoEntry => Unknown(s[p].thing)
<1>1. SlotsInv(slots) /\ UnlinkedInv(slots) /\ \A p : ~MadeAt(p)
  BY NothingSaved
<1>2. SlotsInv(s)
  BY <1>1 DEF SlotsInv
<1>3. \A p \in DOMAIN s : s[p].entry = NoEntry => Unknown(s[p].thing)
  BY <1>1 DEF UnlinkedInv
<1> QED
  BY <1>2, <1>3

(* A line is added that is new, or that no other line is linked like.       *)
LEMMA NewLine ==
  ASSUME SavingInv, page = "edit", RoomForLine, NEW line \in Slot, ~line.save,
         line.entry <= Len(catalogue),
         line.entry # NoEntry => \A p \in Lines : slots[p].entry # line.entry,
         line.entry # NoEntry => catalogue[line.entry] = [thing |-> line.thing, kind |-> "item"],
         line.entry = NoEntry => line.thing \notin Taken
  PROVE  /\ SlotsShape(WithLine(line))
         /\ ~mixed => /\ SlotsInv(WithLine(line))
                      /\ \A p \in DOMAIN WithLine(line) :
                           WithLine(line)[p].entry = NoEntry => Unknown(WithLine(line)[p].thing)
<1>1. SlotsShape(slots) /\ catalogue \in Seq(Entry)
  BY DEF SavingInv, SavingShape
<1>2. PICK n \in 0..CatalogueLines :
        /\ DOMAIN slots = 0..n /\ Lines = 1..n /\ Cardinality(Lines) = n /\ n \in Nat
        /\ slots \in [0..n -> Slot]
  BY <1>1, SlotsAreNumbered DEF Lines
<1> DEFINE s == WithLine(line)
           new == n + 1
<1>3. /\ new \in 1..CatalogueLines /\ DOMAIN s = 0..new
      /\ \A p \in DOMAIN s : s[p] = IF p \in DOMAIN slots THEN slots[p] ELSE line
      /\ DOMAIN s = DOMAIN slots \cup {new} /\ new \notin DOMAIN slots /\ new # 0
  <2>1. n < CatalogueLines /\ CatalogueLines \in Nat
    BY <1>2, CatalogueAssumption DEF RoomForLine
  <2>2. new \in 1..CatalogueLines /\ (0..n) \cup {new} = 0..new /\ new \notin 0..n /\ new # 0
    BY <1>2, <2>1
  <2>3. s = [p \in 0..new |-> IF p \in DOMAIN slots THEN slots[p] ELSE line]
    BY <1>2, <2>2 DEF WithLine
  <2> QED
    BY <1>2, <2>2, <2>3
<1> HIDE DEF s, new
<1>4. s[new] = line /\ \A p \in DOMAIN slots : s[p] = slots[p] /\ p \in DOMAIN s
  BY <1>3
<1>5. SlotsShape(s)
  <2>1. s = [p \in 0..new |-> s[p]]
    BY <1>2, <1>3 DEF s, new, WithLine
  <2>2. \A p \in 0..new : s[p] \in Slot
    BY <1>2, <1>3
  <2>3. s \in [0..new -> Slot] /\ new \in 0..CatalogueLines
    BY <1>3, <2>1, <2>2
  <2>4. \A p \in DOMAIN s : s[p].entry <= Len(catalogue) /\ (s[p].save => s[p].thing # 0)
    BY <1>1, <1>3 DEF SlotsShape
  <2> QED
    BY <2>3, <2>4 DEF SlotsShape
<1>6. ASSUME ~mixed
      PROVE  SlotsInv(s) /\ \A p \in DOMAIN s : s[p].entry = NoEntry => Unknown(s[p].thing)
  <2>1. /\ SlotsInv(slots) /\ EntriesInv
        /\ \A p \in DOMAIN slots : slots[p].entry = NoEntry => Unknown(slots[p].thing)
    BY <1>6, NothingSaved DEF UnlinkedInv
  <2>11. \A p \in DOMAIN slots : slots[p].entry # NoEntry =>
          catalogue[slots[p].entry] = [thing |-> slots[p].thing, kind |-> KindAt(p)]
    BY <2>1 DEF SlotsInv
  <2>12. \A p, q \in DOMAIN slots : p # q /\ slots[p].entry = slots[q].entry => slots[p].entry = NoEntry
    BY <2>1 DEF SlotsInv
  <2>2. /\ \A p \in DOMAIN slots : slots[p].thing \in Taken
        /\ \A e \in Entries : catalogue[e].thing \in Taken
    BY DEF Taken
  <2>3. /\ \A p \in DOMAIN slots : slots[p].entry \in Nat /\ slots[p].entry <= Len(catalogue)
        /\ Len(catalogue) \in Nat /\ Entries = 1..Len(catalogue) /\ line.entry \in Nat
    BY <1>1, <1>2, CatalogueIs DEF SlotsShape, Slot
  <2>4. KindAt(new) = "item" /\ KindAt(0) = "customer"
    BY <1>3 DEF KindAt
  <2>5. ASSUME NEW p \in DOMAIN slots, line.entry # NoEntry PROVE slots[p].entry # line.entry
    <3>1. CASE p = 0
      <4>1. slots[p].entry # NoEntry => catalogue[slots[p].entry].kind = "customer"
        <5>1. SUFFICES ASSUME slots[p].entry # NoEntry
                       PROVE  catalogue[slots[p].entry].kind = "customer"
          OBVIOUS
        <5>2. catalogue[slots[p].entry] = [thing |-> slots[p].thing, kind |-> KindAt(p)]
          BY <2>11, <5>1
        <5> QED
          BY <3>1, <2>4, <5>2
      <4>2. catalogue[line.entry].kind = "item"
        BY <2>5
      <4> QED
        BY <4>1, <4>2, <2>5
    <3>2. CASE p # 0
      BY <3>2, <2>5 DEF Lines
    <3> QED
      BY <3>1, <3>2
  <2>6. ASSUME NEW p \in DOMAIN slots, slots[p].thing = line.thing PROVE line.thing \in unheard
    <3>1. line.entry # NoEntry
      BY <2>2, <2>6
    <3>2. line.entry \in Entries /\ catalogue[line.entry].thing = line.thing
      BY <2>3, <3>1 DEF NoEntry
    <3>3. CASE slots[p].entry = NoEntry
      BY <2>1, <2>6, <3>2, <3>3 DEF Unknown
    <3>4. CASE slots[p].entry # NoEntry
      <4>1. slots[p].entry \in Entries /\ catalogue[slots[p].entry].thing = line.thing
        <5>1. catalogue[slots[p].entry] = [thing |-> slots[p].thing, kind |-> KindAt(p)]
          BY <2>11, <3>4
        <5>2. slots[p].entry \in Entries
          BY <2>3, <3>4 DEF NoEntry
        <5> QED
          BY <2>6, <5>1, <5>2
      <4>2. slots[p].entry # line.entry
        BY <2>5, <3>1
      <4> QED
        BY <2>1, <3>2, <4>1, <4>2 DEF EntriesInv
    <3> QED
      BY <3>3, <3>4
  <2>7. \A p \in DOMAIN s : s[p].entry # NoEntry =>
          catalogue[s[p].entry] = [thing |-> s[p].thing, kind |-> KindAt(p)]
    BY <1>3, <1>4, <2>1, <2>4 DEF SlotsInv
  <2>8. \A p, q \in DOMAIN s : p # q /\ s[p].entry = s[q].entry => s[p].entry = NoEntry
    <3>1. SUFFICES ASSUME NEW p \in DOMAIN s, NEW q \in DOMAIN s, p # q, s[p].entry = s[q].entry
                   PROVE  s[p].entry = NoEntry
      OBVIOUS
    <3>2. CASE p = new
      BY <1>3, <1>4, <2>5, <3>1, <3>2
    <3>3. CASE q = new
      BY <1>3, <1>4, <2>5, <3>1, <3>3
    <3>4. CASE p # new /\ q # new
      BY <1>3, <1>4, <2>12, <3>1, <3>4
    <3> QED
      BY <3>2, <3>3, <3>4
  <2>9. \A p, q \in DOMAIN s : p # q /\ s[p].thing = s[q].thing => s[p].thing \in unheard \cup {0}
    BY <1>3, <1>4, <2>1, <2>6 DEF SlotsInv
  <2>10. \A p \in DOMAIN s : s[p].entry = NoEntry => Unknown(s[p].thing)
    BY <1>3, <1>4, <2>1, <2>2 DEF Unknown
  <2> QED
    BY <2>7, <2>8, <2>9, <2>10 DEF SlotsInv
<1> QED
  BY <1>5, <1>6 DEF s

LEMMA TypeLineSaves ==
  ASSUME SavingInv, TypeLine
  PROVE  SavingInv'
<1> DEFINE line == LineOf(NewThing, NoEntry)
<1>1. /\ page = "edit" /\ edits' \in 0..MaxEdits /\ EditOnly /\ RoomForLine /\ NewThing # 0
      /\ slots' = WithLine(line)
  BY CatalogueAssumption DEF TypeLine, Edit, SavingInv, SavingShape
<1>2. NewThing \in Things \ Taken
  BY <1>1, ThingIsNew
<1>3. /\ line \in Slot /\ ~line.save /\ line.entry = NoEntry /\ line.thing \notin Taken
      /\ line.entry <= Len(catalogue)
  BY <1>2, CatalogueIs DEF LineOf, Slot, NoEntry, SavingInv, SavingShape
<1> HIDE DEF line
<1> QED
  BY <1>1, <1>3, NewLine, EditSaves

LEMMA PickEntrySaves ==
  ASSUME SavingInv, NEW e, PickEntry(e)
  PROVE  SavingInv'
<1> DEFINE line == Picked(e)
<1>1. /\ page = "edit" /\ edits' \in 0..MaxEdits /\ EditOnly /\ RoomForLine /\ NewThing # 0
      /\ slots' = WithLine(line) /\ e \in Entries /\ catalogue[e].kind = "item"
  BY CatalogueAssumption DEF PickEntry, Edit, SavingInv, SavingShape, EntriesOf
<1>2. NewThing \in Things \ Taken
  BY <1>1, ThingIsNew
<1>3. /\ Len(catalogue) \in Nat /\ Entries = 1..Len(catalogue) /\ catalogue[e] \in Entry
  BY <1>1, CatalogueIs DEF SavingInv, SavingShape
<1>4. /\ line \in Slot /\ ~line.save /\ line.entry <= Len(catalogue)
      /\ line.entry # NoEntry => /\ \A p \in Lines : slots[p].entry # line.entry
                                 /\ catalogue[line.entry] = [thing |-> line.thing, kind |-> "item"]
      /\ line.entry = NoEntry => line.thing \notin Taken
  <2>1. CASE \E p \in Lines : slots[p].entry = e
    <3>1. line = [thing |-> NewThing, save |-> FALSE, entry |-> NoEntry]
      BY <2>1 DEF Picked, LineOf
    <3> HIDE DEF line
    <3> QED
      BY <1>2, <1>3, <3>1 DEF Slot, NoEntry
  <2>2. CASE ~\E p \in Lines : slots[p].entry = e
    <3>1. line = [thing |-> catalogue[e].thing, save |-> FALSE, entry |-> e]
      BY <2>2 DEF Picked, LineOf
    <3>2. catalogue[e] = [thing |-> catalogue[e].thing, kind |-> "item"] /\ catalogue[e].thing \in Things
      BY <1>1, <1>3 DEF Entry
    <3>3. e \in Nat /\ e # NoEntry /\ e <= Len(catalogue)
      BY <1>1, <1>3 DEF NoEntry
    <3> HIDE DEF line
    <3> QED
      BY <2>2, <3>1, <3>2, <3>3 DEF Slot
  <2> QED
    BY <2>1, <2>2
<1> HIDE DEF line
<1> QED
  BY <1>1, <1>4, NewLine, EditSaves

LEMMA RemoveSlotSaves ==
  ASSUME SavingInv, NEW p, RemoveSlot(p)
  PROVE  SavingInv'
<1> DEFINE s == [q \in DOMAIN slots \ {Cardinality(Lines)} |-> IF q < p THEN slots[q] ELSE slots[q + 1]]
           f == [q \in DOMAIN s |-> IF q < p THEN q ELSE q + 1]
<1>1. page = "edit" /\ edits' \in 0..MaxEdits /\ EditOnly /\ p \in Lines /\ slots' = s
  BY CatalogueAssumption DEF RemoveSlot, Edit, SavingInv, SavingShape
<1>2. SlotsShape(slots)
  BY DEF SavingInv, SavingShape
<1>3. PICK n \in 0..CatalogueLines :
        /\ DOMAIN slots = 0..n /\ Lines = 1..n /\ Cardinality(Lines) = n /\ n \in Nat
        /\ slots \in [0..n -> Slot]
  BY <1>2, SlotsAreNumbered DEF Lines
<1>4. /\ DOMAIN s = 0..(n - 1) /\ n - 1 \in 0..CatalogueLines /\ p \in 1..n
      /\ f \in [DOMAIN s -> DOMAIN slots]
  <2>1. n - 1 \in 0..CatalogueLines /\ p \in 1..n /\ (0..n) \ {n} = 0..(n - 1)
    BY <1>1, <1>3, CatalogueAssumption
  <2>2. DOMAIN s = 0..(n - 1)
    BY <1>3, <2>1
  <2>3. \A q \in 0..(n - 1) : q \in 0..n /\ q + 1 \in 0..n
    BY <1>3
  <2> QED
    BY <1>3, <2>1, <2>2, <2>3
<1>5. \A q \in DOMAIN s : s[q] = slots[f[q]]
  OBVIOUS
<1>6. \A q, r \in DOMAIN s : f[q] = f[r] => q = r
  BY <1>4
<1>7. \A q \in DOMAIN s : KindAt(f[q]) = KindAt(q)
  BY <1>4 DEF KindAt
<1>8. s = [q \in 0..(n - 1) |-> s[q]]
  BY <1>4
<1> HIDE DEF s, f
<1>9. \A q \in DOMAIN s : f[q] \in DOMAIN slots /\ s[q] \in Slot
  BY <1>3, <1>4, <1>5
<1>10. SlotsShape(s)
  BY <1>2, <1>4, <1>5, <1>8, <1>9 DEF SlotsShape
<1>11. ~mixed => SlotsInv(s) /\ \A q \in DOMAIN s : s[q].entry = NoEntry => Unknown(s[q].thing)
  BY <1>1, <1>4, <1>5, <1>6, <1>7, SamePositions
<1> QED
  BY <1>1, <1>10, <1>11, EditSaves

LEMMA ToggleSaveSaves ==
  ASSUME SavingInv, NEW p, ToggleSave(p)
  PROVE  SavingInv'
<1> DEFINE s == [slots EXCEPT ![p].save = ~@]
           f == [q \in DOMAIN s |-> q]
<1>1. /\ page = "edit" /\ edits' \in 0..MaxEdits /\ EditOnly /\ p \in DOMAIN slots
      /\ slots[p].thing # 0 /\ slots' = s
  BY CatalogueAssumption DEF ToggleSave, Edit, SavingInv, SavingShape
<1>2. SlotsShape(slots)
  BY DEF SavingInv, SavingShape
<1>3. PICK n \in 0..CatalogueLines : DOMAIN slots = 0..n /\ slots \in [0..n -> Slot]
  BY <1>2, SlotsAreNumbered
<1>4. /\ DOMAIN s = 0..n /\ s = [q \in 0..n |-> s[q]]
      /\ \A q \in 0..n : /\ s[q] \in Slot /\ s[q].thing = slots[q].thing /\ s[q].entry = slots[q].entry
                         /\ q # p => s[q] = slots[q]
  BY <1>1, <1>3 DEF Slot
<1>5. f \in [DOMAIN s -> DOMAIN slots] /\ \A q \in DOMAIN s : f[q] = q
  BY <1>3, <1>4
<1> HIDE DEF s, f
<1>6. SlotsShape(s)
  BY <1>1, <1>2, <1>3, <1>4 DEF SlotsShape
<1>7. ~mixed => SlotsInv(s) /\ \A q \in DOMAIN s : s[q].entry = NoEntry => Unknown(s[q].thing)
  <2>1. \A q, r \in DOMAIN s : f[q] = f[r] => q = r
    BY <1>5
  <2>2. \A q \in DOMAIN s : /\ KindAt(f[q]) = KindAt(q) /\ s[q].thing = slots[f[q]].thing
                            /\ s[q].entry = slots[f[q]].entry
    BY <1>4, <1>5
  <2> QED
    BY <1>1, <1>5, <2>1, <2>2, SamePositions
<1> QED
  BY <1>1, <1>6, <1>7, EditSaves

(* A draft of a customer and nothing else.                                  *)
LEMMA OnlyCustomer ==
  ASSUME SavingInv, NEW customer \in Slot, ~customer.save, customer.entry <= Len(catalogue),
         customer.entry # NoEntry =>
           catalogue[customer.entry] = [thing |-> customer.thing, kind |-> "customer"],
         customer.entry = NoEntry => Unknown(customer.thing)
  PROVE  LET s == [p \in {0} |-> customer]
         IN /\ SlotsShape(s) /\ SlotsInv(s)
            /\ \A p \in DOMAIN s : s[p].entry = NoEntry => Unknown(s[p].thing)
<1> DEFINE s == [p \in {0} |-> customer]
<1>1. DOMAIN s = {0} /\ s[0] = customer /\ 0 \in 0..CatalogueLines /\ s \in [0..0 -> Slot]
  BY CatalogueAssumption
<1> HIDE DEF s
<1>2. SlotsShape(s)
  BY <1>1 DEF SlotsShape
<1>3. SlotsInv(s) /\ \A p \in DOMAIN s : s[p].entry = NoEntry => Unknown(s[p].thing)
  BY <1>1 DEF SlotsInv, KindAt
<1> QED
  BY <1>2, <1>3 DEF s

LEMMA NewDraftIsGood ==
  ASSUME SavingInv
  PROVE  /\ SlotsShape(NewDraft) /\ SlotsInv(NewDraft)
         /\ \A p \in DOMAIN NewDraft : NewDraft[p].entry = NoEntry => Unknown(NewDraft[p].thing)
<1>1. Blank \in Slot /\ ~Blank.save /\ Blank.entry = NoEntry /\ Blank.thing = 0
  BY DEF Blank, Slot, NoEntry
<1>2. Blank.entry <= Len(catalogue) /\ Unknown(0)
  BY <1>1, CatalogueIs, CatalogueAssumption DEF SavingInv, SavingShape, NoEntry, Unknown, Entry
<1> QED
  BY <1>1, <1>2, OnlyCustomer DEF NewDraft

LEMMA NewCustomer ==
  ASSUME SavingInv, NEW customer \in Slot, NameCustomer(customer), ~customer.save,
         customer.entry <= Len(catalogue),
         customer.entry # NoEntry =>
           catalogue[customer.entry] = [thing |-> customer.thing, kind |-> "customer"],
         customer.entry = NoEntry => customer.thing \notin Taken
  PROVE  SavingInv'
<1>1. page = "edit" /\ edits' \in 0..MaxEdits /\ EditOnly /\ slots' = ForCustomer(customer)
  BY CatalogueAssumption DEF NameCustomer, Edit, SavingInv, SavingShape
<1>2. \A e \in Entries : catalogue[e].thing \in Taken
  BY DEF Taken
<1>3. CASE customer.entry # slots[0].entry
  <2>1. customer.entry = NoEntry => Unknown(customer.thing)
    BY <1>2 DEF Unknown
  <2>2. slots' = [p \in {0} |-> customer]
    BY <1>1, <1>3 DEF ForCustomer
  <2> QED
    BY <1>1, <2>1, <2>2, OnlyCustomer, EditSaves
<1>4. CASE customer.entry = slots[0].entry
  <2> DEFINE s == [slots EXCEPT ![0] = customer]
  <2>1. slots' = s
    BY <1>1, <1>4 DEF ForCustomer
  <2>2. SlotsShape(slots)
    BY DEF SavingInv, SavingShape
  <2>3. PICK n \in 0..CatalogueLines : DOMAIN slots = 0..n /\ slots \in [0..n -> Slot] /\ n \in Nat
    BY <2>2, SlotsAreNumbered
  <2>4. /\ DOMAIN s = 0..n /\ s = [q \in 0..n |-> s[q]] /\ 0 \in 0..n /\ s[0] = customer
        /\ \A q \in 0..n : s[q] \in Slot /\ (q # 0 => s[q] = slots[q])
    <3>1. 0 \in 0..n
      BY <2>3
    <3>2. s = [q \in 0..n |-> IF q = 0 THEN customer ELSE slots[q]]
      BY <2>3
    <3> HIDE DEF s
    <3>3. DOMAIN s = 0..n /\ \A q \in 0..n : s[q] = IF q = 0 THEN customer ELSE slots[q]
      BY <3>2
    <3>4. \A q \in 0..n : s[q] \in Slot
      BY <2>3, <3>3
    <3>5. s = [q \in 0..n |-> s[q]]
      BY <3>2
    <3> QED
      BY <3>1, <3>3, <3>4, <3>5
  <2> HIDE DEF s
  <2>5. SlotsShape(s)
    BY <2>2, <2>3, <2>4 DEF SlotsShape
  <2>6. ASSUME ~mixed
        PROVE  SlotsInv(s) /\ \A q \in DOMAIN s : s[q].entry = NoEntry => Unknown(s[q].thing)
    <3>1. /\ SlotsInv(slots)
          /\ \A p \in DOMAIN slots : slots[p].entry = NoEntry => Unknown(slots[p].thing)
      BY <1>1, <2>6, NothingSaved DEF UnlinkedInv
    <3>2. \A p \in DOMAIN slots : slots[p].thing \in Taken
      BY DEF Taken
    <3>3. CASE customer.entry # NoEntry
      <4>1. catalogue[slots[0].entry] = [thing |-> slots[0].thing, kind |-> KindAt(0)]
        BY <1>4, <2>3, <2>4, <3>1, <3>3 DEF SlotsInv
      <4>2. customer.thing = slots[0].thing
        BY <1>4, <3>3, <4>1
      <4> DEFINE f == [q \in DOMAIN s |-> q]
      <4>3. f \in [DOMAIN s -> DOMAIN slots] /\ \A q \in DOMAIN s : f[q] = q
        BY <2>3, <2>4
      <4>4. \A q \in DOMAIN s : s[q].thing = slots[q].thing /\ s[q].entry = slots[q].entry
        BY <1>4, <2>4, <4>2
      <4> HIDE DEF f
      <4> QED
        BY <1>1, <2>6, <4>3, <4>4, SamePositions
    <3>4. CASE customer.entry = NoEntry
      <4>1. \A p \in DOMAIN s \ {0} : s[p] = slots[p] /\ p \in DOMAIN slots /\ s[p].thing # customer.thing
        BY <2>3, <2>4, <3>2, <3>4
      <4>2. \A p \in DOMAIN s : s[p].entry # NoEntry =>
              catalogue[s[p].entry] = [thing |-> s[p].thing, kind |-> KindAt(p)]
        BY <2>4, <3>1, <3>4, <4>1 DEF SlotsInv
      <4>3. \A p, q \in DOMAIN s : p # q /\ s[p].entry = s[q].entry => s[p].entry = NoEntry
        BY <2>4, <3>1, <3>4, <4>1 DEF SlotsInv
      <4>4. \A p, q \in DOMAIN s : p # q /\ s[p].thing = s[q].thing => s[p].thing \in unheard \cup {0}
        BY <2>4, <3>1, <3>4, <4>1 DEF SlotsInv
      <4>5. \A q \in DOMAIN s : s[q].entry = NoEntry => Unknown(s[q].thing)
        BY <1>2, <2>4, <3>1, <3>4, <4>1 DEF Unknown
      <4> QED
        BY <4>2, <4>3, <4>4, <4>5 DEF SlotsInv
    <3> QED
      BY <3>3, <3>4
  <2> QED
    BY <1>1, <2>1, <2>5, <2>6, EditSaves
<1> QED
  BY <1>3, <1>4

LEMMA TypeCustomerSaves ==
  ASSUME SavingInv, TypeCustomer
  PROVE  SavingInv'
<1> DEFINE customer == LineOf(NewThing, NoEntry)
<1>1. NewThing \in Things \ Taken /\ NameCustomer(customer)
  BY ThingIsNew DEF TypeCustomer
<1>2. /\ customer \in Slot /\ ~customer.save /\ customer.entry = NoEntry
      /\ customer.thing \notin Taken /\ customer.entry <= Len(catalogue)
  BY <1>1, CatalogueIs DEF LineOf, Slot, NoEntry, SavingInv, SavingShape
<1> HIDE DEF customer
<1> QED
  BY <1>1, <1>2, NewCustomer

LEMMA PickCustomerSaves ==
  ASSUME SavingInv, NEW e, PickCustomer(e)
  PROVE  SavingInv'
<1> DEFINE customer == LineOf(catalogue[e].thing, e)
<1>1. e \in Entries /\ catalogue[e].kind = "customer" /\ NameCustomer(customer)
  BY DEF PickCustomer, EntriesOf
<1>2. /\ Len(catalogue) \in Nat /\ Entries = 1..Len(catalogue) /\ catalogue[e] \in Entry
  BY <1>1, CatalogueIs DEF SavingInv, SavingShape
<1>3. catalogue[e] = [thing |-> catalogue[e].thing, kind |-> "customer"] /\ catalogue[e].thing \in Things
  BY <1>1, <1>2 DEF Entry
<1>4. /\ customer \in Slot /\ ~customer.save /\ customer.entry = e /\ customer.thing = catalogue[e].thing
      /\ e <= Len(catalogue) /\ e # NoEntry
  BY <1>1, <1>2, <1>3 DEF LineOf, Slot, NoEntry
<1> HIDE DEF customer
<1> QED
  BY <1>1, <1>3, <1>4, NewCustomer

LEMMA StartOverSaves ==
  ASSUME SavingInv, StartOver
  PROVE  SavingInv'
<1>1. page = "edit" /\ slots' = NewDraft /\ EditOnly /\ edits' \in 0..MaxEdits
  BY DEF StartOver, SavingInv, SavingShape
<1> QED
  BY <1>1, NewDraftIsGood, EditSaves

LEMMA PlanChangesSaves ==
  ASSUME SavingInv, PlanChanges
  PROVE  SavingInv'
<1>1. /\ edits' \in 0..MaxEdits /\ allowed' \in BOOLEAN
      /\ UNCHANGED <<page, slots, catalogue, saver, orphans, unheard, mixed>>
  BY CatalogueAssumption DEF PlanChanges, SavingInv, SavingShape
<1>2. SavingShape' /\ PageInv' /\ OrphanInv'
  BY <1>1 DEF SavingInv, SavingShape, SlotsShape, BatchShape, Saves, PageInv, OrphanInv
<1>3. GoodSaving => GoodSaving'
  BY <1>1 DEF GoodSaving, CallsInv, CallInv, MadeOnce, Saves, SlotsInv, UnlinkedInv, Unknown, MadeAt, EntriesInv, Entries
<1> QED
  BY <1>1, <1>2, <1>3 DEF SavingInv

(* A batch starts while no other is under way, or the draft is mixed.       *)
LEMMA BatchStarts ==
  ASSUME SavingInv, NEW b \in Reasons, saver' = [saver EXCEPT ![b] = Saving],
         page' = "preview", edits' \in 0..MaxEdits, mixed' \in BOOLEAN,
         UNCHANGED <<slots, catalogue, orphans, allowed, unheard>>,
         ~mixed' => ~mixed /\ \A d \in Reasons : saver[d].at = "idle"
  PROVE  SavingInv'
<1> DEFINE calls == [p \in Wanted |-> [thing |-> slots[p].thing, kind |-> KindAt(p),
                                       update |-> slots[p].entry # NoEntry,
                                       entry |-> slots[p].entry, at |-> "sent"]]
<1>1. SavingShape /\ PageInv /\ OrphanInv
  BY DEF SavingInv
<1>2. PICK n \in 0..CatalogueLines : DOMAIN slots = 0..n /\ slots \in [0..n -> Slot] /\ n \in Nat
  BY <1>1, SlotsAreNumbered DEF SavingShape
<1>3. /\ saver' = [d \in Reasons |-> saver'[d]] /\ saver'[b] = [at |-> "saving", calls |-> calls]
      /\ \A d \in Reasons \ {b} : saver'[d] = saver[d]
  BY <1>1 DEF SavingShape, Saving
<1>4. /\ DOMAIN calls = Wanted /\ Wanted \subseteq DOMAIN slots
      /\ \A p \in Wanted : /\ calls[p].thing = slots[p].thing /\ calls[p].kind = KindAt(p)
                           /\ calls[p].update = (slots[p].entry # NoEntry)
                           /\ calls[p].entry = slots[p].entry /\ calls[p].at = "sent"
  BY DEF Wanted
<1>5. \A p \in Wanted : calls[p] \in SaveCall /\ calls[p].entry <= Len(catalogue)
  <2>1. SUFFICES ASSUME NEW p \in Wanted PROVE calls[p] \in SaveCall /\ calls[p].entry <= Len(catalogue)
    OBVIOUS
  <2>2. slots[p] \in Slot /\ slots[p].thing # 0 /\ slots[p].entry <= Len(catalogue)
    BY <1>1, <1>2 DEF Wanted, SavingShape, SlotsShape
  <2>3. slots[p].thing \in Things /\ slots[p].entry \in Nat
    BY <2>2 DEF Slot
  <2> QED
    BY <2>2, <2>3 DEF SaveCall, KindAt, EntryKinds
<1>6. calls = [p \in Wanted |-> calls[p]]
  OBVIOUS
<1> HIDE DEF calls
<1>7. /\ Saves(b)' = Wanted /\ saver'[b].at = "saving" /\ saver'[b].calls = calls
      /\ \A d \in Reasons \ {b} : Saves(d)' = Saves(d)
  BY <1>3, <1>4 DEF Saves
<1>8. \A d \in Reasons : BatchShape(d)'
  <2>1. BatchShape(b)'
    BY <1>3, <1>4, <1>5, <1>6, <1>7 DEF BatchShape
  <2>2. ASSUME NEW d \in Reasons \ {b} PROVE BatchShape(d)'
    BY <1>1, <1>3, <1>7, <2>2 DEF BatchShape, SavingShape
  <2> QED
    BY <2>1, <2>2
<1>9. SavingShape' /\ OrphanInv'
  BY <1>1, <1>3, <1>8 DEF SavingShape, SlotsShape, OrphanInv
<1>10. PageInv'
  BY <1>1, <1>3, <1>7 DEF PageInv, Reasons
<1>11. ASSUME ~mixed' PROVE GoodSaving'
  <2>1. /\ GoodSaving /\ \A d \in Reasons : saver[d].at = "idle" /\ Saves(d) = {}
    BY <1>1, <1>11 DEF SavingInv, PageInv
  <2>2. \A p : ~MadeAt(p) /\ ~MadeAt(p)'
    BY <1>3, <1>4, <1>7, <2>1 DEF MadeAt, MadeOnce
  <2>3. CallsInv'
    <3>1. ASSUME NEW p \in Wanted PROVE CallInv(b, p)'
      <4>1. saver'[b].calls[p] = calls[p] /\ p \in DOMAIN slots /\ slots' = slots
        BY <1>4, <1>7, <3>1
      <4>2. ~MadeOnce(b, p)'
        BY <1>4, <4>1 DEF MadeOnce
      <4> QED
        BY <1>4, <3>1, <4>1, <4>2 DEF CallInv
    <3> QED
      BY <1>7, <2>1, <3>1 DEF CallsInv
  <2>4. SlotsInv(slots)' /\ UnlinkedInv(slots)' /\ EntriesInv'
    BY <2>1, <2>2 DEF GoodSaving, SlotsInv, UnlinkedInv, Unknown, EntriesInv, Entries
  <2> QED
    BY <2>3, <2>4 DEF GoodSaving
<1> QED
  BY <1>9, <1>10, <1>11 DEF SavingInv

LEMMA OpenPreviewStepSaves ==
  ASSUME SavingInv, OpenPreviewStep
  PROVE  SavingInv'
<1>1. /\ page = "edit" /\ page' = "preview"
      /\ UNCHANGED <<slots, catalogue, orphans, allowed, edits, unheard, mixed>>
  BY DEF OpenPreviewStep
<1>2. \A b \in Reasons : saver[b].at = "idle"
  BY <1>1, NothingSaved
<1>3. edits' \in 0..MaxEdits /\ mixed' \in BOOLEAN
  BY <1>1 DEF SavingInv, SavingShape
<1>4. CASE saver' = saver
  <2>1. SavingShape' /\ PageInv' /\ OrphanInv'
    BY <1>1, <1>2, <1>4
    DEF SavingInv, SavingShape, SlotsShape, BatchShape, Saves, PageInv, OrphanInv, Reasons
  <2>2. GoodSaving => GoodSaving'
    BY <1>1, <1>4
    DEF GoodSaving, CallsInv, CallInv, MadeOnce, Saves, SlotsInv, UnlinkedInv, Unknown, MadeAt, EntriesInv, Entries
  <2> QED
    BY <1>1, <2>1, <2>2 DEF SavingInv
<1>5. CASE saver' = [saver EXCEPT !["refusal"] = Saving]
  BY <1>1, <1>2, <1>3, <1>5, BatchStarts DEF Reasons
<1> QED
  BY <1>4, <1>5 DEF OpenPreviewStep

LEMMA SubmitDraftSaves ==
  ASSUME SavingInv, SubmitDraft
  PROVE  SavingInv'
<1>1. /\ page = "preview" /\ page' = page /\ saver["submission"].at = "idle"
      /\ edits' \in 0..MaxEdits /\ saver' = [saver EXCEPT !["submission"] = Saving]
      /\ mixed' = (mixed \/ saver["refusal"].at = "saving") /\ mixed' \in BOOLEAN
      /\ UNCHANGED <<slots, catalogue, orphans, allowed, unheard>>
  BY CatalogueAssumption DEF SubmitDraft, SavingInv, SavingShape
<1>2. ~mixed' => ~mixed /\ \A d \in Reasons : saver[d].at = "idle"
  <2>1. saver["refusal"].at \in {"idle", "saving"}
    BY DEF SavingInv, SavingShape, BatchShape, PageInv, Reasons
  <2> QED
    BY <1>1, <2>1 DEF Reasons
<1> QED
  BY <1>1, <1>2, BatchStarts DEF Reasons

(* The catalogue only grows.                                                *)
LEMMA CatalogueGrows ==
  ASSUME catalogue \in Seq(Entry), NEW x \in Entry,
         catalogue' = catalogue \/ catalogue' = Append(catalogue, x)
  PROVE  /\ catalogue' \in Seq(Entry) /\ Len(catalogue) \in Nat /\ Entries = 1..Len(catalogue)
         /\ Len(catalogue) <= Len(catalogue') /\ Len(catalogue') \in Nat /\ Entries \subseteq Entries'
         /\ \A e \in Entries : catalogue'[e] = catalogue[e]
         /\ catalogue' = Append(catalogue, x) =>
              /\ Len(catalogue') = Len(catalogue) + 1 /\ Entries' = Entries \cup {Len(catalogue')}
              /\ Len(catalogue') \notin Entries /\ catalogue'[Len(catalogue')] = x
<1>1. Len(catalogue) \in Nat /\ Entries = 1..Len(catalogue)
  BY CatalogueIs
<1>2. CASE catalogue' = Append(catalogue, x)
  <2>1. /\ catalogue' \in Seq(Entry) /\ Len(catalogue') = Len(catalogue) + 1
        /\ \A e \in 1..Len(catalogue) : catalogue'[e] = catalogue[e]
        /\ catalogue'[Len(catalogue) + 1] = x
    BY <1>2, AppendProperties
  <2>2. Entries' = 1..(Len(catalogue) + 1)
    BY <2>1, LenProperties DEF Entries
  <2>3. 1..(Len(catalogue) + 1) = 1..Len(catalogue) \cup {Len(catalogue) + 1}
    BY <1>1
  <2> QED
    BY <1>1, <2>1, <2>2, <2>3
<1>3. CASE catalogue' = catalogue /\ catalogue' # Append(catalogue, x)
  <2>1. Entries' = Entries /\ Len(catalogue') = Len(catalogue)
    BY <1>3 DEF Entries
  <2> QED
    BY <1>1, <1>3, <2>1
<1> QED
  BY <1>2, <1>3

(* A call moves on: what the calls are then.                                *)
CallBecomes(b, p, c) == saver' = [saver EXCEPT ![b].calls[p] = c]
CallsAfter(b, p, c) ==
  /\ saver' = [d \in Reasons |-> saver'[d]]
  /\ \A d \in Reasons :
       /\ saver'[d] = [at |-> saver'[d].at, calls |-> saver'[d].calls]
       /\ saver'[d].at = saver[d].at /\ Saves(d)' = Saves(d)
       /\ saver'[d].calls = [q \in Saves(d) |-> saver'[d].calls[q]]
       /\ \A q \in Saves(d) :
            saver'[d].calls[q] = IF d = b /\ q = p THEN c ELSE saver[d].calls[q]

LEMMA CallMoves ==
  ASSUME SavingInv, NEW b \in Reasons, NEW p \in Saves(b), NEW c \in SaveCall, CallBecomes(b, p, c)
  PROVE  CallsAfter(b, p, c)
<1>1. saver = [d \in Reasons |-> saver[d]] /\ \A d \in Reasons : BatchShape(d)
  BY DEF SavingInv, SavingShape
<1>2. /\ saver[b] = [at |-> saver[b].at, calls |-> saver[b].calls]
      /\ saver[b].calls = [q \in Saves(b) |-> saver[b].calls[q]]
  BY <1>1 DEF BatchShape
<1>3. /\ saver' = [d \in Reasons |-> saver'[d]] /\ \A d \in Reasons \ {b} : saver'[d] = saver[d]
      /\ saver'[b] = [saver[b] EXCEPT !.calls = [saver[b].calls EXCEPT ![p] = c]]
  BY <1>1 DEF CallBecomes
<1>4. /\ saver'[b] = [at |-> saver'[b].at, calls |-> saver'[b].calls]
      /\ saver'[b].at = saver[b].at /\ saver'[b].calls = [saver[b].calls EXCEPT ![p] = c]
  BY <1>2, <1>3
<1>5. /\ Saves(b)' = Saves(b) /\ saver'[b].calls = [q \in Saves(b) |-> saver'[b].calls[q]]
      /\ \A q \in Saves(b) : saver'[b].calls[q] = IF q = p THEN c ELSE saver[b].calls[q]
  BY <1>2, <1>4 DEF Saves
<1>6. \A d \in Reasons \ {b} :
        /\ saver'[d] = [at |-> saver'[d].at, calls |-> saver'[d].calls]
        /\ saver'[d].at = saver[d].at /\ Saves(d)' = Saves(d)
        /\ saver'[d].calls = [q \in Saves(d) |-> saver'[d].calls[q]]
        /\ \A q \in Saves(d) : saver'[d].calls[q] = saver[d].calls[q]
  BY <1>1, <1>3 DEF BatchShape, Saves
<1> QED
  BY <1>3, <1>4, <1>5, <1>6 DEF CallsAfter

LEMMA CallMovesShape ==
  ASSUME SavingInv, NEW b \in Reasons, NEW p \in Saves(b), NEW c \in SaveCall,
         CallBecomes(b, p, c), c.entry <= Len(catalogue'), NEW x \in Entry,
         catalogue' = catalogue \/ catalogue' = Append(catalogue, x),
         unheard \subseteq unheard', unheard' \subseteq Things,
         UNCHANGED <<page, slots, orphans, allowed, edits, mixed>>
  PROVE  SavingShape' /\ PageInv' /\ OrphanInv'
<1>1. SavingShape /\ PageInv /\ OrphanInv
  BY DEF SavingInv
<1>2. /\ saver' = [d \in Reasons |-> saver'[d]]
      /\ \A d \in Reasons :
           /\ saver'[d] = [at |-> saver'[d].at, calls |-> saver'[d].calls]
           /\ saver'[d].at = saver[d].at /\ Saves(d)' = Saves(d)
           /\ saver'[d].calls = [q \in Saves(d) |-> saver'[d].calls[q]]
           /\ \A q \in Saves(d) :
                saver'[d].calls[q] = IF d = b /\ q = p THEN c ELSE saver[d].calls[q]
  BY CallMoves DEF CallsAfter
<1>3. /\ catalogue' \in Seq(Entry) /\ Len(catalogue) \in Nat /\ Len(catalogue') \in Nat
      /\ Len(catalogue) <= Len(catalogue')
  BY <1>1, CatalogueGrows DEF SavingShape
<1>4. ASSUME NEW d \in Reasons PROVE BatchShape(d)'
  <2>1. ASSUME NEW q \in Saves(d)
        PROVE  saver'[d].calls[q] \in SaveCall /\ saver'[d].calls[q].entry <= Len(catalogue')
    <3>1. saver[d].calls[q] \in SaveCall /\ saver[d].calls[q].entry <= Len(catalogue)
      BY <1>1, <2>1 DEF SavingShape, BatchShape
    <3>2. saver[d].calls[q].entry <= Len(catalogue')
      BY <1>3, <3>1 DEF SaveCall
    <3> QED
      BY <1>2, <3>1, <3>2
  <2> QED
    BY <1>1, <1>2, <2>1 DEF SavingShape, BatchShape
<1>5. SlotsShape(slots)'
  <2>1. PICK n \in 0..CatalogueLines : slots \in [0..n -> Slot]
    BY <1>1 DEF SavingShape, SlotsShape
  <2>2. ASSUME NEW q \in DOMAIN slots PROVE slots[q].entry <= Len(catalogue')
    <3>1. slots[q].entry \in Nat /\ slots[q].entry <= Len(catalogue)
      BY <1>1, <2>1 DEF Slot, SavingShape, SlotsShape
    <3> QED
      BY <1>3, <3>1
  <2> QED
    BY <1>1, <2>1, <2>2 DEF SavingShape, SlotsShape
<1>6. \A o \in orphans : o \in SaveCall /\ o.entry <= Len(catalogue')
  BY <1>1, <1>3 DEF SavingShape, SaveCall
<1>7. SavingShape'
  BY <1>1, <1>2, <1>3, <1>4, <1>5, <1>6 DEF SavingShape
<1>8. PageInv'
  BY <1>1, <1>2 DEF PageInv, Reasons
<1>9. OrphanInv'
  BY <1>1 DEF OrphanInv
<1> QED
  BY <1>7, <1>8, <1>9

(* A call that makes nothing: what is linked and what is known stay so.     *)
LEMMA QuietCall ==
  ASSUME SavingInv, NEW b \in Reasons, NEW p \in Saves(b), NEW c \in SaveCall,
         CallBecomes(b, p, c),
         ~MadeOnce(b, p), c.at = "made" => c.update,
         LET o == saver[b].calls[p]
         IN c.thing = o.thing /\ c.kind = o.kind /\ c.update = o.update /\ c.entry = o.entry,
         UNCHANGED <<page, slots, catalogue, orphans, allowed, edits, unheard, mixed>>
  PROVE  SavingInv'
<1>1. SavingShape /\ PageInv /\ OrphanInv /\ catalogue \in Seq(Entry)
  BY DEF SavingInv, SavingShape
<1>2. /\ \A d \in Reasons : Saves(d)' = Saves(d)
      /\ \A d \in Reasons : \A q \in Saves(d) :
           saver'[d].calls[q] = IF d = b /\ q = p THEN c ELSE saver[d].calls[q]
  <2>1. CallsAfter(b, p, c)
    BY CallMoves
  <2> QED
    BY <2>1 DEF CallsAfter
<1>3. [thing |-> c.thing, kind |-> c.kind] \in Entry
  BY DEF Entry, SaveCall
<1>4. c.entry <= Len(catalogue)
  BY <1>1 DEF SavingShape, BatchShape
<1>5. SavingShape' /\ PageInv' /\ OrphanInv'
  BY <1>1, <1>3, <1>4, CallMovesShape DEF SavingShape
<1>6. ASSUME ~mixed PROVE GoodSaving'
  <2>1. GoodSaving
    BY <1>6 DEF SavingInv
  <2>2. /\ \A d \in Reasons : \A q \in Saves(d) : MadeOnce(d, q)' = MadeOnce(d, q)
        /\ \A q : MadeAt(q)' = MadeAt(q)
    <3>1. ASSUME NEW d \in Reasons, NEW q \in Saves(d) PROVE MadeOnce(d, q)' <=> MadeOnce(d, q)
      BY <1>2, <3>1 DEF MadeOnce
    <3>2. ASSUME NEW q PROVE MadeAt(q)' <=> MadeAt(q)
      BY <1>2, <3>1 DEF MadeAt
    <3> QED
      BY <3>1, <3>2 DEF MadeAt, MadeOnce
  <2>3. ASSUME NEW d \in Reasons, NEW q \in Saves(d) PROVE CallInv(d, q)'
    <3>1. CallInv(d, q) /\ CallInv(b, p)
      BY <2>1, <2>3 DEF GoodSaving, CallsInv
    <3>2. /\ saver'[d].calls[q].thing = saver[d].calls[q].thing
          /\ saver'[d].calls[q].kind = saver[d].calls[q].kind
          /\ saver'[d].calls[q].update = saver[d].calls[q].update
      BY <1>2
    <3>3. \A r \in Saves(d) : saver'[d].calls[r].entry = saver[d].calls[r].entry
      BY <1>2
    <3> QED
      BY <1>2, <2>2, <2>3, <3>1, <3>2, <3>3 DEF CallInv
  <2>4. CallsInv'
    BY <1>2, <2>3 DEF CallsInv
  <2>5. SlotsInv(slots)' /\ UnlinkedInv(slots)' /\ EntriesInv'
    BY <2>1, <2>2 DEF GoodSaving, SlotsInv, UnlinkedInv, Unknown, EntriesInv, Entries
  <2> QED
    BY <2>4, <2>5 DEF GoodSaving
<1> QED
  BY <1>5, <1>6 DEF SavingInv

(* An entry more, of a thing nobody will tell twice: known already to be     *)
(* untold, or of no entry yet and of one position.                           *)
LEMMA EntriesStayTold ==
  ASSUME catalogue \in Seq(Entry), EntriesInv, NEW x \in Entry,
         catalogue' = Append(catalogue, x), unheard \subseteq unheard',
         Unknown(x.thing) \/ x.thing \in unheard'
  PROVE  EntriesInv'
<1>1. /\ Entries' = Entries \cup {Len(catalogue')} /\ \A e \in Entries : catalogue'[e] = catalogue[e]
      /\ Len(catalogue') \notin Entries /\ catalogue'[Len(catalogue')] = x
  BY CatalogueGrows
<1>2. ASSUME NEW e \in Entries, catalogue[e].thing = x.thing PROVE x.thing \in unheard'
  BY <1>2 DEF Unknown
<1>3. SUFFICES ASSUME NEW e \in Entries', NEW f \in Entries', e # f,
                      catalogue'[e].thing = catalogue'[f].thing
               PROVE  catalogue'[e].thing \in unheard'
  BY DEF EntriesInv
<1>4. CASE e \in Entries /\ f \in Entries
  BY <1>1, <1>3, <1>4 DEF EntriesInv
<1>5. CASE e = Len(catalogue')
  BY <1>1, <1>2, <1>3, <1>5
<1>6. CASE f = Len(catalogue')
  BY <1>1, <1>2, <1>3, <1>6
<1> QED
  BY <1>1, <1>3, <1>4, <1>5, <1>6

LEMMA LinksStay ==
  ASSUME catalogue \in Seq(Entry), SlotsShape(slots), SlotsInv(slots), NEW x \in Entry,
         catalogue' = catalogue \/ catalogue' = Append(catalogue, x),
         unheard \subseteq unheard', slots' = slots
  PROVE  SlotsInv(slots)'
<1>1. Entries = 1..Len(catalogue) /\ \A e \in Entries : catalogue'[e] = catalogue[e]
  BY CatalogueGrows
<1>2. ASSUME NEW p \in DOMAIN slots, slots[p].entry # NoEntry
      PROVE  catalogue'[slots[p].entry] = [thing |-> slots[p].thing, kind |-> KindAt(p)]
  <2>1. PICK n \in 0..CatalogueLines : slots \in [0..n -> Slot]
    BY DEF SlotsShape
  <2>2. slots[p].entry \in Nat /\ slots[p].entry <= Len(catalogue)
    BY <2>1 DEF SlotsShape, Slot
  <2>3. slots[p].entry \in Entries
    BY <1>1, <1>2, <2>2, CatalogueIs DEF NoEntry
  <2>4. catalogue[slots[p].entry] = [thing |-> slots[p].thing, kind |-> KindAt(p)]
    BY <1>2 DEF SlotsInv
  <2> QED
    BY <1>1, <2>3, <2>4
<1> QED
  BY <1>2 DEF SlotsInv

(* The call of p makes its entry, and is told so or not.                    *)
LEMMA CallInserts ==
  ASSUME SavingInv, NEW b \in Reasons, NEW p \in Saves(b), NEW c \in SaveCall,
         CallBecomes(b, p, c), ~saver[b].calls[p].update, saver[b].calls[p].at = "counted",
         catalogue' = Append(catalogue, [thing |-> saver[b].calls[p].thing,
                                         kind |-> saver[b].calls[p].kind]),
         c.thing = saver[b].calls[p].thing, c.kind = saver[b].calls[p].kind, ~c.update,
         \/ c.at = "made" /\ c.entry = Len(catalogue') /\ unheard' = unheard
         \/ /\ c.at = "failed" /\ c.entry = saver[b].calls[p].entry
            /\ unheard' = unheard \cup {c.thing},
         UNCHANGED <<page, slots, orphans, allowed, edits, mixed>>
  PROVE  SavingInv'
<1> DEFINE x == [thing |-> c.thing, kind |-> c.kind]
           new == Len(catalogue')
<1>1. SavingShape /\ PageInv /\ OrphanInv /\ catalogue \in Seq(Entry) /\ SlotsShape(slots)
  BY DEF SavingInv, SavingShape
<1>2. x \in Entry /\ catalogue' = Append(catalogue, x) /\ x.thing = c.thing
  BY DEF Entry, SaveCall
<1> HIDE DEF x
<1>3. /\ Len(catalogue) \in Nat /\ Entries = 1..Len(catalogue) /\ new = Len(catalogue) + 1
      /\ Entries' = Entries \cup {new} /\ new \notin Entries /\ catalogue'[new] = x
      /\ \A e \in Entries : catalogue'[e] = catalogue[e]
  BY <1>1, <1>2, CatalogueGrows
<1> HIDE DEF new
<1>4. \A d \in Reasons : \A q \in Saves(d) :
        saver[d].calls[q].entry \in Nat /\ saver[d].calls[q].entry <= Len(catalogue)
  BY <1>1 DEF SavingShape, BatchShape, SaveCall
<1>5. c.entry <= Len(catalogue')
  BY <1>3, <1>4 DEF new
<1>6. unheard \subseteq unheard' /\ unheard' \subseteq Things
  BY <1>1 DEF SavingShape, SaveCall
<1>7. SavingShape' /\ PageInv' /\ OrphanInv'
  BY <1>2, <1>5, <1>6, CallMovesShape
<1>8. /\ \A d \in Reasons : Saves(d)' = Saves(d)
      /\ \A d \in Reasons : \A q \in Saves(d) :
           saver'[d].calls[q] = IF d = b /\ q = p THEN c ELSE saver[d].calls[q]
  <2>1. CallsAfter(b, p, c)
    BY CallMoves
  <2> QED
    BY <2>1 DEF CallsAfter
<1>9. ASSUME ~mixed PROVE GoodSaving'
  <2>1. GoodSaving /\ CallInv(b, p) /\ SlotsInv(slots) /\ EntriesInv
    BY <1>9 DEF SavingInv, GoodSaving, CallsInv
  <2>2. \A d \in Reasons \ {b} : Saves(d) = {}
    BY <1>1, <1>9 DEF PageInv, Reasons
  <2>3. /\ p \in DOMAIN slots /\ slots[p].thing = c.thing /\ slots[p].entry = NoEntry
        /\ c.kind = KindAt(p) /\ c.thing \in Things /\ c.thing # 0
    BY <2>1, CatalogueAssumption DEF CallInv, SaveCall
  <2>4. ~MadeOnce(b, p) /\ ~MadeAt(p)
    BY <2>2 DEF MadeAt, MadeOnce
  <2>5. Unknown(c.thing)
    BY <2>1, <2>3, <2>4 DEF GoodSaving, UnlinkedInv
  <2>6. EntriesInv'
    BY <1>1, <1>2, <1>6, <2>1, <2>5, EntriesStayTold
  <2>7. SlotsInv(slots)'
    BY <1>1, <1>2, <1>6, <2>1, LinksStay
  <2>8. \A q \in Saves(b) \ {p} : MadeOnce(b, q)' <=> MadeOnce(b, q)
    BY <1>8 DEF MadeOnce
  <2>9. MadeOnce(b, p)' <=> c.at = "made"
    BY <1>8 DEF MadeOnce
  <2>10. \A q \in DOMAIN slots : slots[q].entry <= Len(catalogue)
    BY <1>1 DEF SlotsShape
  <2>11. ASSUME NEW q \in Saves(b) PROVE CallInv(b, q)'
    <3>1. CallInv(b, q)
      BY <2>1 DEF GoodSaving, CallsInv
    <3>2. CASE q = p
      <4>1. saver'[b].calls[q] = c
        BY <1>8, <3>2
      <4>2. ASSUME c.at = "made"
            PROVE  /\ c.entry # NoEntry /\ catalogue'[c.entry] = [thing |-> c.thing, kind |-> c.kind]
                   /\ \A r \in DOMAIN slots : slots[r].entry # c.entry
                   /\ \A r \in Saves(b) \ {p} : saver'[b].calls[r].entry # c.entry
        <5>1. c.entry = new /\ new # NoEntry
          BY <1>3, <4>2 DEF new, NoEntry
        <5>2. catalogue'[c.entry] = x
          BY <1>3, <5>1
        <5>3. \A r \in DOMAIN slots : slots[r].entry # c.entry
          BY <1>3, <2>10, <5>1
        <5>4. \A r \in Saves(b) \ {p} : saver'[b].calls[r].entry # c.entry
          BY <1>3, <1>4, <1>8, <5>1
        <5> QED
          BY <5>1, <5>2, <5>3, <5>4 DEF x
      <4> QED
        BY <1>8, <2>3, <2>9, <3>2, <4>1, <4>2 DEF CallInv
    <3>3. CASE q # p
      <4>1. saver'[b].calls[q] = saver[b].calls[q] /\ (MadeOnce(b, q)' <=> MadeOnce(b, q))
        BY <1>8, <2>8, <3>3
      <4>2. MadeOnce(b, q) => catalogue'[saver[b].calls[q].entry] = catalogue[saver[b].calls[q].entry]
        <5>1. SUFFICES ASSUME MadeOnce(b, q) PROVE saver[b].calls[q].entry \in Entries
          BY <1>3
        <5>2. saver[b].calls[q].entry # NoEntry
          BY <3>1, <5>1 DEF CallInv
        <5> QED
          BY <1>3, <1>4, <5>2 DEF NoEntry
      <4>3. ASSUME MadeOnce(b, q), NEW r \in Saves(b) \ {q}, MadeOnce(b, r)'
            PROVE  saver'[b].calls[r].entry # saver[b].calls[q].entry
        <5>1. CASE r = p
          <6>1. c.entry = new /\ saver'[b].calls[r] = c
            BY <1>8, <2>9, <4>3, <5>1 DEF new
          <6> QED
            BY <1>3, <1>4, <6>1
        <5>2. CASE r # p
          BY <1>8, <2>8, <3>1, <4>3, <5>2 DEF CallInv
        <5> QED
          BY <5>1, <5>2
      <4> QED
        BY <1>8, <3>1, <4>1, <4>2, <4>3 DEF CallInv
    <3> QED
      BY <3>2, <3>3
  <2>12. CallsInv'
    BY <1>8, <2>2, <2>11 DEF CallsInv
  <2>13. ASSUME NEW q \in DOMAIN slots, slots[q].entry = NoEntry, ~MadeAt(q)'
         PROVE  Unknown(slots[q].thing)'
    <3>1. CASE q = p
      <4>1. c.at = "failed"
        BY <1>8, <2>9, <2>13, <3>1 DEF MadeAt
      <4> QED
        BY <2>3, <3>1, <4>1 DEF Unknown
    <3>2. CASE q # p
      <4>1. ~MadeAt(q)
        BY <1>8, <2>2, <2>8, <2>13, <3>2 DEF MadeAt
      <4>2. Unknown(slots[q].thing)
        BY <2>1, <2>13, <4>1 DEF GoodSaving, UnlinkedInv
      <4>3. slots[q].thing = c.thing => c.thing \in unheard
        BY <2>1, <2>3, <3>2 DEF SlotsInv
      <4> QED
        BY <1>2, <1>3, <1>6, <4>2, <4>3 DEF Unknown
    <3> QED
      BY <3>1, <3>2
  <2>14. UnlinkedInv(slots)'
    BY <2>13 DEF UnlinkedInv
  <2> QED
    BY <2>6, <2>7, <2>12, <2>14 DEF GoodSaving
<1> QED
  BY <1>7, <1>9 DEF SavingInv

LEMMA CallFailsSaves ==
  ASSUME SavingInv, NEW b \in Reasons, NEW p \in Saves(b), CallFails(b, p)
  PROVE  SavingInv'
<1> DEFINE o == saver[b].calls[p]
           c == [o EXCEPT !.at = "failed"]
<1>1. o \in SaveCall /\ o.at = "sent"
  BY DEF CallFails, SavingInv, SavingShape, BatchShape
<1>2. /\ c \in SaveCall /\ c.at = "failed" /\ c.thing = o.thing /\ c.kind = o.kind
      /\ c.update = o.update /\ c.entry = o.entry
  BY <1>1 DEF SaveCall
<1>3. CallBecomes(b, p, c)
  BY DEF CallFails, Answer, CallBecomes
<1>4. UNCHANGED <<page, slots, catalogue, orphans, allowed, edits, unheard, mixed>>
  BY DEF CallFails
<1>5. ~MadeOnce(b, p)
  BY <1>1 DEF MadeOnce
<1> HIDE DEF c
<1> QED
  BY <1>2, <1>3, <1>4, <1>5, QuietCall

LEMMA ServerStepSaves ==
  ASSUME SavingInv, NEW b \in Reasons, NEW p \in Saves(b), ServerStep(b, p)
  PROVE  SavingInv'
<1> DEFINE o == saver[b].calls[p]
<1>1. /\ o \in SaveCall /\ o.at \in {"sent", "counted"} /\ catalogue' = Inserted(o)
      /\ UNCHANGED <<page, slots, orphans, allowed, edits, mixed>>
  BY DEF ServerStep, SavingInv, SavingShape, BatchShape
<1>2. Len(catalogue) \in Nat
  BY CatalogueIs DEF SavingInv, SavingShape
<1>3. CASE ~InsertsRow(o)
  <2> DEFINE c == [o EXCEPT !.at = NextOfCall(o)]
  <2>1. /\ CallBecomes(b, p, [o EXCEPT !.at = NextOfCall(o), !.entry = o.entry])
        /\ UNCHANGED unheard /\ catalogue' = catalogue
    BY <1>1, <1>3 DEF ServerStep, CallBecomes, Inserted
  <2>2. [o EXCEPT !.at = NextOfCall(o), !.entry = o.entry] = c
    BY <1>1 DEF SaveCall
  <2>3. CallBecomes(b, p, c)
    BY <2>1, <2>2
  <2>4. /\ c \in SaveCall /\ c.at = NextOfCall(o) /\ c.thing = o.thing /\ c.kind = o.kind
        /\ c.update = o.update /\ c.entry = o.entry
    BY <1>1 DEF SaveCall, NextOfCall
  <2>5. c.at = "made" => c.update
    BY <1>1, <1>3, <2>4 DEF NextOfCall, InsertsRow
  <2>6. ~MadeOnce(b, p)
    BY <1>1 DEF MadeOnce
  <2> HIDE DEF c
  <2> QED
    BY <1>1, <2>1, <2>3, <2>4, <2>5, <2>6, QuietCall
<1>4. CASE InsertsRow(o)
  <2>1. /\ catalogue' = Append(catalogue, [thing |-> o.thing, kind |-> o.kind])
        /\ ~o.update /\ o.at = "counted" /\ NextOfCall(o) = "made"
    BY <1>1, <1>4 DEF Inserted, InsertsRow, NextOfCall
  <2>2. Len(catalogue') = Len(catalogue) + 1
    <3>1. [thing |-> o.thing, kind |-> o.kind] \in Entry
      BY <1>1 DEF SaveCall, Entry
    <3>2. catalogue \in Seq(Entry)
      BY DEF SavingInv, SavingShape
    <3> QED
      BY <2>1, <3>1, <3>2, AppendProperties
  <2>3. CASE unheard' = unheard /\ CallBecomes(b, p, [o EXCEPT !.at = "made", !.entry = Len(catalogue')])
    <3> DEFINE c == [o EXCEPT !.at = "made", !.entry = Len(catalogue')]
    <3>1. Len(catalogue') \in Nat
      BY <1>2, <2>2
    <3>2. /\ c \in SaveCall /\ c.at = "made" /\ c.thing = o.thing /\ c.kind = o.kind
          /\ c.update = o.update /\ c.entry = Len(catalogue')
      BY <1>1, <3>1 DEF SaveCall
    <3>3. CallBecomes(b, p, c)
      BY <2>3
    <3> HIDE DEF c
    <3> QED
      BY <1>1, <2>1, <2>3, <3>2, <3>3, CallInserts
  <2>4. CASE unheard' = unheard \cup {o.thing} /\ CallBecomes(b, p, [o EXCEPT !.at = "failed"])
    <3> DEFINE c == [o EXCEPT !.at = "failed"]
    <3>1. /\ c \in SaveCall /\ c.at = "failed" /\ c.thing = o.thing /\ c.kind = o.kind
          /\ c.update = o.update /\ c.entry = o.entry
      BY <1>1 DEF SaveCall
    <3>2. CallBecomes(b, p, c)
      BY <2>4
    <3> HIDE DEF c
    <3> QED
      BY <1>1, <2>1, <2>4, <3>1, <3>2, CallInserts
  <2>5. \/ unheard' = unheard /\ CallBecomes(b, p, [o EXCEPT !.at = NextOfCall(o), !.entry = Len(catalogue')])
        \/ unheard' = unheard \cup {o.thing} /\ Answer(b, p, "failed")
    BY <1>4 DEF ServerStep, CallBecomes
  <2>6. Answer(b, p, "failed") => CallBecomes(b, p, [o EXCEPT !.at = "failed"])
    BY DEF Answer, CallBecomes
  <2> QED
    BY <2>1, <2>3, <2>4, <2>5, <2>6
<1> QED
  BY <1>3, <1>4

(* A call of a page that was left goes on, untold.                          *)
LEMMA OrphanStepSaves ==
  ASSUME SavingInv, NEW c, OrphanStep(c)
  PROVE  SavingInv'
<1> DEFINE x == [thing |-> c.thing, kind |-> c.kind]
<1>1. /\ c \in orphans /\ c \in SaveCall /\ c.entry <= Len(catalogue)
      /\ ~c.update /\ c.at \in {"sent", "counted"} /\ c.thing \in unheard
      /\ UNCHANGED <<page, slots, saver, allowed, edits, unheard, mixed>>
  BY DEF OrphanStep, SavingInv, SavingShape, OrphanInv
<1>2. x \in Entry /\ x.thing = c.thing
  BY <1>1 DEF SaveCall, Entry
<1>3. catalogue' = catalogue \/ catalogue' = Append(catalogue, x)
  BY DEF OrphanStep, Inserted
<1> HIDE DEF x
<1>4. SavingShape /\ PageInv /\ OrphanInv /\ catalogue \in Seq(Entry) /\ SlotsShape(slots)
  BY DEF SavingInv, SavingShape
<1>5. /\ catalogue' \in Seq(Entry) /\ Len(catalogue) \in Nat /\ Entries = 1..Len(catalogue)
      /\ Len(catalogue) <= Len(catalogue') /\ Len(catalogue') \in Nat
      /\ \A e \in Entries : catalogue'[e] = catalogue[e]
      /\ \A e \in Entries' : e \in Entries \/ catalogue'[e] = x
  <2>1. catalogue' = catalogue => Entries' = Entries
    BY DEF Entries
  <2> QED
    BY <1>2, <1>3, <1>4, <2>1, CatalogueGrows
<1>6. ASSUME NEW o \in orphans'
      PROVE  /\ o \in SaveCall /\ o.entry <= Len(catalogue')
             /\ ~o.update /\ o.at \in {"sent", "counted"} /\ o.thing \in unheard
  <2>1. CASE o \in orphans
    <3>1. o \in SaveCall /\ o.entry <= Len(catalogue)
      BY <1>4, <2>1 DEF SavingShape
    <3>2. o.entry <= Len(catalogue')
      BY <1>5, <3>1 DEF SaveCall
    <3> QED
      BY <1>4, <2>1, <3>1, <3>2 DEF OrphanInv
  <2>2. CASE o \notin orphans
    <3>1. o = [c EXCEPT !.at = NextOfCall(c)] /\ ~InsertsRow(c)
      BY <1>6, <2>2 DEF OrphanStep
    <3>2. NextOfCall(c) = "counted"
      BY <1>1, <3>1 DEF NextOfCall, InsertsRow
    <3>3. /\ o \in SaveCall /\ o.entry = c.entry /\ o.update = c.update /\ o.at = "counted"
          /\ o.thing = c.thing
      BY <1>1, <3>1, <3>2 DEF SaveCall
    <3>4. c.entry <= Len(catalogue')
      BY <1>1, <1>5 DEF SaveCall
    <3> QED
      BY <1>1, <3>3, <3>4
  <2> QED
    BY <2>1, <2>2
<1>7. \A b \in Reasons : BatchShape(b)'
  <2>1. SUFFICES ASSUME NEW b \in Reasons PROVE BatchShape(b)'
    OBVIOUS
  <2>2. ASSUME NEW p \in Saves(b) PROVE saver[b].calls[p].entry <= Len(catalogue')
    <3>1. saver[b].calls[p] \in SaveCall /\ saver[b].calls[p].entry <= Len(catalogue)
      BY <1>4 DEF SavingShape, BatchShape
    <3>2. saver[b].calls[p].entry \in Nat
      BY <3>1 DEF SaveCall
    <3> QED
      BY <1>5, <3>1, <3>2
  <2> QED
    BY <1>1, <1>4, <2>2 DEF SavingShape, BatchShape, Saves
<1>8. SlotsShape(slots)'
  <2>1. PICK n \in 0..CatalogueLines : slots \in [0..n -> Slot]
    BY <1>4 DEF SlotsShape
  <2>2. ASSUME NEW q \in DOMAIN slots PROVE slots[q].entry <= Len(catalogue')
    <3>1. slots[q].entry \in Nat /\ slots[q].entry <= Len(catalogue)
      BY <1>4, <2>1 DEF Slot, SlotsShape
    <3> QED
      BY <1>5, <3>1
  <2> QED
    BY <1>1, <1>4, <2>1, <2>2 DEF SlotsShape
<1>9. SavingShape' /\ PageInv' /\ OrphanInv'
  BY <1>1, <1>4, <1>5, <1>6, <1>7, <1>8 DEF SavingShape, PageInv, OrphanInv, Saves
<1>10. ASSUME ~mixed PROVE GoodSaving'
  <2>1. GoodSaving
    BY <1>10 DEF SavingInv
  <2>2. EntriesInv'
    <3>1. CASE catalogue' = catalogue
      BY <1>1, <2>1, <3>1 DEF GoodSaving, EntriesInv, Entries
    <3>2. CASE catalogue' = Append(catalogue, x)
      BY <1>1, <1>2, <1>4, <2>1, <3>2, EntriesStayTold DEF GoodSaving
    <3> QED
      BY <1>3, <3>1, <3>2
  <2>3. SlotsInv(slots)'
    BY <1>1, <1>2, <1>3, <1>4, <2>1, LinksStay DEF GoodSaving
  <2>4. UnlinkedInv(slots)'
    <3>1. \A p : MadeAt(p)' <=> MadeAt(p)
      BY <1>1 DEF MadeAt, MadeOnce, Saves
    <3>2. \A t : Unknown(t) => Unknown(t)'
      BY <1>1, <1>2, <1>5 DEF Unknown
    <3> QED
      BY <1>1, <2>1, <3>1, <3>2 DEF GoodSaving, UnlinkedInv
  <2>5. ASSUME NEW b \in Reasons, NEW p \in Saves(b) PROVE CallInv(b, p)'
    <3>1. CallInv(b, p) /\ saver[b].calls[p].entry \in Nat /\ saver[b].calls[p].entry <= Len(catalogue)
      BY <1>4, <2>1, <2>5 DEF GoodSaving, CallsInv, SavingShape, BatchShape, SaveCall
    <3>2. MadeOnce(b, p) => catalogue'[saver[b].calls[p].entry] = catalogue[saver[b].calls[p].entry]
      BY <1>5, <3>1 DEF CallInv, NoEntry
    <3> QED
      BY <1>1, <3>1, <3>2 DEF CallInv, MadeOnce, Saves
  <2>6. CallsInv'
    BY <1>1, <2>5 DEF CallsInv, Saves
  <2> QED
    BY <2>2, <2>3, <2>4, <2>6 DEF GoodSaving
<1> QED
  BY <1>1, <1>9, <1>10 DEF SavingInv

(* A batch that is over leaves its place to none.                            *)
LEMMA BatchEnds ==
  ASSUME SavingInv, NEW b \in Reasons, NEW a \in {"idle", "creating"},
         saver' = [saver EXCEPT ![b] = [at |-> a, calls |-> NoCalls]],
         UNCHANGED catalogue
  PROVE  /\ saver' = [d \in Reasons |-> saver'[d]] /\ \A d \in Reasons : BatchShape(d)'
         /\ saver'[b].at = a /\ Saves(b)' = {}
         /\ \A d \in Reasons \ {b} : saver'[d] = saver[d] /\ Saves(d)' = Saves(d)
<1>1. saver = [d \in Reasons |-> saver[d]] /\ \A d \in Reasons : BatchShape(d)
  BY DEF SavingInv, SavingShape
<1>2. /\ saver' = [d \in Reasons |-> saver'[d]] /\ saver'[b] = [at |-> a, calls |-> NoCalls]
      /\ \A d \in Reasons \ {b} : saver'[d] = saver[d] /\ Saves(d)' = Saves(d)
  BY <1>1 DEF Saves
<1>3. /\ saver'[b].at = a /\ saver'[b].calls = NoCalls /\ Saves(b)' = {}
      /\ NoCalls = [p \in {} |-> NoCalls[p]]
  BY <1>2 DEF Saves, NoCalls
<1>4. BatchShape(b)'
  BY <1>2, <1>3 DEF BatchShape
<1>5. \A d \in Reasons \ {b} : BatchShape(d)'
  BY <1>1, <1>2 DEF BatchShape
<1> QED
  BY <1>2, <1>3, <1>4, <1>5

LEMMA DocumentRefusedSaves ==
  ASSUME SavingInv, DocumentRefused
  PROVE  SavingInv'
<1>1. /\ saver["submission"].at = "creating"
      /\ saver' = [saver EXCEPT !["submission"] = [at |-> "idle", calls |-> NoCalls]]
      /\ UNCHANGED <<page, slots, catalogue, orphans, allowed, edits, unheard, mixed>>
  BY DEF DocumentRefused, Idle
<1>2. /\ saver' = [d \in Reasons |-> saver'[d]] /\ \A d \in Reasons : BatchShape(d)'
      /\ saver'["submission"].at = "idle" /\ Saves("submission")' = {}
      /\ saver'["refusal"] = saver["refusal"] /\ Saves("refusal")' = Saves("refusal")
  BY <1>1, BatchEnds DEF Reasons
<1>3. SavingShape /\ PageInv /\ OrphanInv
  BY DEF SavingInv
<1>4. SavingShape' /\ PageInv' /\ OrphanInv'
  BY <1>1, <1>2, <1>3 DEF SavingShape, SlotsShape, PageInv, OrphanInv, Reasons
<1>5. Saves("submission") = {}
  BY <1>1, <1>3 DEF PageInv, Reasons
<1>6. ASSUME ~mixed PROVE GoodSaving'
  <2>1. GoodSaving /\ \A b \in Reasons : Saves(b) = {} /\ Saves(b)' = {}
    BY <1>1, <1>2, <1>3, <1>5, <1>6 DEF SavingInv, PageInv, Reasons
  <2>2. \A p : ~MadeAt(p) /\ ~MadeAt(p)'
    BY <2>1 DEF MadeAt
  <2> QED
    BY <1>1, <2>1, <2>2
    DEF GoodSaving, CallsInv, SlotsInv, UnlinkedInv, Unknown, EntriesInv, Entries
<1> QED
  BY <1>1, <1>4, <1>6 DEF SavingInv

LEMMA DocumentCreatedSaves ==
  ASSUME SavingInv, DocumentCreated
  PROVE  SavingInv'
<1>1. /\ saver["submission"].at = "creating" /\ page' = "created" /\ slots' = NewDraft
      /\ allowed' \in BOOLEAN
      /\ saver' = [saver EXCEPT !["submission"] = [at |-> "idle", calls |-> NoCalls]]
      /\ UNCHANGED <<catalogue, orphans, edits, unheard, mixed>>
  BY DEF DocumentCreated, Idle
<1>2. /\ saver' = [d \in Reasons |-> saver'[d]] /\ \A d \in Reasons : BatchShape(d)'
      /\ saver'["submission"].at = "idle" /\ Saves("submission")' = {}
      /\ saver'["refusal"] = saver["refusal"] /\ Saves("refusal")' = Saves("refusal")
  BY <1>1, BatchEnds DEF Reasons
<1>3. SavingShape /\ PageInv /\ OrphanInv
  BY DEF SavingInv
<1>4. /\ SlotsShape(NewDraft) /\ SlotsInv(NewDraft)
      /\ \A p \in DOMAIN NewDraft : NewDraft[p].entry = NoEntry => Unknown(NewDraft[p].thing)
  BY NewDraftIsGood
<1>5. SlotsShape(slots)'
  BY <1>1, <1>4 DEF SlotsShape
<1>6. SavingShape'
  BY <1>1, <1>2, <1>3, <1>5 DEF SavingShape
<1>7. PageInv' /\ OrphanInv'
  BY <1>1, <1>2, <1>3 DEF PageInv, OrphanInv, Reasons
<1>8. Saves("submission") = {}
  BY <1>1, <1>3 DEF PageInv, Reasons
<1>9. ASSUME ~mixed PROVE GoodSaving'
  <2>1. GoodSaving /\ \A b \in Reasons : Saves(b) = {} /\ Saves(b)' = {}
    BY <1>1, <1>2, <1>3, <1>8, <1>9 DEF SavingInv, PageInv, Reasons
  <2>2. CallsInv' /\ EntriesInv'
    BY <1>1, <2>1 DEF GoodSaving, CallsInv, EntriesInv, Entries
  <2>3. SlotsInv(slots)'
    BY <1>1, <1>4 DEF SlotsInv
  <2>4. UnlinkedInv(slots)'
    BY <1>1, <1>4 DEF UnlinkedInv, Unknown, Entries
  <2> QED
    BY <2>2, <2>3, <2>4 DEF GoodSaving
<1> QED
  BY <1>1, <1>6, <1>7, <1>9 DEF SavingInv

(* The draft after its ids came back, and what it had to be linked to.      *)
LEMMA IdsComeBack ==
  ASSUME SavingInv, NEW b \in Reasons
  PROVE  LET s == WrittenBack(saver[b].calls)
         IN /\ SlotsShape(s) /\ DOMAIN s = DOMAIN slots
            /\ \A p \in DOMAIN slots :
                 /\ s[p].thing = slots[p].thing
                 /\ s[p].entry = IF p \in Saves(b) /\ saver[b].calls[p].at = "made"
                                 THEN saver[b].calls[p].entry ELSE slots[p].entry
<1> DEFINE s == WrittenBack(saver[b].calls)
           Back(p) == p \in Saves(b) /\ saver[b].calls[p].at = "made"
<1>1. SlotsShape(slots) /\ BatchShape(b)
  BY DEF SavingInv, SavingShape
<1>2. PICK n \in 0..CatalogueLines : DOMAIN slots = 0..n /\ slots \in [0..n -> Slot] /\ n \in Nat
  BY <1>1, SlotsAreNumbered
<1>3. /\ DOMAIN s = 0..n /\ s = [p \in 0..n |-> s[p]]
      /\ \A p \in 0..n : s[p] = IF Back(p)
           THEN [slots[p] EXCEPT !.entry = saver[b].calls[p].entry, !.save = FALSE] ELSE slots[p]
  BY <1>2 DEF WrittenBack, Saves
<1> HIDE DEF s
<1>4. ASSUME NEW p \in 0..n
      PROVE  /\ s[p] \in Slot /\ s[p].entry <= Len(catalogue) /\ (s[p].save => s[p].thing # 0)
             /\ s[p].thing = slots[p].thing
             /\ s[p].entry = IF Back(p) THEN saver[b].calls[p].entry ELSE slots[p].entry
  <2>1. /\ slots[p] \in Slot /\ slots[p].entry <= Len(catalogue)
        /\ slots[p].save => slots[p].thing # 0
    BY <1>1, <1>2 DEF SlotsShape
  <2>2. CASE Back(p)
    <3>1. saver[b].calls[p].entry \in Nat /\ saver[b].calls[p].entry <= Len(catalogue)
      BY <1>1, <2>2 DEF BatchShape, SaveCall
    <3>2. s[p] = [slots[p] EXCEPT !.entry = saver[b].calls[p].entry, !.save = FALSE]
      BY <1>3, <2>2
    <3> QED
      BY <2>1, <2>2, <3>1, <3>2 DEF Slot
  <2>3. CASE ~Back(p)
    BY <1>3, <2>1, <2>3
  <2> QED
    BY <2>2, <2>3
<1>5. SlotsShape(s)
  BY <1>3, <1>4 DEF SlotsShape
<1> QED
  BY <1>2, <1>3, <1>4, <1>5 DEF s

LEMMA AllSavedSaves ==
  ASSUME SavingInv, NEW b \in Reasons, AllSaved(b)
  PROVE  SavingInv'
<1> DEFINE a == IF b = "submission" THEN "creating" ELSE "idle"
           s == WrittenBack(saver[b].calls)
<1>1. /\ saver[b].at = "saving" /\ a \in {"idle", "creating"} /\ slots' = s
      /\ saver' = [saver EXCEPT ![b] = [at |-> a, calls |-> NoCalls]]
      /\ UNCHANGED <<page, catalogue, orphans, allowed, edits, unheard, mixed>>
  <2>1. (IF b = "submission" THEN [Idle EXCEPT !.at = "creating"] ELSE Idle)
          = [at |-> a, calls |-> NoCalls]
    BY DEF Idle
  <2> HIDE DEF a
  <2>2. saver' = [saver EXCEPT ![b] = [at |-> a, calls |-> NoCalls]]
    BY <2>1 DEF AllSaved
  <2> QED
    BY <2>2 DEF AllSaved, a
<1>2. /\ saver' = [d \in Reasons |-> saver'[d]] /\ \A d \in Reasons : BatchShape(d)'
      /\ saver'[b].at = a /\ Saves(b)' = {}
      /\ \A d \in Reasons \ {b} : saver'[d] = saver[d] /\ Saves(d)' = Saves(d)
  BY <1>1, BatchEnds
<1>3. SavingShape /\ PageInv /\ OrphanInv
  BY DEF SavingInv
<1>4. /\ SlotsShape(s) /\ DOMAIN s = DOMAIN slots
      /\ \A p \in DOMAIN slots :
           /\ s[p].thing = slots[p].thing
           /\ s[p].entry = IF p \in Saves(b) /\ saver[b].calls[p].at = "made"
                           THEN saver[b].calls[p].entry ELSE slots[p].entry
  BY IdsComeBack
<1> HIDE DEF s
<1>5. SlotsShape(slots)'
  BY <1>1, <1>4 DEF SlotsShape
<1>6. SavingShape'
  BY <1>1, <1>2, <1>3, <1>5 DEF SavingShape
<1>7. page # "edit" /\ (b = "submission" => page # "created")
  BY <1>1, <1>3 DEF PageInv, Reasons
<1>8. PageInv' /\ OrphanInv'
  BY <1>1, <1>2, <1>3, <1>7 DEF PageInv, OrphanInv, Reasons
<1>9. ASSUME ~mixed PROVE GoodSaving'
  <2>1. /\ GoodSaving /\ SlotsInv(slots) /\ \A d \in Reasons \ {b} : Saves(d) = {}
        /\ \A d \in Reasons : Saves(d)' = {}
    BY <1>1, <1>2, <1>3, <1>9 DEF SavingInv, GoodSaving, PageInv, Reasons
  <2>2. \A p \in Saves(b) : CallInv(b, p)
    BY <2>1 DEF GoodSaving, CallsInv
  <2>3. \A p \in DOMAIN slots :
          s[p].entry = IF p \in Saves(b) /\ MadeOnce(b, p) THEN saver[b].calls[p].entry ELSE slots[p].entry
    BY <1>4, <2>2 DEF CallInv, MadeOnce
  <2>4. CallsInv' /\ EntriesInv'
    BY <1>1, <2>1 DEF GoodSaving, CallsInv, EntriesInv, Entries
  <2>5. ASSUME NEW p \in DOMAIN slots, s[p].entry # NoEntry
        PROVE  catalogue[s[p].entry] = [thing |-> s[p].thing, kind |-> KindAt(p)]
    <3>1. s[p].thing = slots[p].thing
      BY <1>4
    <3>2. CASE p \in Saves(b) /\ MadeOnce(b, p)
      <4>1. CallInv(b, p) /\ s[p].entry = saver[b].calls[p].entry
        BY <2>2, <2>3, <3>2
      <4> QED
        BY <3>1, <3>2, <4>1 DEF CallInv
    <3>3. CASE ~(p \in Saves(b) /\ MadeOnce(b, p))
      <4>1. s[p].entry = slots[p].entry
        BY <2>3, <3>3
      <4> QED
        BY <2>1, <2>5, <3>1, <4>1 DEF SlotsInv
    <3> QED
      BY <3>2, <3>3
  <2>6. ASSUME NEW p \in DOMAIN slots, NEW q \in DOMAIN slots, p # q, s[p].entry = s[q].entry
        PROVE  s[p].entry = NoEntry
    <3> DEFINE Told(r) == r \in Saves(b) /\ MadeOnce(b, r)
    <3>1. \A r \in DOMAIN slots :
            s[r].entry = IF Told(r) THEN saver[b].calls[r].entry ELSE slots[r].entry
      BY <2>3
    <3>2. \A r \in DOMAIN slots : Told(r) =>
            /\ \A o \in DOMAIN slots : slots[o].entry # saver[b].calls[r].entry
            /\ \A o \in DOMAIN slots \ {r} :
                 Told(o) => saver[b].calls[o].entry # saver[b].calls[r].entry
      BY <2>2 DEF CallInv
    <3>3. slots[p].entry = slots[q].entry => slots[p].entry = NoEntry
      BY <2>1, <2>6 DEF SlotsInv
    <3> HIDE DEF Told
    <3> QED
      BY <2>6, <3>1, <3>2, <3>3
  <2>7. SlotsInv(slots)'
    <3>1. \A p, q \in DOMAIN slots : p # q /\ s[p].thing = s[q].thing => s[p].thing \in unheard \cup {0}
      BY <1>4, <2>1 DEF SlotsInv
    <3> QED
      BY <1>1, <1>4, <2>5, <2>6, <3>1 DEF SlotsInv
  <2>8. ASSUME NEW p \in DOMAIN slots, s[p].entry = NoEntry PROVE Unknown(s[p].thing)
    <3>1. ~(p \in Saves(b) /\ MadeOnce(b, p)) /\ slots[p].entry = NoEntry
      BY <2>2, <2>3, <2>8 DEF CallInv
    <3>2. ~MadeAt(p)
      BY <2>1, <3>1 DEF MadeAt
    <3> QED
      BY <1>4, <2>1, <3>1, <3>2 DEF GoodSaving, UnlinkedInv
  <2>9. UnlinkedInv(slots)'
    BY <1>1, <1>4, <2>8 DEF UnlinkedInv, Unknown, Entries
  <2> QED
    BY <2>4, <2>7, <2>9 DEF GoodSaving
<1> QED
  BY <1>1, <1>6, <1>8, <1>9 DEF SavingInv

(* What was under way goes on without its page, and is not heard of.        *)
LEMMA LeavePreviewSaves ==
  ASSUME SavingInv, NEW kept \in {slots, NewDraft}, LeavePreview(kept)
  PROVE  SavingInv'
<1> DEFINE dropped == {c \in CallsOf("refusal") \cup CallsOf("submission") :
                         c.at # "failed" /\ ~c.update}
<1>1. /\ page' = "edit" /\ slots' = kept
      /\ orphans' = orphans \cup {c \in dropped : c.at # "made"}
      /\ unheard' = unheard \cup {c.thing : c \in dropped}
      /\ saver' = [b \in Reasons |-> Idle]
      /\ UNCHANGED <<catalogue, allowed, edits, mixed>>
  BY DEF LeavePreview
<1>2. SavingShape /\ PageInv /\ OrphanInv
  BY DEF SavingInv
<1>3. \A b \in Reasons : \A p \in Saves(b) :
        saver[b].calls[p].at # "failed" /\ ~saver[b].calls[p].update => saver[b].calls[p] \in dropped
  BY DEF CallsOf, Saves, Reasons
<1>4. \A c \in dropped : c \in SaveCall /\ c.entry <= Len(catalogue) /\ c.at # "failed" /\ ~c.update
  BY <1>2 DEF CallsOf, SavingShape, BatchShape, Saves, Reasons
<1> HIDE DEF dropped
<1>5. \A c \in dropped : c.thing \in Things /\ c.thing \in unheard'
  BY <1>1, <1>4 DEF SaveCall
<1>6. /\ \A b \in Reasons : saver'[b] = Idle /\ Saves(b)' = {} /\ saver'[b].at = "idle"
      /\ \A b \in Reasons : BatchShape(b)'
  <2>1. \A b \in Reasons : saver'[b] = [at |-> "idle", calls |-> NoCalls]
    BY <1>1 DEF Idle
  <2>2. NoCalls = [p \in {} |-> NoCalls[p]] /\ DOMAIN NoCalls = {}
    BY DEF NoCalls
  <2>3. \A b \in Reasons : Saves(b)' = {} /\ saver'[b].calls = NoCalls /\ saver'[b].at = "idle"
    BY <2>1, <2>2 DEF Saves
  <2>4. ASSUME NEW b \in Reasons PROVE BatchShape(b)'
    BY <2>1, <2>2, <2>3 DEF BatchShape
  <2> QED
    BY <2>1, <2>3, <2>4 DEF Idle
<1>7. saver' = [b \in Reasons |-> saver'[b]]
  BY <1>1
<1>8. /\ SlotsShape(NewDraft) /\ SlotsInv(NewDraft)
      /\ \A p \in DOMAIN NewDraft : NewDraft[p].entry = NoEntry => Unknown(NewDraft[p].thing)
  BY NewDraftIsGood
<1>9. SlotsShape(slots)'
  BY <1>1, <1>2, <1>8 DEF SlotsShape, SavingShape
<1>10. /\ \A c \in orphans' : c \in SaveCall /\ c.entry <= Len(catalogue)
       /\ \A c \in orphans' : ~c.update /\ c.at \in {"sent", "counted"} /\ c.thing \in unheard'
  <2>1. SUFFICES ASSUME NEW c \in orphans'
                 PROVE  /\ c \in SaveCall /\ c.entry <= Len(catalogue) /\ ~c.update
                        /\ c.at \in {"sent", "counted"} /\ c.thing \in unheard'
    OBVIOUS
  <2>2. CASE c \in orphans
    BY <1>1, <1>2, <2>2 DEF SavingShape, OrphanInv
  <2>3. CASE c \in dropped /\ c.at # "made"
    <3>1. c.at \in {"sent", "counted", "made", "failed"}
      BY <1>4, <2>3 DEF SaveCall
    <3> QED
      BY <1>4, <1>5, <2>3, <3>1
  <2> QED
    BY <1>1, <2>2, <2>3
<1>11. unheard \subseteq unheard' /\ unheard' \subseteq Things
  BY <1>1, <1>2, <1>5 DEF SavingShape
<1>12. SavingShape'
  BY <1>1, <1>2, <1>6, <1>7, <1>9, <1>10, <1>11 DEF SavingShape
<1>13. PageInv' /\ OrphanInv'
  BY <1>1, <1>6, <1>10 DEF PageInv, OrphanInv, Reasons
<1>14. ASSUME ~mixed PROVE GoodSaving'
  <2>1. GoodSaving /\ SlotsInv(slots) /\ UnlinkedInv(slots) /\ EntriesInv
    BY <1>14 DEF SavingInv, GoodSaving
  <2>2. CallsInv'
    BY <1>6 DEF CallsInv
  <2>3. EntriesInv'
    BY <1>1, <1>11, <2>1 DEF EntriesInv, Entries
  <2>4. SlotsInv(slots)'
    BY <1>1, <1>8, <1>11, <2>1 DEF SlotsInv
  <2>5. ASSUME NEW p \in DOMAIN slots, slots[p].entry = NoEntry
        PROVE  slots[p].thing \in unheard' \/ Unknown(slots[p].thing)
    <3>1. CASE ~MadeAt(p)
      BY <2>1, <2>5, <3>1 DEF UnlinkedInv
    <3>2. CASE MadeAt(p)
      <4>1. PICK b \in Reasons : p \in Saves(b) /\ MadeOnce(b, p)
        BY <3>2 DEF MadeAt
      <4>2. CallInv(b, p)
        BY <2>1, <4>1 DEF GoodSaving, CallsInv
      <4>3. saver[b].calls[p] \in dropped /\ saver[b].calls[p].thing = slots[p].thing
        BY <1>3, <4>1, <4>2 DEF MadeOnce, CallInv
      <4> QED
        BY <1>5, <4>3
    <3> QED
      BY <3>1, <3>2
  <2>6. UnlinkedInv(slots)'
    BY <1>1, <1>8, <1>11, <2>5 DEF UnlinkedInv, Unknown, Entries
  <2> QED
    BY <2>2, <2>3, <2>4, <2>6 DEF GoodSaving
<1> QED
  BY <1>1, <1>12, <1>13, <1>14 DEF SavingInv

LEMMA CatalogueStart ==
  ASSUME CatalogueInit
  PROVE  SavingInv
<1>1. /\ page = "edit" /\ slots = NewDraft /\ catalogue = <<>>
      /\ saver = [b \in Reasons |-> Idle] /\ orphans = {}
      /\ allowed \in BOOLEAN /\ edits = 0 /\ unheard = {} /\ mixed = FALSE
  BY DEF CatalogueInit
<1>2. catalogue \in Seq(Entry) /\ Len(catalogue) = 0 /\ Entries = {}
  BY <1>1 DEF Entries
<1>3. /\ DOMAIN slots = {0} /\ slots[0] = [thing |-> 0, save |-> FALSE, entry |-> 0]
      /\ slots = [p \in {0} |-> slots[0]]
  BY <1>1 DEF NewDraft, Blank, NoEntry
<1>4. SlotsShape(slots)
  <2>1. slots[0] \in Slot
    BY <1>3 DEF Slot
  <2>2. 0..0 = {0} /\ 0 \in 0..CatalogueLines
    BY CatalogueAssumption
  <2>3. slots \in [0..0 -> Slot]
    BY <1>3, <2>1, <2>2
  <2> QED
    BY <1>2, <1>3, <2>2, <2>3 DEF SlotsShape
<1>5. /\ \A b \in Reasons : Saves(b) = {} /\ saver[b].at = "idle" /\ BatchShape(b)
      /\ saver = [b \in Reasons |-> saver[b]]
  <2>1. \A b \in Reasons : saver[b] = [at |-> "idle", calls |-> NoCalls]
    BY <1>1 DEF Idle
  <2>2. NoCalls = [p \in {} |-> NoCalls[p]] /\ DOMAIN NoCalls = {}
    BY DEF NoCalls
  <2>3. \A b \in Reasons : Saves(b) = {} /\ saver[b].calls = NoCalls /\ saver[b].at = "idle"
    BY <2>1, <2>2 DEF Saves
  <2>4. ASSUME NEW b \in Reasons PROVE BatchShape(b)
    BY <2>1, <2>2, <2>3 DEF BatchShape
  <2> QED
    BY <1>1, <2>3, <2>4
<1>6. SavingShape
  <2>1. edits \in 0 .. MaxEdits
    BY <1>1, CatalogueAssumption
  <2>2. /\ page \in {"edit", "preview", "created"} /\ allowed \in BOOLEAN
        /\ mixed \in BOOLEAN /\ unheard \subseteq Things /\ \A c \in orphans : FALSE
    BY <1>1
  <2> QED
    BY <1>2, <1>4, <1>5, <2>1, <2>2 DEF SavingShape
<1>7. PageInv /\ OrphanInv
  BY <1>1, <1>5 DEF PageInv, OrphanInv, Reasons
<1>8. CallsInv /\ SlotsInv(slots) /\ UnlinkedInv(slots) /\ EntriesInv
  BY <1>1, <1>2, <1>3, <1>5 DEF CallsInv, SlotsInv, UnlinkedInv, EntriesInv, Unknown, NoEntry
<1> QED
  BY <1>6, <1>7, <1>8 DEF SavingInv, GoodSaving

LEMMA CatalogueStep ==
  ASSUME SavingInv, [CatalogueNext]_catalogueVars
  PROVE  SavingInv'
<1>1. CASE UNCHANGED catalogueVars
  <2>1. UNCHANGED <<page, slots, catalogue, saver, orphans, allowed, edits, unheard, mixed>>
    BY <1>1 DEF catalogueVars
  <2>2. SavingShape' /\ PageInv' /\ OrphanInv'
    BY <2>1 DEF SavingInv, SavingShape, SlotsShape, BatchShape, Saves, PageInv, OrphanInv
  <2>3. GoodSaving => GoodSaving'
    BY <2>1
    DEF GoodSaving, CallsInv, CallInv, MadeOnce, Saves, SlotsInv, UnlinkedInv, Unknown, MadeAt, EntriesInv, Entries
  <2> QED
    BY <2>1, <2>2, <2>3 DEF SavingInv
<1>2. CASE TypeLine
  BY <1>2, TypeLineSaves
<1>3. CASE TypeCustomer
  BY <1>3, TypeCustomerSaves
<1>4. CASE StartOver
  BY <1>4, StartOverSaves
<1>5. CASE OpenPreviewStep
  BY <1>5, OpenPreviewStepSaves
<1>6. CASE SubmitDraft
  BY <1>6, SubmitDraftSaves
<1>7. CASE DocumentCreated
  BY <1>7, DocumentCreatedSaves
<1>8. CASE DocumentRefused
  BY <1>8, DocumentRefusedSaves
<1>9. CASE PlanChanges
  BY <1>9, PlanChangesSaves
<1>10. CASE \E e \in Entries : PickEntry(e) \/ PickCustomer(e)
  BY <1>10, PickEntrySaves, PickCustomerSaves
<1>11. CASE \E p \in 0 .. CatalogueLines : RemoveSlot(p) \/ ToggleSave(p)
  BY <1>11, RemoveSlotSaves, ToggleSaveSaves
<1>12. CASE \E b \in Reasons : AllSaved(b)
  BY <1>12, AllSavedSaves
<1>13. CASE \E b \in Reasons : \E p \in DOMAIN saver[b].calls : ServerStep(b, p) \/ CallFails(b, p)
  BY <1>13, ServerStepSaves, CallFailsSaves DEF Saves
<1>14. CASE \E c \in orphans : OrphanStep(c)
  BY <1>14, OrphanStepSaves
<1>15. CASE \E kept \in {slots, NewDraft} : LeavePreview(kept)
  BY <1>15, LeavePreviewSaves
<1> QED
  BY <1>1, <1>2, <1>3, <1>4, <1>5, <1>6, <1>7, <1>8, <1>9, <1>10, <1>11, <1>12, <1>13, <1>14, <1>15
  DEF CatalogueNext

LEMMA SavingIsTyped ==
  ASSUME SavingInv
  PROVE  CatalogueTypeOK
<1>1. SavingShape /\ SlotsShape(slots) /\ catalogue \in Seq(Entry)
  BY DEF SavingInv, SavingShape
<1>2. PICK n \in 0..CatalogueLines :
        /\ DOMAIN slots = 0..n /\ Lines = 1..n /\ Cardinality(Lines) = n /\ n \in Nat
        /\ slots \in [0..n -> Slot]
  BY <1>1, SlotsAreNumbered DEF Lines
<1>3. /\ Len(catalogue) \in Nat /\ Entries = 1..Len(catalogue)
      /\ \A e \in Entries : catalogue[e] \in [thing : Things, kind : EntryKinds]
  BY <1>1, CatalogueIs DEF Entry
<1>4. \A e \in Nat : e <= Len(catalogue) => e \in Entries \cup {NoEntry}
  BY <1>3 DEF NoEntry
<1>5. ASSUME NEW p \in DOMAIN slots
      PROVE  slots[p] \in [thing : Things \cup {0}, save : BOOLEAN, entry : Entries \cup {NoEntry}]
  <2>1. slots[p] \in Slot /\ slots[p].entry <= Len(catalogue)
    BY <1>1, <1>2 DEF SlotsShape
  <2>2. slots[p].entry \in Entries \cup {NoEntry}
    BY <1>4, <2>1 DEF Slot
  <2> QED
    BY <2>1, <2>2 DEF Slot
<1>6. ASSUME NEW c \in SaveCall, c.entry <= Len(catalogue) PROVE CallOK(c)
  <2>1. c.entry \in Entries \cup {NoEntry}
    BY <1>4, <1>6 DEF SaveCall
  <2> QED
    BY <2>1 DEF CallOK, SaveCall
<1>7. \A c \in InFlight : c \in SaveCall /\ c.entry <= Len(catalogue)
  BY <1>1 DEF InFlight, CallsOf, SavingShape, BatchShape, Saves, Reasons
<1>8. \A b \in Reasons : saver[b].at \in {"idle", "saving", "creating"}
  BY <1>1 DEF SavingShape, BatchShape
<1>9. Cardinality(Lines) <= CatalogueLines /\ DOMAIN slots = 0..Cardinality(Lines)
  BY <1>2, CatalogueAssumption
<1> QED
  BY <1>1, <1>3, <1>5, <1>6, <1>7, <1>8, <1>9 DEF CatalogueTypeOK, SavingShape

LEMMA SavingIsRight ==
  ASSUME SavingInv
  PROVE  SavedOnceInItsPlace
<1>1. SUFFICES ASSUME ~mixed
               PROVE  /\ \A p \in DOMAIN slots :
                           slots[p].entry # NoEntry => catalogue[slots[p].entry].thing = slots[p].thing
                      /\ \A p, q \in Lines :
                           slots[p].entry # NoEntry /\ slots[p].entry = slots[q].entry => p = q
                      /\ \A t \in Things \ unheard : Cardinality({e \in Entries : catalogue[e].thing = t}) <= 1
  BY DEF SavedOnceInItsPlace
<1>2. SlotsInv(slots) /\ EntriesInv
  BY <1>1 DEF SavingInv, GoodSaving
<1>3. ASSUME NEW p \in DOMAIN slots, slots[p].entry # NoEntry
      PROVE  catalogue[slots[p].entry].thing = slots[p].thing
  <2>1. catalogue[slots[p].entry] = [thing |-> slots[p].thing, kind |-> KindAt(p)]
    BY <1>2, <1>3 DEF SlotsInv
  <2> QED
    BY <2>1
<1>4. \A p, q \in Lines : slots[p].entry # NoEntry /\ slots[p].entry = slots[q].entry => p = q
  BY <1>2 DEF SlotsInv, Lines
<1>5. ASSUME NEW t \in Things \ unheard
      PROVE  Cardinality({e \in Entries : catalogue[e].thing = t}) <= 1
  <2> DEFINE E == {e \in Entries : catalogue[e].thing = t}
  <2>1. \A e, f \in E : e = f
    BY <1>2, <1>5 DEF EntriesInv
  <2> HIDE DEF E
  <2>2. E = {} \/ \E e : E = {e}
    BY <2>1
  <2>3. Cardinality(E) = 0 \/ Cardinality(E) = 1
    BY <2>2, FS_EmptySet, FS_Singleton
  <2> QED
    BY <2>3 DEF E
<1> QED
  BY <1>3, <1>4, <1>5

(* What is under way, the draft and the catalogue keep their types.         *)
THEOREM CatalogueTypes == CatalogueSpec => []CatalogueTypeOK
<1>1. CatalogueInit => SavingInv
  BY CatalogueStart
<1>2. SavingInv /\ [CatalogueNext]_catalogueVars => SavingInv'
  BY CatalogueStep
<1>3. SavingInv => CatalogueTypeOK
  BY SavingIsTyped
<1> QED
  BY <1>1, <1>2, <1>3, PTL DEF CatalogueSpec

(***************************************************************************)
(* What a position of the draft is linked to is what that entry was made   *)
(* of, no two lines are linked to one entry, and a thing is saved once,    *)
(* unless its answer was lost or a submission overlapped a refused preview *)
(* (persistFreeEntities, submit, addProductFromCatalog).                   *)
(***************************************************************************)
THEOREM SavedOnce == CatalogueSpec => []SavedOnceInItsPlace
<1>1. CatalogueInit => SavingInv
  BY CatalogueStart
<1>2. SavingInv /\ [CatalogueNext]_catalogueVars => SavingInv'
  BY CatalogueStep
<1>3. SavingInv => SavedOnceInItsPlace
  BY SavingIsRight
<1> QED
  BY <1>1, <1>2, <1>3, PTL DEF CatalogueSpec

-------------------------------------------------------------------------------
(* The parts side by side                                                  *)

(* Whichever part moves, each behaves as it does alone: a run of           *)
(* MCDocuments explores every part exactly as its own specification allows. *)
THEOREM DocumentsParts == DocumentsSpec => Spec /\ BoardSpec /\ CatalogueSpec
<1>1. DocumentsInit => Init /\ BoardInit /\ CatalogueInit
  BY DEF DocumentsInit
<1>2. [DocumentsNext]_<<focus, vars, boardVars, catalogueVars>> =>
        [Next]_vars /\ [BoardNext]_boardVars /\ [CatalogueNext]_catalogueVars
  BY DEF DocumentsNext, Still
<1> QED
  BY <1>1, <1>2, PTL DEF DocumentsSpec, Spec, BoardSpec, CatalogueSpec

(* The types of the part that moves, for every part.                       *)
THEOREM DocumentsTypes == DocumentsSpec => []DocumentsTypeOK
<1>1. DocumentsInit => focus \in {"server", "page", "catalogue"}
  BY DEF DocumentsInit
<1>2. /\ focus \in {"server", "page", "catalogue"}
      /\ [DocumentsNext]_<<focus, vars, boardVars, catalogueVars>>
      => (focus \in {"server", "page", "catalogue"})'
  BY DEF DocumentsNext
<1>3. /\ focus \in {"server", "page", "catalogue"} /\ TypeOK /\ BoardTypeOK /\ CatalogueTypeOK
      => DocumentsTypeOK
  BY DEF DocumentsTypeOK
<1> QED
  BY <1>1, <1>2, <1>3, DocumentsParts, TypeCorrect, BoardTypes, CatalogueTypes, PTL
     DEF DocumentsSpec

===============================================================================
