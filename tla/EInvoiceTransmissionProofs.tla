---------------------- MODULE EInvoiceTransmissionProofs ----------------------
(* Theorems about EInvoiceTransmission, for every set of invoices,         *)
(* requests, submissions and events.                                       *)
EXTENDS EInvoiceTransmission, TLAPS

(* A worker inside transmit, past the point named.                         *)
InTransmit(w) == pc[w] \in {"read", "gate", "generate", "token", "submit", "answer"}
PastGuard(w)  == pc[w] \in {"gate", "generate", "token", "submit", "answer"}
PastCredit(w) == pc[w] \in {"token", "submit", "answer"}

(* The queue fields of a row and its claims agree.                         *)
QueueInv ==
  \A i \in Invoices :
    /\ claims[i] > 0 => scheduled[i] = "none" /\ row[i] = "inserted" /\ claims[i] = 1
    /\ cancelled[i] => scheduled[i] = "none" /\ row[i] = "inserted"

(* The rows of a sweep's query exist.                                      *)
DueInv ==
  \A w \in Sweeps : \A i \in due[w] : row[i] = "inserted"

(* What a request inside transmit holds is right for its invoice.          *)
WorkerInv ==
  \A w \in Workers :
    /\ InTransmit(w) => cur[w] \in Invoices
    /\ PastGuard(w) => cur[w] \notin Devis
    /\ PastCredit(w) => facturX[cur[w]]
    /\ pc[w] = "answer" => sub[w] \in Submissions /\ paInvoice[sub[w]] = cur[w]

(* A sweep inside transmit owns the only claim of its invoice, and has not *)
(* submitted it before its Submit step.                                    *)
SweepInv ==
  \A w \in Sweeps : InTransmit(w) =>
    /\ claims[cur[w]] = 1
    /\ \A v \in Sweeps \ {w} : InTransmit(v) => cur[v] # cur[w]
    /\ pc[w] # "answer" =>
         \A s \in Submissions : paBy[s] = "sweep" => paInvoice[s] # cur[w]

(* A refresh in flight polls a submission of its own invoice, and what it  *)
(* fetched was true of that submission.                                    *)
RefreshInv ==
  \A r \in Refreshes : refresh[r].step # "idle" =>
    /\ refresh[r].invoice \in Invoices
    /\ refresh[r].ref \in Submissions
    /\ ref[refresh[r].invoice] # NoSubmission
    /\ paInvoice[refresh[r].ref] = refresh[r].invoice
    /\ refresh[r].step = "persist" =>
         /\ refresh[r].status = "REJECTED" => refresh[r].reason
         /\ refresh[r].status \in {"ACCEPTED", "REJECTED"} =>
              paStatus[refresh[r].ref] = refresh[r].status

PlatformInv ==
  \A s \in Submissions :
    /\ paStatus[s] = "REJECTED" => paRejected[s]
    /\ paBy[s] = "sweep" => paInvoice[s] # NoInvoice

IInv ==
  /\ TypeOK
  /\ QueueInv
  /\ DueInv
  /\ WorkerInv
  /\ SweepInv
  /\ RefreshInv
  /\ PlatformInv
  /\ CreditBeforeSubmission
  /\ StatusComesFromPlatform
  /\ RejectionIsExplained
  /\ SweepSubmitsOnce

-------------------------------------------------------------------------------
(* Which steps write which fields.                                         *)

(* The queue fields of a row. *)
LEMMA QueueFrame ==
  ASSUME [Next]_vars
  PROVE  \/ \E i \in Invoices : \/ ComputeScheduledTransmitAt(i) \/ InsertInvoice(i)
                                \/ GracePeriodEnds(i) \/ CancelAutoTransmit(i)
         \/ \E w \in Sweeps, i \in Invoices : ClaimAutoTransmit(w, i)
         \/ Crash
         \/ UNCHANGED <<row, scheduled, cancelled, claims>>
  BY DEF Next, Sweep, Transmit, RefreshStatus, Throw, RefreshOnly, vars,
     companyVars, rowVars, ToggleConnection, SweepBegin, SkipUnclaimed,
     SweepEnd, Click, ReadAndGuard, AssertCanUseFacturX, GenerateAndRecord,
     GetValidAccessToken, Submit, AnswerLost, PersistSent, RefreshRead,
     RefreshToken, RefreshFetch, RefreshPersist, PlatformEvent

(* The result of a sweep's query. *)
LEMMA DueFrame ==
  ASSUME [Next]_vars
  PROVE  \/ \E w \in Sweeps : SweepBegin(w)
         \/ \E w \in Sweeps, i \in Invoices : due' = [due EXCEPT ![w] = @ \ {i}]
         \/ Crash
         \/ UNCHANGED due
  BY DEF Next, Sweep, Transmit, RefreshStatus, Throw, RefreshOnly, vars,
     workerVars, Goto, Return, ClaimAutoTransmit, SkipUnclaimed,
     ToggleConnection, ComputeScheduledTransmitAt, InsertInvoice,
     GracePeriodEnds, CancelAutoTransmit, SweepEnd, Click, ReadAndGuard,
     AssertCanUseFacturX, GenerateAndRecord, GetValidAccessToken, Submit,
     AnswerLost, PersistSent, RefreshRead, RefreshToken, RefreshFetch,
     RefreshPersist, PlatformEvent

(* What the board shows. *)
LEMMA BoardFrame ==
  ASSUME [Next]_vars
  PROVE  \/ \E w \in Workers : PersistSent(w)
         \/ \E r \in Refreshes : RefreshPersist(r)
         \/ UNCHANGED <<status, reason, ref>>
  BY DEF Next, Sweep, Transmit, RefreshStatus, Throw, RefreshOnly, vars,
     companyVars, rowVars, ToggleConnection, ComputeScheduledTransmitAt,
     InsertInvoice, GracePeriodEnds, CancelAutoTransmit, SweepBegin,
     ClaimAutoTransmit, SkipUnclaimed, SweepEnd, Click, ReadAndGuard,
     AssertCanUseFacturX, GenerateAndRecord, GetValidAccessToken, Submit,
     AnswerLost, RefreshRead, RefreshToken, RefreshFetch, PlatformEvent, Crash

(* What the platform stores. *)
LEMMA PlatformFrame ==
  ASSUME [Next]_vars
  PROVE  \/ \E w \in Workers : Submit(w)
         \/ \E s \in Submissions, code \in Events : PlatformEvent(s, code)
         \/ UNCHANGED paVars
  BY DEF Next, Sweep, Transmit, RefreshStatus, Throw, RefreshOnly, vars,
     companyVars, rowVars, paVars, ToggleConnection,
     ComputeScheduledTransmitAt, InsertInvoice, GracePeriodEnds,
     CancelAutoTransmit, SweepBegin, ClaimAutoTransmit, SkipUnclaimed,
     SweepEnd, Click, ReadAndGuard, AssertCanUseFacturX, GenerateAndRecord,
     GetValidAccessToken, AnswerLost, PersistSent, RefreshRead, RefreshToken,
     RefreshFetch, RefreshPersist, Crash

(* The Factur-X credit of an invoice. *)
LEMMA CreditFrame ==
  ASSUME [Next]_vars
  PROVE  (\E w \in Workers : GenerateAndRecord(w)) \/ UNCHANGED facturX
  BY DEF Next, Sweep, Transmit, RefreshStatus, Throw, RefreshOnly, vars,
     companyVars, rowVars, ToggleConnection, ComputeScheduledTransmitAt,
     InsertInvoice, GracePeriodEnds, CancelAutoTransmit, SweepBegin,
     ClaimAutoTransmit, SkipUnclaimed, SweepEnd, Click, ReadAndGuard,
     AssertCanUseFacturX, GetValidAccessToken, Submit, AnswerLost, PersistSent,
     RefreshRead, RefreshToken, RefreshFetch, RefreshPersist, PlatformEvent,
     Crash

(* The local variables of a refresh. *)
LEMMA RefreshFrame ==
  ASSUME [Next]_vars
  PROVE  \/ \E r \in Refreshes : RefreshStatus(r)
         \/ Crash
         \/ UNCHANGED refresh
  BY DEF Next, Sweep, Transmit, Throw, RefreshOnly, vars,
     companyVars, rowVars, ToggleConnection, ComputeScheduledTransmitAt,
     InsertInvoice, GracePeriodEnds, CancelAutoTransmit, SweepBegin,
     ClaimAutoTransmit, SkipUnclaimed, SweepEnd, Click, ReadAndGuard,
     AssertCanUseFacturX, GenerateAndRecord, GetValidAccessToken, Submit,
     AnswerLost, PersistSent, PlatformEvent

-------------------------------------------------------------------------------
(* Each part of the invariant is preserved.                                *)

(* Every action keeps the types.                                           *)
LEMMA TypeStep == ASSUME IInv, [Next]_vars PROVE TypeOK'
<1> USE NullsAssumption, BoundsAssumption
<1>a. TypeOK /\ RefreshInv
  BY DEF IInv
<1>b. IdleRefresh \in RefreshState
  BY DEF RefreshState, IdleRefresh, Status
<1> USE <1>a, <1>b
<1>1. CASE ToggleConnection
  BY <1>1 DEF ToggleConnection, companyVars, rowVars, workerVars, paVars,
     TypeOK, Workers, WorkerSteps
<1>2. ASSUME NEW i \in Invoices, ComputeScheduledTransmitAt(i) PROVE TypeOK'
  BY <1>2 DEF ComputeScheduledTransmitAt, companyVars, rowVars, workerVars,
     paVars, TypeOK, Workers, WorkerSteps
<1>3. ASSUME NEW i \in Invoices, InsertInvoice(i) PROVE TypeOK'
  BY <1>3 DEF InsertInvoice, companyVars, rowVars, workerVars, paVars, TypeOK,
     Workers, WorkerSteps
<1>4. ASSUME NEW i \in Invoices, GracePeriodEnds(i) PROVE TypeOK'
  BY <1>4 DEF GracePeriodEnds, companyVars, rowVars, workerVars, paVars,
     TypeOK, Workers, WorkerSteps
<1>5. ASSUME NEW i \in Invoices, CancelAutoTransmit(i) PROVE TypeOK'
  BY <1>5 DEF CancelAutoTransmit, companyVars, rowVars, workerVars, paVars,
     TypeOK, Workers, WorkerSteps
<1>6. ASSUME NEW w \in Sweeps, SweepBegin(w) PROVE TypeOK'
  BY <1>6 DEF SweepBegin, FindDueForAutoTransmit, companyVars, rowVars,
     workerVars, paVars, TypeOK, Workers, WorkerSteps
<1>7. ASSUME NEW w \in Sweeps, NEW i \in Invoices, ClaimAutoTransmit(w, i)
      PROVE TypeOK'
  BY <1>7 DEF ClaimAutoTransmit, companyVars, rowVars, workerVars, paVars,
     TypeOK, Workers, WorkerSteps
<1>8. ASSUME NEW w \in Sweeps, NEW i \in Invoices, SkipUnclaimed(w, i) PROVE
      TypeOK'
  BY <1>8 DEF SkipUnclaimed, companyVars, rowVars, workerVars, paVars, TypeOK,
     Workers, WorkerSteps
<1>9. ASSUME NEW w \in Sweeps, SweepEnd(w) PROVE TypeOK'
  BY <1>9 DEF SweepEnd, companyVars, rowVars, workerVars, paVars, TypeOK,
     Workers, WorkerSteps
<1>10. ASSUME NEW w \in Clicks, NEW i \in Invoices, Click(w, i) PROVE TypeOK'
  BY <1>10 DEF Click, companyVars, rowVars, workerVars, paVars, TypeOK,
     Workers, WorkerSteps
<1>11. ASSUME NEW w \in Workers, ReadAndGuard(w) PROVE TypeOK'
  BY <1>11 DEF ReadAndGuard, Goto, Throw, Return, companyVars, rowVars,
     workerVars, paVars, TypeOK, Workers, WorkerSteps
<1>12. ASSUME NEW w \in Workers, AssertCanUseFacturX(w) PROVE TypeOK'
  BY <1>12 DEF AssertCanUseFacturX, Goto, Throw, Return, companyVars, rowVars,
     workerVars, paVars, TypeOK, Workers, WorkerSteps
<1>13. ASSUME NEW w \in Workers, GenerateAndRecord(w) PROVE TypeOK'
  <2>1. facturX' \in [Invoices -> BOOLEAN]
    BY <1>13 DEF GenerateAndRecord, Throw, TypeOK, rowVars
  <2>2. /\ pc' \in [Workers -> WorkerSteps]
        /\ cur' \in [Workers -> Invoices \cup {NoInvoice}]
        /\ sub' \in [Workers -> Submissions \cup {NoSubmission}]
        /\ due' = due
    BY <1>13 DEF GenerateAndRecord, Goto, Throw, Return, TypeOK, WorkerSteps
  <2> QED
    BY <1>13, <2>1, <2>2
       DEF GenerateAndRecord, Throw, companyVars, rowVars, paVars, TypeOK
<1>14. ASSUME NEW w \in Workers, GetValidAccessToken(w) PROVE TypeOK'
  BY <1>14 DEF GetValidAccessToken, Goto, Throw, Return, companyVars, rowVars,
     workerVars, paVars, TypeOK, Workers, WorkerSteps
<1>15. ASSUME NEW w \in Workers, Submit(w) PROVE TypeOK'
  BY <1>15 DEF Submit, Throw, Return, companyVars, rowVars, workerVars, paVars,
     TypeOK, Workers, WorkerSteps
<1>16. ASSUME NEW w \in Workers, AnswerLost(w) PROVE TypeOK'
  BY <1>16 DEF AnswerLost, Throw, Return, companyVars, rowVars, workerVars,
     paVars, TypeOK, Workers, WorkerSteps
<1>17. ASSUME NEW w \in Workers, PersistSent(w) PROVE TypeOK'
  BY <1>17 DEF PersistSent, Return, Status, companyVars, rowVars, workerVars,
     paVars, TypeOK, Workers, WorkerSteps
<1>18. ASSUME NEW r \in Refreshes, NEW i \in Invoices, RefreshRead(r, i) PROVE
       TypeOK'
  BY <1>18 DEF RefreshRead, RefreshOnly, RefreshState, PollOf, Status,
     companyVars, rowVars, workerVars, paVars, TypeOK, Workers, WorkerSteps
<1>19. ASSUME NEW r \in Refreshes, RefreshToken(r) PROVE TypeOK'
  <2>1. PollOf(refresh[r].invoice, refresh[r].ref, "fetch") \in RefreshState
    BY DEF TypeOK, RefreshState, PollOf, Status
  <2>2. refresh' \in [Refreshes -> RefreshState]
    BY <1>19, <2>1 DEF RefreshToken, TypeOK
  <2> QED
    BY <1>19, <2>2 DEF RefreshToken, RefreshOnly, companyVars, rowVars,
                      workerVars, paVars, TypeOK, Workers
<1>20. ASSUME NEW r \in Refreshes, RefreshFetch(r) PROVE TypeOK'
  <2>1. refresh[r].ref \in Submissions /\ refresh[r].invoice \in Invoices
    BY <1>20 DEF RefreshFetch, RefreshInv
  <2>2. [step |-> "persist", invoice |-> refresh[r].invoice,
         ref |-> refresh[r].ref, status |-> paStatus[refresh[r].ref],
         reason |-> paRejected[refresh[r].ref]] \in RefreshState
    BY <2>1 DEF RefreshState, TypeOK
  <2>3. refresh' \in [Refreshes -> RefreshState]
    BY <1>20, <2>2 DEF RefreshFetch, TypeOK
  <2> QED
    BY <1>20, <2>3 DEF RefreshFetch, RefreshOnly, companyVars, rowVars,
                      workerVars, paVars, TypeOK, Workers
<1>21. ASSUME NEW r \in Refreshes, RefreshPersist(r) PROVE TypeOK'
  <2>1. refresh[r].status \in Status /\ refresh[r].reason \in BOOLEAN
    BY DEF TypeOK, RefreshState
  <2>2. /\ status' \in [Invoices -> Status]
        /\ reason' \in [Invoices -> BOOLEAN]
    BY <1>21, <2>1 DEF RefreshPersist, TypeOK
  <2>3. refresh' \in [Refreshes -> RefreshState]
    BY <1>21 DEF RefreshPersist, TypeOK
  <2> QED
    BY <1>21, <2>2, <2>3 DEF RefreshPersist, RefreshOnly, companyVars, rowVars,
                            workerVars, paVars, TypeOK, Workers
<1>22. ASSUME NEW s \in Submissions, NEW code \in Events, PlatformEvent(s,
       code) PROVE TypeOK'
  BY <1>22 DEF PlatformEvent, Resolve, StatusCodeMap, Codes, Status,
     companyVars, rowVars, workerVars, paVars, TypeOK, Workers, WorkerSteps
<1>23. CASE Crash
  BY <1>23 DEF Crash, RefreshState, IdleRefresh, Status, companyVars, rowVars,
     workerVars, paVars, TypeOK, Workers, WorkerSteps
<1>24. CASE UNCHANGED vars
  BY <1>24 DEF vars, companyVars, rowVars, workerVars, paVars, TypeOK, Workers,
     WorkerSteps
<1> QED
  BY <1>1, <1>2, <1>3, <1>4, <1>5, <1>6, <1>7, <1>8, <1>9, <1>10, <1>11, <1>12,
     <1>13, <1>14, <1>15, <1>16, <1>17, <1>18, <1>19, <1>20, <1>21, <1>22,
     <1>23, <1>24 DEF Next, Sweep, Transmit, RefreshStatus

(* A claim empties the schedule for good (claimAutoTransmit).              *)
LEMMA QueueStep == ASSUME IInv, [Next]_vars PROVE QueueInv'
<1>1. TypeOK /\ QueueInv /\ DueInv
  BY DEF IInv
<1>2. ASSUME NEW i \in Invoices,
             \/ ComputeScheduledTransmitAt(i) \/ InsertInvoice(i)
             \/ GracePeriodEnds(i) \/ CancelAutoTransmit(i)
      PROVE  QueueInv'
  <2>1. claims' = claims
    BY <1>2 DEF ComputeScheduledTransmitAt, InsertInvoice, GracePeriodEnds, CancelAutoTransmit
  <2>2. \A j \in Invoices : j # i =>
          row'[j] = row[j] /\ scheduled'[j] = scheduled[j] /\ cancelled'[j] = cancelled[j]
    BY <1>1, <1>2 DEF TypeOK, ComputeScheduledTransmitAt, InsertInvoice,
                      GracePeriodEnds, CancelAutoTransmit
  <2>3. /\ claims[i] > 0 => scheduled'[i] = "none" /\ row'[i] = "inserted"
        /\ cancelled'[i] => scheduled'[i] = "none" /\ row'[i] = "inserted"
    <3>1. CASE ComputeScheduledTransmitAt(i)
      BY <1>1, <3>1 DEF QueueInv, TypeOK, ComputeScheduledTransmitAt
    <3>2. CASE InsertInvoice(i)
      BY <1>1, <3>2 DEF QueueInv, TypeOK, InsertInvoice
    <3>3. CASE GracePeriodEnds(i)
      BY <1>1, <3>3 DEF QueueInv, TypeOK, GracePeriodEnds
    <3>4. CASE CancelAutoTransmit(i)
      BY <1>1, <3>4 DEF QueueInv, TypeOK, CancelAutoTransmit
    <3> QED
      BY <1>2, <3>1, <3>2, <3>3, <3>4
  <2> QED
    BY <1>1, <2>1, <2>2, <2>3 DEF QueueInv
<1>3. ASSUME NEW w \in Sweeps, NEW i \in Invoices, ClaimAutoTransmit(w, i)
      PROVE  QueueInv'
  BY <1>1, <1>3 DEF QueueInv, TypeOK, ClaimAutoTransmit, Claimable, DueInv
<1>4. CASE Crash
  BY <1>1, <1>4 DEF QueueInv, TypeOK, Crash
<1>5. CASE UNCHANGED <<row, scheduled, cancelled, claims>>
  BY <1>1, <1>5 DEF QueueInv
<1> QED
  BY <1>2, <1>3, <1>4, <1>5, QueueFrame

(* A sweep holds no row that is not inserted yet.                          *)
LEMMA DueStep == ASSUME IInv, [Next]_vars PROVE DueInv'
<1>1. TypeOK /\ DueInv
  BY DEF IInv
<1>2. \A i \in Invoices : row[i] = "inserted" => row'[i] = "inserted"
  BY <1>1, QueueFrame
     DEF TypeOK, ComputeScheduledTransmitAt, InsertInvoice, GracePeriodEnds,
         CancelAutoTransmit, ClaimAutoTransmit, Crash
<1>3. ASSUME NEW w \in Sweeps, SweepBegin(w) PROVE DueInv'
  BY <1>1, <1>3 DEF SweepBegin, FindDueForAutoTransmit, DueInv, TypeOK, rowVars
<1>4. ASSUME NEW w \in Sweeps, NEW i \in Invoices,
             due' = [due EXCEPT ![w] = @ \ {i}]
      PROVE  DueInv'
  BY <1>1, <1>2, <1>4 DEF DueInv, TypeOK
<1>5. CASE Crash
  BY <1>1, <1>5 DEF Crash, DueInv, TypeOK
<1>6. CASE UNCHANGED due
  BY <1>1, <1>2, <1>6 DEF DueInv, TypeOK
<1> QED
  BY <1>3, <1>4, <1>5, <1>6, DueFrame

(* What a transmit in flight knows about its invoice stays true.           *)
LEMMA WorkerStep == ASSUME IInv, [Next]_vars PROVE WorkerInv'
<1> USE WorkersAssumption, NullsAssumption
<1>a. TypeOK /\ WorkerInv
  BY DEF IInv
<1> USE <1>a
<1>1. CASE ToggleConnection
  BY <1>1 DEF ToggleConnection, companyVars, rowVars, workerVars, paVars,
     TypeOK, Workers, WorkerInv, InTransmit, PastGuard, PastCredit
<1>2. ASSUME NEW i \in Invoices, ComputeScheduledTransmitAt(i) PROVE WorkerInv'
  BY <1>2 DEF ComputeScheduledTransmitAt, companyVars, rowVars, workerVars,
     paVars, TypeOK, Workers, WorkerInv, InTransmit, PastGuard, PastCredit
<1>3. ASSUME NEW i \in Invoices, InsertInvoice(i) PROVE WorkerInv'
  BY <1>3 DEF InsertInvoice, companyVars, rowVars, workerVars, paVars, TypeOK,
     Workers, WorkerInv, InTransmit, PastGuard, PastCredit
<1>4. ASSUME NEW i \in Invoices, GracePeriodEnds(i) PROVE WorkerInv'
  BY <1>4 DEF GracePeriodEnds, companyVars, rowVars, workerVars, paVars,
     TypeOK, Workers, WorkerInv, InTransmit, PastGuard, PastCredit
<1>5. ASSUME NEW i \in Invoices, CancelAutoTransmit(i) PROVE WorkerInv'
  BY <1>5 DEF CancelAutoTransmit, companyVars, rowVars, workerVars, paVars,
     TypeOK, Workers, WorkerInv, InTransmit, PastGuard, PastCredit
<1>6. ASSUME NEW w \in Sweeps, SweepBegin(w) PROVE WorkerInv'
  BY <1>6 DEF SweepBegin, companyVars, rowVars, workerVars, paVars, TypeOK,
     Workers, WorkerInv, InTransmit, PastGuard, PastCredit
<1>7. ASSUME NEW w \in Sweeps, NEW i \in Invoices, ClaimAutoTransmit(w, i)
      PROVE WorkerInv'
  BY <1>7 DEF ClaimAutoTransmit, companyVars, rowVars, workerVars, paVars,
     TypeOK, Workers, WorkerInv, InTransmit, PastGuard, PastCredit
<1>8. ASSUME NEW w \in Sweeps, NEW i \in Invoices, SkipUnclaimed(w, i) PROVE
      WorkerInv'
  BY <1>8 DEF SkipUnclaimed, companyVars, rowVars, workerVars, paVars, TypeOK,
     Workers, WorkerInv, InTransmit, PastGuard, PastCredit
<1>9. ASSUME NEW w \in Sweeps, SweepEnd(w) PROVE WorkerInv'
  BY <1>9 DEF SweepEnd, companyVars, rowVars, workerVars, paVars, TypeOK,
     Workers, WorkerInv, InTransmit, PastGuard, PastCredit
<1>10. ASSUME NEW w \in Clicks, NEW i \in Invoices, Click(w, i) PROVE
       WorkerInv'
  BY <1>10 DEF Click, companyVars, rowVars, workerVars, paVars, TypeOK,
     Workers, WorkerInv, InTransmit, PastGuard, PastCredit
<1>11. ASSUME NEW w \in Workers, ReadAndGuard(w) PROVE WorkerInv'
  BY <1>11 DEF ReadAndGuard, Goto, Throw, Return, Transmittable, companyVars,
     rowVars, workerVars, paVars, TypeOK, Workers, WorkerInv, InTransmit,
     PastGuard, PastCredit
<1>12. ASSUME NEW w \in Workers, AssertCanUseFacturX(w) PROVE WorkerInv'
  BY <1>12 DEF AssertCanUseFacturX, Goto, Throw, Return, companyVars, rowVars,
     workerVars, paVars, TypeOK, Workers, WorkerInv, InTransmit, PastGuard,
     PastCredit
<1>13. ASSUME NEW w \in Workers, GenerateAndRecord(w) PROVE WorkerInv'
  BY <1>13 DEF GenerateAndRecord, Goto, Throw, Return, companyVars, rowVars,
     workerVars, paVars, TypeOK, Workers, WorkerInv, InTransmit, PastGuard,
     PastCredit
<1>14. ASSUME NEW w \in Workers, GetValidAccessToken(w) PROVE WorkerInv'
  BY <1>14 DEF GetValidAccessToken, Goto, Throw, Return, companyVars, rowVars,
     workerVars, paVars, TypeOK, Workers, WorkerInv, InTransmit, PastGuard,
     PastCredit
<1>15. ASSUME NEW w \in Workers, Submit(w) PROVE WorkerInv'
  BY <1>15 DEF Submit, Throw, Return, companyVars, rowVars, workerVars, paVars,
     TypeOK, Workers, WorkerInv, InTransmit, PastGuard, PastCredit
<1>16. ASSUME NEW w \in Workers, AnswerLost(w) PROVE WorkerInv'
  BY <1>16 DEF AnswerLost, Throw, Return, companyVars, rowVars, workerVars,
     paVars, TypeOK, Workers, WorkerInv, InTransmit, PastGuard, PastCredit
<1>17. ASSUME NEW w \in Workers, PersistSent(w) PROVE WorkerInv'
  BY <1>17 DEF PersistSent, Return, companyVars, rowVars, workerVars, paVars,
     TypeOK, Workers, WorkerInv, InTransmit, PastGuard, PastCredit
<1>18. ASSUME NEW r \in Refreshes, NEW i \in Invoices, RefreshRead(r, i) PROVE
       WorkerInv'
  BY <1>18 DEF RefreshRead, RefreshOnly, companyVars, rowVars, workerVars,
     paVars, TypeOK, Workers, WorkerInv, InTransmit, PastGuard, PastCredit
<1>19. ASSUME NEW r \in Refreshes, RefreshToken(r) PROVE WorkerInv'
  BY <1>19 DEF RefreshToken, RefreshOnly, companyVars, rowVars, workerVars,
     paVars, TypeOK, Workers, WorkerInv, InTransmit, PastGuard, PastCredit
<1>20. ASSUME NEW r \in Refreshes, RefreshFetch(r) PROVE WorkerInv'
  BY <1>20 DEF RefreshFetch, RefreshOnly, companyVars, rowVars, workerVars,
     paVars, TypeOK, Workers, WorkerInv, InTransmit, PastGuard, PastCredit
<1>21. ASSUME NEW r \in Refreshes, RefreshPersist(r) PROVE WorkerInv'
  BY <1>21 DEF RefreshPersist, RefreshOnly, companyVars, rowVars, workerVars,
     paVars, TypeOK, Workers, WorkerInv, InTransmit, PastGuard, PastCredit
<1>22. ASSUME NEW s \in Submissions, NEW code \in Events, PlatformEvent(s,
       code) PROVE WorkerInv'
  BY <1>22 DEF PlatformEvent, companyVars, rowVars, workerVars, paVars, TypeOK,
     Workers, WorkerInv, InTransmit, PastGuard, PastCredit
<1>23. CASE Crash
  BY <1>23 DEF Crash, companyVars, rowVars, workerVars, paVars, TypeOK,
     Workers, WorkerInv, InTransmit, PastGuard, PastCredit
<1>24. CASE UNCHANGED vars
  BY <1>24 DEF vars, companyVars, rowVars, workerVars, paVars, TypeOK, Workers,
     WorkerInv, InTransmit, PastGuard, PastCredit
<1> QED
  BY <1>1, <1>2, <1>3, <1>4, <1>5, <1>6, <1>7, <1>8, <1>9, <1>10, <1>11, <1>12,
     <1>13, <1>14, <1>15, <1>16, <1>17, <1>18, <1>19, <1>20, <1>21, <1>22,
     <1>23, <1>24 DEF Next, Sweep, Transmit, RefreshStatus

(* The sweep working on an invoice is the only one that ever claimed it.   *)
LEMMA SweepStep == ASSUME IInv, [Next]_vars PROVE SweepInv'
<1> USE WorkersAssumption, NullsAssumption
<1>a. /\ TypeOK /\ WorkerInv /\ SweepInv
      /\ QueueInv /\ SweepSubmitsOnce /\ PlatformInv
  BY DEF IInv
<1> USE <1>a
<1>1. CASE ToggleConnection
  BY <1>1 DEF ToggleConnection, companyVars, rowVars, workerVars, paVars,
     TypeOK, Workers, SweepInv, WorkerInv, InTransmit
<1>2. ASSUME NEW i \in Invoices, ComputeScheduledTransmitAt(i) PROVE SweepInv'
  BY <1>2 DEF ComputeScheduledTransmitAt, companyVars, rowVars, workerVars,
     paVars, TypeOK, Workers, SweepInv, WorkerInv, InTransmit
<1>3. ASSUME NEW i \in Invoices, InsertInvoice(i) PROVE SweepInv'
  BY <1>3 DEF InsertInvoice, companyVars, rowVars, workerVars, paVars, TypeOK,
     Workers, SweepInv, WorkerInv, InTransmit
<1>4. ASSUME NEW i \in Invoices, GracePeriodEnds(i) PROVE SweepInv'
  BY <1>4 DEF GracePeriodEnds, companyVars, rowVars, workerVars, paVars,
     TypeOK, Workers, SweepInv, WorkerInv, InTransmit
<1>5. ASSUME NEW i \in Invoices, CancelAutoTransmit(i) PROVE SweepInv'
  BY <1>5 DEF CancelAutoTransmit, companyVars, rowVars, workerVars, paVars,
     TypeOK, Workers, SweepInv, WorkerInv, InTransmit
<1>6. ASSUME NEW w \in Sweeps, SweepBegin(w) PROVE SweepInv'
  BY <1>6 DEF SweepBegin, companyVars, rowVars, workerVars, paVars, TypeOK,
     Workers, SweepInv, WorkerInv, InTransmit
<1>7. ASSUME NEW w \in Sweeps, NEW i \in Invoices, ClaimAutoTransmit(w, i)
      PROVE SweepInv'
  BY <1>7 DEF ClaimAutoTransmit, QueueInv, SweepSubmitsOnce, Claimable,
     companyVars, rowVars, workerVars, paVars, TypeOK, Workers, SweepInv,
     WorkerInv, InTransmit
<1>8. ASSUME NEW w \in Sweeps, NEW i \in Invoices, SkipUnclaimed(w, i) PROVE
      SweepInv'
  BY <1>8 DEF SkipUnclaimed, companyVars, rowVars, workerVars, paVars, TypeOK,
     Workers, SweepInv, WorkerInv, InTransmit
<1>9. ASSUME NEW w \in Sweeps, SweepEnd(w) PROVE SweepInv'
  BY <1>9 DEF SweepEnd, companyVars, rowVars, workerVars, paVars, TypeOK,
     Workers, SweepInv, WorkerInv, InTransmit
<1>10. ASSUME NEW w \in Clicks, NEW i \in Invoices, Click(w, i) PROVE SweepInv'
  BY <1>10 DEF Click, companyVars, rowVars, workerVars, paVars, TypeOK,
     Workers, SweepInv, WorkerInv, InTransmit
<1>11. ASSUME NEW w \in Workers, ReadAndGuard(w) PROVE SweepInv'
  BY <1>11 DEF ReadAndGuard, Goto, Throw, Return, companyVars, rowVars,
     workerVars, paVars, TypeOK, Workers, SweepInv, WorkerInv, InTransmit
<1>12. ASSUME NEW w \in Workers, AssertCanUseFacturX(w) PROVE SweepInv'
  BY <1>12 DEF AssertCanUseFacturX, Goto, Throw, Return, companyVars, rowVars,
     workerVars, paVars, TypeOK, Workers, SweepInv, WorkerInv, InTransmit
<1>13. ASSUME NEW w \in Workers, GenerateAndRecord(w) PROVE SweepInv'
  BY <1>13 DEF GenerateAndRecord, Goto, Throw, Return, companyVars, rowVars,
     workerVars, paVars, TypeOK, Workers, SweepInv, WorkerInv, InTransmit
<1>14. ASSUME NEW w \in Workers, GetValidAccessToken(w) PROVE SweepInv'
  BY <1>14 DEF GetValidAccessToken, Goto, Throw, Return, companyVars, rowVars,
     workerVars, paVars, TypeOK, Workers, SweepInv, WorkerInv, InTransmit
<1>15. ASSUME NEW w \in Workers, Submit(w) PROVE SweepInv'
  BY <1>15 DEF Submit, Throw, Return, companyVars, rowVars, workerVars, paVars,
     TypeOK, Workers, SweepInv, WorkerInv, InTransmit
<1>16. ASSUME NEW w \in Workers, AnswerLost(w) PROVE SweepInv'
  BY <1>16 DEF AnswerLost, Throw, Return, companyVars, rowVars, workerVars,
     paVars, TypeOK, Workers, SweepInv, WorkerInv, InTransmit
<1>17. ASSUME NEW w \in Workers, PersistSent(w) PROVE SweepInv'
  BY <1>17 DEF PersistSent, Return, companyVars, rowVars, workerVars, paVars,
     TypeOK, Workers, SweepInv, WorkerInv, InTransmit
<1>18. ASSUME NEW r \in Refreshes, NEW i \in Invoices, RefreshRead(r, i) PROVE
       SweepInv'
  BY <1>18 DEF RefreshRead, RefreshOnly, companyVars, rowVars, workerVars,
     paVars, TypeOK, Workers, SweepInv, WorkerInv, InTransmit
<1>19. ASSUME NEW r \in Refreshes, RefreshToken(r) PROVE SweepInv'
  BY <1>19 DEF RefreshToken, RefreshOnly, companyVars, rowVars, workerVars,
     paVars, TypeOK, Workers, SweepInv, WorkerInv, InTransmit
<1>20. ASSUME NEW r \in Refreshes, RefreshFetch(r) PROVE SweepInv'
  BY <1>20 DEF RefreshFetch, RefreshOnly, companyVars, rowVars, workerVars,
     paVars, TypeOK, Workers, SweepInv, WorkerInv, InTransmit
<1>21. ASSUME NEW r \in Refreshes, RefreshPersist(r) PROVE SweepInv'
  BY <1>21 DEF RefreshPersist, RefreshOnly, companyVars, rowVars, workerVars,
     paVars, TypeOK, Workers, SweepInv, WorkerInv, InTransmit
<1>22. ASSUME NEW s \in Submissions, NEW code \in Events, PlatformEvent(s,
       code) PROVE SweepInv'
  BY <1>22 DEF PlatformEvent, companyVars, rowVars, workerVars, paVars, TypeOK,
     Workers, SweepInv, WorkerInv, InTransmit
<1>23. CASE Crash
  BY <1>23 DEF Crash, companyVars, rowVars, workerVars, paVars, TypeOK,
     Workers, SweepInv, WorkerInv, InTransmit
<1>24. CASE UNCHANGED vars
  BY <1>24 DEF vars, companyVars, rowVars, workerVars, paVars, TypeOK, Workers,
     SweepInv, WorkerInv, InTransmit
<1> QED
  BY <1>1, <1>2, <1>3, <1>4, <1>5, <1>6, <1>7, <1>8, <1>9, <1>10, <1>11, <1>12,
     <1>13, <1>14, <1>15, <1>16, <1>17, <1>18, <1>19, <1>20, <1>21, <1>22,
     <1>23, <1>24 DEF Next, Sweep, Transmit, RefreshStatus

(* What a refresh read from the platform stays true of its submission.     *)
LEMMA RefreshStep == ASSUME IInv, [Next]_vars PROVE RefreshInv'
<1>1. TypeOK /\ RefreshInv /\ StatusComesFromPlatform /\ PlatformInv /\ WorkerInv
  BY DEF IInv
<1>2. /\ \A i \in Invoices : ref[i] # NoSubmission => ref'[i] # NoSubmission
      /\ \A s \in Submissions : paInvoice[s] # NoInvoice =>
           /\ paInvoice'[s] = paInvoice[s]
           /\ paStatus[s] \in {"ACCEPTED", "REJECTED"} => paStatus'[s] = paStatus[s]
  <2>1. \A i \in Invoices : ref[i] # NoSubmission => ref'[i] # NoSubmission
    BY <1>1, BoardFrame, NullsAssumption
       DEF PersistSent, RefreshPersist, TypeOK, WorkerInv
  <2>2. \A s \in Submissions : paInvoice[s] # NoInvoice =>
           /\ paInvoice'[s] = paInvoice[s]
           /\ paStatus[s] \in {"ACCEPTED", "REJECTED"} => paStatus'[s] = paStatus[s]
    BY <1>1, PlatformFrame
       DEF Submit, PlatformEvent, Throw, paVars, TypeOK
  <2> QED
    BY <2>1, <2>2
<1>3. ASSUME NEW r \in Refreshes, refresh'[r] = refresh[r],
             refresh[r].step # "idle"
      PROVE  /\ refresh'[r].invoice \in Invoices
             /\ refresh'[r].ref \in Submissions
             /\ ref'[refresh'[r].invoice] # NoSubmission
             /\ paInvoice'[refresh'[r].ref] = refresh'[r].invoice
             /\ refresh'[r].step = "persist" =>
                  /\ refresh'[r].status = "REJECTED" => refresh'[r].reason
                  /\ refresh'[r].status \in {"ACCEPTED", "REJECTED"} =>
                       paStatus'[refresh'[r].ref] = refresh'[r].status
  BY <1>1, <1>2, <1>3, NullsAssumption DEF RefreshInv
<1>4. ASSUME NEW r \in Refreshes, NEW i \in Invoices, RefreshRead(r, i)
      PROVE  RefreshInv'
  <2>1. /\ refresh' = [refresh EXCEPT ![r] = PollOf(i, ref[i], "token")]
        /\ ref[i] \in Submissions /\ paInvoice[ref[i]] = i
        /\ ref' = ref /\ paInvoice' = paInvoice /\ paStatus' = paStatus
    BY <1>1, <1>4 DEF RefreshRead, RefreshOnly, rowVars, paVars, TypeOK, StatusComesFromPlatform
  <2>2. \A q \in Refreshes \ {r} : refresh'[q] = refresh[q]
    BY <1>1, <2>1 DEF TypeOK
  <2>3. refresh'[r] = PollOf(i, ref[i], "token")
    BY <1>1, <2>1 DEF TypeOK
  <2> QED
    BY <1>1, <2>1, <2>2, <2>3, NullsAssumption DEF RefreshInv, PollOf
<1>5. ASSUME NEW r \in Refreshes, RefreshToken(r) \/ RefreshFetch(r) \/ RefreshPersist(r)
      PROVE  RefreshInv'
  <2>1. ref' = ref /\ paInvoice' = paInvoice /\ paStatus' = paStatus
    BY <1>5 DEF RefreshToken, RefreshFetch, RefreshPersist, RefreshOnly, rowVars, paVars
  <2>2. \A q \in Refreshes \ {r} : refresh'[q] = refresh[q]
    BY <1>1, <1>5 DEF TypeOK, RefreshToken, RefreshFetch, RefreshPersist
  <2>3. \/ refresh'[r] = IdleRefresh
        \/ /\ refresh[r].step # "idle"
           /\ refresh'[r] = PollOf(refresh[r].invoice, refresh[r].ref, "fetch")
        \/ /\ refresh[r].step # "idle"
           /\ refresh'[r] =
                [step |-> "persist", invoice |-> refresh[r].invoice,
                 ref |-> refresh[r].ref, status |-> paStatus[refresh[r].ref],
                 reason |-> paRejected[refresh[r].ref]]
    BY <1>1, <1>5 DEF TypeOK, RefreshToken, RefreshFetch, RefreshPersist
  <2>4. \A q \in Refreshes \ {r} : refresh'[q].step # "idle" =>
          /\ refresh'[q].invoice \in Invoices
          /\ refresh'[q].ref \in Submissions
          /\ ref'[refresh'[q].invoice] # NoSubmission
          /\ paInvoice'[refresh'[q].ref] = refresh'[q].invoice
          /\ refresh'[q].step = "persist" =>
               /\ refresh'[q].status = "REJECTED" => refresh'[q].reason
               /\ refresh'[q].status \in {"ACCEPTED", "REJECTED"} =>
                    paStatus'[refresh'[q].ref] = refresh'[q].status
    BY <1>3, <2>2
  <2> QED
    BY <1>1, <2>1, <2>3, <2>4 DEF RefreshInv, PlatformInv, PollOf, IdleRefresh
<1>6. CASE Crash
  BY <1>1, <1>6 DEF Crash, RefreshInv, IdleRefresh, TypeOK
<1>7. CASE UNCHANGED refresh
  BY <1>3, <1>7 DEF RefreshInv
<1> QED
  BY <1>4, <1>5, <1>6, <1>7, RefreshFrame DEF RefreshStatus

(* A submission keeps its invoice, and a verdict stays a verdict.          *)
LEMMA PlatformStep == ASSUME IInv, [Next]_vars PROVE PlatformInv'
<1>1. TypeOK /\ PlatformInv /\ WorkerInv
  BY DEF IInv
<1>2. ASSUME NEW w \in Workers, Submit(w) PROVE PlatformInv'
  BY <1>1, <1>2, NullsAssumption
     DEF Submit, Throw, paVars, PlatformInv, WorkerInv, InTransmit, TypeOK
<1>3. ASSUME NEW s \in Submissions, NEW code \in Events, PlatformEvent(s, code)
      PROVE  PlatformInv'
  <2>1. /\ paStatus' = [paStatus EXCEPT ![s] = Resolve(paStatus[s], code)]
        /\ paRejected' = [paRejected EXCEPT ![s] =
                            paRejected[s] \/ "REJECTED" \in StatusCodeMap(code)]
        /\ paBy' = paBy /\ paInvoice' = paInvoice
    BY <1>3 DEF PlatformEvent
  <2>2. Resolve(paStatus[s], code) = "REJECTED" =>
          paStatus[s] = "REJECTED" \/ "REJECTED" \in StatusCodeMap(code)
    BY DEF Resolve
  <2> QED
    BY <1>1, <2>1, <2>2 DEF PlatformInv, TypeOK
<1>4. CASE UNCHANGED paVars
  BY <1>1, <1>4 DEF PlatformInv, paVars
<1> QED
  BY <1>2, <1>3, <1>4, PlatformFrame

(* No action submits an invoice whose credit is not recorded.              *)
LEMMA CreditStep == ASSUME IInv, [Next]_vars PROVE CreditBeforeSubmission'
<1>1. TypeOK /\ CreditBeforeSubmission /\ WorkerInv
  BY DEF IInv
<1>2. \A i \in Invoices : facturX[i] => facturX'[i]
  BY <1>1, CreditFrame DEF GenerateAndRecord, Throw, rowVars, TypeOK
<1>3. ASSUME NEW w \in Workers, Submit(w) PROVE CreditBeforeSubmission'
  BY <1>1, <1>2, <1>3
     DEF Submit, Throw, paVars, CreditBeforeSubmission, WorkerInv, InTransmit,
         PastGuard, PastCredit, TypeOK
<1>4. CASE paInvoice' = paInvoice
  BY <1>1, <1>2, <1>4 DEF CreditBeforeSubmission, TypeOK
<1> QED
  BY <1>3, <1>4, PlatformFrame DEF PlatformEvent, paVars

(* No action shows a status the platform did not give.                     *)
LEMMA StatusStep == ASSUME IInv, [Next]_vars PROVE StatusComesFromPlatform'
<1>1. /\ TypeOK /\ StatusComesFromPlatform /\ WorkerInv /\ RefreshInv
  BY DEF IInv
<1>2. ASSUME NEW s \in Submissions, paInvoice[s] # NoInvoice
      PROVE  /\ paInvoice'[s] = paInvoice[s]
             /\ paStatus[s] \in {"ACCEPTED", "REJECTED"} => paStatus'[s] = paStatus[s]
  BY <1>1, <1>2, PlatformFrame
     DEF Submit, PlatformEvent, Throw, paVars, TypeOK
<1>3. ASSUME NEW w \in Workers, PersistSent(w) PROVE StatusComesFromPlatform'
  <2>1. /\ cur[w] \in Invoices /\ sub[w] \in Submissions
        /\ paInvoice[sub[w]] = cur[w]
        /\ paInvoice' = paInvoice /\ paStatus' = paStatus
        /\ status' = [status EXCEPT ![cur[w]] = "SENT"]
        /\ ref' = [ref EXCEPT ![cur[w]] = sub[w]]
    BY <1>1, <1>3 DEF PersistSent, WorkerInv, InTransmit, paVars
  <2> QED
    BY <1>1, <2>1, NullsAssumption DEF StatusComesFromPlatform, TypeOK
<1>4. ASSUME NEW r \in Refreshes, RefreshPersist(r) PROVE StatusComesFromPlatform'
  <2>1. /\ status' = [status EXCEPT ![refresh[r].invoice] = refresh[r].status]
        /\ ref' = ref /\ paInvoice' = paInvoice /\ paStatus' = paStatus
    BY <1>4 DEF RefreshPersist, RefreshOnly, paVars
  <2>2. /\ refresh[r].invoice \in Invoices /\ refresh[r].ref \in Submissions
        /\ ref[refresh[r].invoice] # NoSubmission
        /\ paInvoice[refresh[r].ref] = refresh[r].invoice
        /\ refresh[r].status \in {"ACCEPTED", "REJECTED"} =>
             paStatus[refresh[r].ref] = refresh[r].status
    BY <1>1, <1>4 DEF RefreshPersist, RefreshInv
  <2> QED
    BY <1>1, <2>1, <2>2 DEF StatusComesFromPlatform, TypeOK
<1>5. CASE UNCHANGED <<status, reason, ref>>
  <2> SUFFICES ASSUME NEW i \in Invoices
               PROVE  /\ status[i] # "NOT_SENT" => ref[i] # NoSubmission
                      /\ ref[i] # NoSubmission => paInvoice'[ref[i]] = i
                      /\ status[i] \in {"ACCEPTED", "REJECTED"} =>
                           \E s \in Submissions :
                             paInvoice'[s] = i /\ paStatus'[s] = status[i]
    BY <1>5 DEF StatusComesFromPlatform
  <2>1. ref[i] # NoSubmission => paInvoice'[ref[i]] = i
    BY <1>1, <1>2, NullsAssumption DEF StatusComesFromPlatform, TypeOK
  <2>2. ASSUME status[i] \in {"ACCEPTED", "REJECTED"}
        PROVE  \E s \in Submissions : paInvoice'[s] = i /\ paStatus'[s] = status[i]
    <3>1. PICK s \in Submissions : paInvoice[s] = i /\ paStatus[s] = status[i]
      BY <1>1, <2>2 DEF StatusComesFromPlatform
    <3> QED
      BY <1>2, <2>2, <3>1, NullsAssumption
  <2> QED
    BY <1>1, <2>1, <2>2 DEF StatusComesFromPlatform
<1> QED
  BY <1>3, <1>4, <1>5, BoardFrame

(* No action shows a rejection without its reason.                         *)
LEMMA ReasonStep == ASSUME IInv, [Next]_vars PROVE RejectionIsExplained'
<1>1. TypeOK /\ RejectionIsExplained /\ RefreshInv
  BY DEF IInv
<1>2. ASSUME NEW w \in Workers, PersistSent(w) PROVE RejectionIsExplained'
  BY <1>1, <1>2 DEF PersistSent, RejectionIsExplained, TypeOK
<1>3. ASSUME NEW r \in Refreshes, RefreshPersist(r) PROVE RejectionIsExplained'
  BY <1>1, <1>3 DEF RefreshPersist, RefreshInv, RejectionIsExplained, TypeOK
<1>4. CASE UNCHANGED <<status, reason, ref>>
  BY <1>1, <1>4 DEF RejectionIsExplained
<1> QED
  BY <1>2, <1>3, <1>4, BoardFrame

(* No action makes a second automatic submission of an invoice.            *)
LEMMA OnceStep == ASSUME IInv, [Next]_vars PROVE SweepSubmitsOnce'
<1>1. TypeOK /\ QueueInv /\ WorkerInv /\ SweepInv /\ PlatformInv /\ SweepSubmitsOnce
  BY DEF IInv
<1>2. \A i \in Invoices : claims[i] = 1 => claims'[i] = 1
  BY <1>1, QueueFrame
     DEF TypeOK, QueueInv, Claimable, ComputeScheduledTransmitAt, InsertInvoice,
         GracePeriodEnds, CancelAutoTransmit, ClaimAutoTransmit, Crash
<1>3. ASSUME NEW w \in Workers, Submit(w) PROVE SweepSubmitsOnce'
  <2>1. CASE UNCHANGED paVars
    BY <1>1, <1>2, <2>1 DEF SweepSubmitsOnce, PlatformInv, TypeOK, paVars
  <2>2. ASSUME NEW s \in Submissions, paInvoice[s] = NoInvoice,
               paInvoice' = [paInvoice EXCEPT ![s] = cur[w]],
               paBy' = [paBy EXCEPT ![s] = IF w \in Sweeps THEN "sweep" ELSE "click"]
        PROVE  SweepSubmitsOnce'
    <3>1. cur[w] \in Invoices /\ pc[w] = "submit"
      BY <1>1, <1>3 DEF Submit, WorkerInv, InTransmit
    <3>2. CASE w \in Sweeps
      <4>1. claims[cur[w]] = 1
        BY <1>1, <3>1, <3>2 DEF SweepInv, InTransmit
      <4>2. \A t \in Submissions : paBy[t] = "sweep" => paInvoice[t] # cur[w]
        BY <1>1, <3>1, <3>2 DEF SweepInv, InTransmit
      <4> QED
        BY <1>1, <1>2, <2>2, <3>1, <3>2, <4>1, <4>2, NullsAssumption
           DEF SweepSubmitsOnce, PlatformInv, TypeOK
    <3>3. CASE w \notin Sweeps
      BY <1>1, <1>2, <2>2, <3>1, <3>3 DEF SweepSubmitsOnce, PlatformInv, TypeOK
    <3> QED
      BY <3>2, <3>3
  <2> QED
    BY <1>3, <2>1, <2>2 DEF Submit, Throw
<1>4. CASE UNCHANGED <<paInvoice, paBy>>
  BY <1>1, <1>2, <1>4 DEF SweepSubmitsOnce, PlatformInv, TypeOK
<1> QED
  BY <1>3, <1>4, PlatformFrame DEF PlatformEvent, paVars

-------------------------------------------------------------------------------
(* The theorems.                                                           *)

(* The inductive invariant holds: the type invariant and every safety      *)
(* invariant of the module, with what the requests in flight know.         *)
THEOREM Invariance == Spec => []IInv
<1>1. Init => IInv
  <2> SUFFICES ASSUME Init PROVE IInv
    OBVIOUS
  <2>1. TypeOK
    BY BoundsAssumption
       DEF Init, TypeOK, Status, WorkerSteps, RefreshState, IdleRefresh
  <2>2. QueueInv /\ DueInv /\ PlatformInv /\ CreditBeforeSubmission
    BY <2>1 DEF Init, QueueInv, DueInv, PlatformInv, CreditBeforeSubmission
  <2>3. WorkerInv /\ SweepInv
    BY DEF Init, WorkerInv, SweepInv, InTransmit, PastGuard, PastCredit, Workers
  <2>4. RefreshInv
    BY DEF Init, RefreshInv, IdleRefresh
  <2>5. StatusComesFromPlatform /\ RejectionIsExplained /\ SweepSubmitsOnce
    BY DEF Init, StatusComesFromPlatform, RejectionIsExplained, SweepSubmitsOnce
  <2> QED
    BY <2>1, <2>2, <2>3, <2>4, <2>5 DEF IInv
<1>2. IInv /\ [Next]_vars => IInv'
  BY TypeStep, QueueStep, DueStep, WorkerStep, SweepStep, RefreshStep,
     PlatformStep, CreditStep, StatusStep, ReasonStep, OnceStep DEF IInv
<1> QED
  BY <1>1, <1>2, PTL DEF Spec

(* Type correctness.                                                       *)
THEOREM TypeCorrect == Spec => []TypeOK
<1>1. IInv => TypeOK
  BY DEF IInv
<1> QED
  BY <1>1, Invariance, PTL

(* No submission reaches the PA without its Factur-X credit, none is for a *)
(* DEVIS.                                                                  *)
THEOREM CreditIsSpentFirst == Spec => []CreditBeforeSubmission
<1>1. IInv => CreditBeforeSubmission
  BY DEF IInv
<1> QED
  BY <1>1, Invariance, PTL

(* What the board shows was said by the PA about that invoice.             *)
THEOREM BoardIsTruthful == Spec => []StatusComesFromPlatform
<1>1. IInv => StatusComesFromPlatform
  BY DEF IInv
<1> QED
  BY <1>1, Invariance, PTL

(* A rejection shown comes with the reason the PA gave for it.             *)
THEOREM RejectedWithReason == Spec => []RejectionIsExplained
<1>1. IInv => RejectionIsExplained
  BY DEF IInv
<1> QED
  BY <1>1, Invariance, PTL

(* The cron submits an invoice at most once, and only after a claim.       *)
THEOREM SweepOnce == Spec => []SweepSubmitsOnce
<1>1. IInv => SweepSubmitsOnce
  BY DEF IInv
<1> QED
  BY <1>1, Invariance, PTL

(* The rows, sweeps, clicks, cancellations and restarts implement the      *)
(* promise of AutoTransmitQueue.                                           *)
THEOREM QueueRefinement == Spec => ImplementsQueue
<1>1. Init => Queue!QueueInit
  BY DEF Init, Queue!QueueInit, phase
<1>2. ASSUME IInv, [Next]_vars
      PROVE  [Queue!QueueNext]_(Queue!queueVars)
  <2>1. TypeOK /\ QueueInv /\ DueInv
    BY <1>2 DEF IInv
  <2>2. ASSUME NEW i \in Invoices, ComputeScheduledTransmitAt(i)
        PROVE  UNCHANGED <<phase, claims>>
    BY <2>1, <2>2 DEF ComputeScheduledTransmitAt, phase, TypeOK
  <2>3. ASSUME NEW i \in Invoices, InsertInvoice(i) PROVE Queue!Create(i)
    <3>1. /\ row[i] = "inserting" /\ row' = [row EXCEPT ![i] = "inserted"]
          /\ ~(claims[i] > 0) /\ ~cancelled[i]
          /\ scheduled' = scheduled /\ cancelled' = cancelled /\ claims' = claims
      BY <2>1, <2>3 DEF InsertInvoice, QueueInv
    <3>2. row'[i] = "inserted" /\ \A j \in Invoices \ {i} : row'[j] = row[j]
      BY <2>1, <3>1 DEF TypeOK
    <3>3. phase[i] = "absent" /\ phase'[i] \in {"manual", "queued"}
      BY <3>1, <3>2 DEF phase
    <3>4. PICK p \in {"manual", "queued"} : phase'[i] = p
      BY <3>3
    <3>5. ASSUME NEW j \in Invoices \ {i} PROVE phase'[j] = phase[j]
      BY <3>1, <3>2 DEF phase
    <3>6. phase' = [phase EXCEPT ![i] = p]
      <4>1. phase' = [j \in Invoices |-> phase'[j]]
        BY DEF phase
      <4>2. [phase EXCEPT ![i] = p] = [j \in Invoices |-> IF j = i THEN p ELSE phase[j]]
        BY DEF phase
      <4>3. [j \in Invoices |-> phase'[j]] = [j \in Invoices |-> IF j = i THEN p ELSE phase[j]]
        BY <3>4, <3>5
      <4> QED
        BY <4>1, <4>2, <4>3
    <3> QED
      BY <3>1, <3>3, <3>6 DEF Queue!Create
  <2>4. ASSUME NEW i \in Invoices, GracePeriodEnds(i)
        PROVE  UNCHANGED <<phase, claims>>
    <3>1. /\ row' = row /\ claims' = claims /\ cancelled' = cancelled
          /\ \A j \in Invoices : scheduled'[j] = "none" <=> scheduled[j] = "none"
      BY <2>1, <2>4 DEF GracePeriodEnds, TypeOK
    <3>2. phase' = [j \in Invoices |-> phase[j]]
      <4>1. ASSUME NEW j \in Invoices PROVE phase'[j] = phase[j]
        BY <3>1 DEF phase
      <4> QED
        BY <4>1 DEF phase
    <3> QED
      BY <3>1, <3>2 DEF phase
  <2>5. ASSUME NEW i \in Invoices, CancelAutoTransmit(i)
        PROVE  Queue!Cancel(i) \/ UNCHANGED <<phase, claims>>
    <3>1. /\ row[i] = "inserted" /\ row' = row /\ claims' = claims
          /\ cancelled'[i] /\ scheduled'[i] = "none"
          /\ \A j \in Invoices \ {i} :
               cancelled'[j] = cancelled[j] /\ scheduled'[j] = scheduled[j]
      BY <2>1, <2>5 DEF CancelAutoTransmit, TypeOK
    <3>2. CASE claims[i] > 0
      BY <2>1, <3>1, <3>2 DEF phase, QueueInv
    <3>3. CASE ~(claims[i] > 0)
      <4>1. phase' = [phase EXCEPT ![i] = "cancelled"]
        BY <3>1, <3>3 DEF phase
      <4>2. phase[i] \in {"queued", "manual", "cancelled"}
        BY <3>1, <3>3 DEF phase
      <4>3. phase[i] = "cancelled" => phase' = phase
        BY <4>1 DEF phase
      <4> QED
        BY <3>1, <4>1, <4>2, <4>3 DEF Queue!Cancel
    <3> QED
      BY <3>2, <3>3
  <2>6. ASSUME NEW w \in Sweeps, NEW i \in Invoices, ClaimAutoTransmit(w, i)
        PROVE  Queue!Claim(i)
    <3>1. /\ scheduled[i] # "none" /\ row[i] = "inserted" /\ claims[i] = 0
          /\ row' = row /\ cancelled' = cancelled
          /\ scheduled' = [scheduled EXCEPT ![i] = "none"]
          /\ claims' = [claims EXCEPT ![i] = claims[i] + 1]
      BY <2>1, <2>6 DEF ClaimAutoTransmit, Claimable, TypeOK, QueueInv, DueInv
    <3>2. phase[i] = "queued"
      BY <3>1 DEF phase
    <3>3. phase' = [phase EXCEPT ![i] = "claimed"]
      <4>1. phase'[i] = "claimed"
        BY <2>1, <3>1 DEF phase, TypeOK
      <4>2. ASSUME NEW j \in Invoices \ {i} PROVE phase'[j] = phase[j]
        BY <2>1, <3>1 DEF phase, TypeOK
      <4> QED
        BY <4>1, <4>2 DEF phase
    <3> QED
      BY <3>1, <3>2, <3>3 DEF Queue!Claim
  <2>7. CASE Crash
    BY <2>1, <2>7 DEF Crash, phase, TypeOK, QueueInv, Queue!queueVars
  <2>8. CASE UNCHANGED <<row, scheduled, cancelled, claims>>
    BY <2>8 DEF phase, Queue!queueVars
  <2> QED
    BY <1>2, <2>2, <2>3, <2>4, <2>5, <2>6, <2>7, <2>8, QueueFrame
       DEF Queue!QueueNext, Queue!queueVars
<1> QED
  BY <1>1, <1>2, Invariance, PTL DEF Spec, ImplementsQueue, Queue!QueueSpec

(* Through the refinement: no row is attempted automatically twice, none   *)
(* after a cancellation that found it queued.                              *)
THEOREM QueueAttemptsOnce == Spec => []Queue!AttemptedAtMostOnce
<1>1. IInv => Queue!AttemptedAtMostOnce
  BY DEF IInv, TypeOK, QueueInv, Queue!AttemptedAtMostOnce, phase
<1> QED
  BY <1>1, Invariance, PTL
===============================================================================
