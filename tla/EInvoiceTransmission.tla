------------------------- MODULE EInvoiceTransmission -------------------------
(***************************************************************************)
(* A FACTURE's trip through the connected approved platform (PA).          *)
(*                                                                         *)
(* Three kinds of asynchronous request touch the same Invoice row, each a  *)
(* chain of awaits in one Node process, so that any two interleave between *)
(* their statements:                                                       *)
(*   - clicks:    POST /invoices/:id/transmit                              *)
(*                (EInvoiceTransmissionService.transmit);                  *)
(*   - sweeps:    AutoTransmitCronService.sweep, every five minutes, which *)
(*                claims the due rows and calls the same transmit; a slow  *)
(*                sweep overlaps the next one;                             *)
(*   - refreshes: EInvoiceTransmissionService.refreshStatus.               *)
(* The PA is external: a submission it accepted may still end in a timeout *)
(* for the backend. One database statement is one atomic step.             *)
(***************************************************************************)
EXTENDS Naturals, FiniteSets

CONSTANTS
  Invoices,        \* invoice rows of one company
  Devis,           \* those whose documentType is DEVIS
  Clicks,          \* concurrent manual transmit requests
  Sweeps,          \* concurrent ticks of the auto-transmit cron
  Refreshes,       \* concurrent refresh-status requests
  Submissions,     \* ids the PA can hand out (bounds the submissions)
  Events,          \* the PA event codes a submission may receive
  FreeLimit,       \* FACTURX_FREE_MONTHLY_LIMIT
  MaxCrashes,      \* restarts of the backend (bound)
  NoInvoice, NoSubmission

Workers == Clicks \cup Sweeps

ASSUME DevisAssumption == Devis \subseteq Invoices
ASSUME WorkersAssumption == Clicks \cap Sweeps = {}
ASSUME NullsAssumption == NoInvoice \notin Invoices /\ NoSubmission \notin Submissions
ASSUME BoundsAssumption == FreeLimit \in Nat /\ MaxCrashes \in Nat

Status == {"NOT_SENT", "SENT", "VALIDATED", "DELIVERED", "ACCEPTED", "REJECTED"}

(* STATUS_CODE_MAP, read backwards: the PA codes that stand for a status.  *)
(* Codes of no status (payment and internal codes) are ignored.            *)
Codes ==
  [SENT      |-> {"api:uploaded", "fr:200"},
   VALIDATED |-> {"api:validated"},
   DELIVERED |-> {"api:sent", "api:received", "api:acknowledged",
                  "fr:201", "fr:202", "fr:203", "fr:204"},
   ACCEPTED  |-> {"api:accepted", "fr:205", "fr:206"},
   REJECTED  |-> {"api:invalid", "api:rejected", "fr:210", "fr:213", "fr:501"}]

StatusCodeMap(code) == {st \in DOMAIN Codes : code \in Codes[st]}

VARIABLES
  \* the company
  connected,     \* a SUPER PDP connection is stored
  tier,          \* the company has an effective paid plan
  \* the Invoice rows
  row,           \* "absent", "inserting" (create() is past its checks) or "inserted"
  status,        \* eInvoiceTransmissionStatus
  reason,        \* eInvoiceRejectionReason is not null
  ref,           \* superPdpInvoiceId
  scheduled,     \* scheduledTransmitAt: "none", "future" or "due"
  cancelled,     \* transmitCancelledAt is not null
  facturX,       \* facturXFirstUsedAt is not null
  \* requests in flight
  pc, cur, sub,  \* of a worker: next statement, invoice, PA id received
  due,           \* of a sweep: rows of its query not handled yet
  refresh,       \* of a refresh: its local variables
  crashes,
  \* the platform
  paInvoice,     \* the invoice a submission was made for (external_id)
  paBy,          \* who made it: "click" or "sweep"
  paStatus,      \* resolveTransmissionStatus of its event log so far
  paRejected,    \* its event log holds a rejection
  \* history
  claims         \* successful claims of each invoice

companyVars == <<connected, tier>>
rowVars     == <<row, status, reason, ref, scheduled, cancelled, facturX>>
workerVars  == <<pc, cur, sub, due>>
paVars      == <<paInvoice, paBy, paStatus, paRejected>>
vars == <<companyVars, rowVars, workerVars, refresh, crashes, paVars, claims>>

WorkerSteps == {"idle", "sweeping", "read", "gate", "generate", "token", "submit", "answer"}

IdleRefresh == [step |-> "idle", invoice |-> NoInvoice, ref |-> NoSubmission,
                status |-> "NOT_SENT", reason |-> FALSE]

RefreshState ==
  [step : {"idle", "token", "fetch", "persist"}, invoice : Invoices \cup {NoInvoice},
   ref : Submissions \cup {NoSubmission}, status : Status, reason : BOOLEAN]

TypeOK ==
  /\ connected \in BOOLEAN /\ tier \in BOOLEAN
  /\ row \in [Invoices -> {"absent", "inserting", "inserted"}]
  /\ status \in [Invoices -> Status]
  /\ reason \in [Invoices -> BOOLEAN]
  /\ ref \in [Invoices -> Submissions \cup {NoSubmission}]
  /\ scheduled \in [Invoices -> {"none", "future", "due"}]
  /\ cancelled \in [Invoices -> BOOLEAN]
  /\ facturX \in [Invoices -> BOOLEAN]
  /\ pc \in [Workers -> WorkerSteps]
  /\ cur \in [Workers -> Invoices \cup {NoInvoice}]
  /\ sub \in [Workers -> Submissions \cup {NoSubmission}]
  /\ due \in [Sweeps -> SUBSET Invoices]
  /\ refresh \in [Refreshes -> RefreshState]
  /\ crashes \in 0..MaxCrashes
  /\ paInvoice \in [Submissions -> Invoices \cup {NoInvoice}]
  /\ paBy \in [Submissions -> {"nobody", "click", "sweep"}]
  /\ paStatus \in [Submissions -> Status]
  /\ paRejected \in [Submissions -> BOOLEAN]
  /\ claims \in [Invoices -> Nat]

Init ==
  /\ connected \in BOOLEAN /\ tier \in BOOLEAN
  /\ row = [i \in Invoices |-> "absent"]
  /\ status = [i \in Invoices |-> "NOT_SENT"]
  /\ reason = [i \in Invoices |-> FALSE]
  /\ ref = [i \in Invoices |-> NoSubmission]
  /\ scheduled = [i \in Invoices |-> "none"]
  /\ cancelled = [i \in Invoices |-> FALSE]
  /\ facturX = [i \in Invoices |-> FALSE]
  /\ pc = [w \in Workers |-> "idle"]
  /\ cur = [w \in Workers |-> NoInvoice]
  /\ sub = [w \in Workers |-> NoSubmission]
  /\ due = [w \in Sweeps |-> {}]
  /\ refresh = [r \in Refreshes |-> IdleRefresh]
  /\ crashes = 0
  /\ paInvoice = [s \in Submissions |-> NoInvoice]
  /\ paBy = [s \in Submissions |-> "nobody"]
  /\ paStatus = [s \in Submissions |-> "NOT_SENT"]
  /\ paRejected = [s \in Submissions |-> FALSE]
  /\ claims = [i \in Invoices |-> 0]

-------------------------------------------------------------------------------
(* The company and the creation of invoices.                               *)

(* The OAuth callback stores tokens; disconnecting clears them.            *)
ToggleConnection ==
  /\ connected' = ~connected
  /\ UNCHANGED <<tier, rowVars, workerVars, refresh, crashes, paVars, claims>>

(* InvoiceService.create and convertToFacture compute scheduledTransmitAt  *)
(* before the insert; autoTransmit is the company's opt-in. The value is   *)
(* visible to nobody until the row is inserted.                            *)
ComputeScheduledTransmitAt(i) ==
  /\ row[i] = "absent"
  /\ row' = [row EXCEPT ![i] = "inserting"]
  /\ \E autoTransmit \in BOOLEAN :
       scheduled' = [scheduled EXCEPT ![i] =
         IF i \notin Devis /\ autoTransmit /\ connected THEN "future" ELSE "none"]
  /\ UNCHANGED <<companyVars, status, reason, ref, cancelled, facturX,
                 workerVars, refresh, crashes, paVars, claims>>

InsertInvoice(i) ==
  /\ row[i] = "inserting"
  /\ row' = [row EXCEPT ![i] = "inserted"]
  /\ UNCHANGED <<companyVars, status, reason, ref, scheduled, cancelled, facturX,
                 workerVars, refresh, crashes, paVars, claims>>

(* The twenty minutes of AUTO_TRANSMIT_GRACE_PERIOD_MS elapse.             *)
GracePeriodEnds(i) ==
  /\ row[i] = "inserted" /\ scheduled[i] = "future"
  /\ scheduled' = [scheduled EXCEPT ![i] = "due"]
  /\ UNCHANGED <<companyVars, row, status, reason, ref, cancelled, facturX,
                 workerVars, refresh, crashes, paVars, claims>>

(* cancelScheduledTransmit: one write, gated on nothing.                   *)
CancelAutoTransmit(i) ==
  /\ row[i] = "inserted"
  /\ cancelled' = [cancelled EXCEPT ![i] = TRUE]
  /\ scheduled' = [scheduled EXCEPT ![i] = "none"]
  /\ UNCHANGED <<companyVars, row, status, reason, ref, facturX,
                 workerVars, refresh, crashes, paVars, claims>>

-------------------------------------------------------------------------------
(* The sweep.                                                              *)

(* Mutant: only a connected company's rows are looked at. *)
FindDueIfConnected ==
  {i \in Invoices : /\ connected /\ row[i] = "inserted" /\ scheduled[i] = "due"
                    /\ ~cancelled[i] /\ status[i] = "NOT_SENT"}

FindDueForAutoTransmit ==
  {i \in Invoices : /\ row[i] = "inserted"
                    /\ scheduled[i] = "due"
                    /\ ~cancelled[i]
                    /\ status[i] = "NOT_SENT"}

SweepBegin(w) ==
  /\ pc[w] = "idle"
  /\ FindDueForAutoTransmit # {}
  /\ due' = [due EXCEPT ![w] = FindDueForAutoTransmit]
  /\ pc' = [pc EXCEPT ![w] = "sweeping"]
  /\ UNCHANGED <<companyVars, rowVars, cur, sub, refresh, crashes, paVars, claims>>

(* Mutant: the update is keyed by the id alone. *)
ClaimableById(i) == TRUE

(* claimAutoTransmit's WHERE clause.                                       *)
Claimable(i) == scheduled[i] # "none" /\ ~cancelled[i]

(* Mutant: the claim leaves the schedule in place. *)
ClaimKeepingSchedule(w, i) ==
  /\ pc[w] = "sweeping" /\ i \in due[w]
  /\ Claimable(i)
  /\ claims' = [claims EXCEPT ![i] = @ + 1]
  /\ due' = [due EXCEPT ![w] = @ \ {i}]
  /\ cur' = [cur EXCEPT ![w] = i]
  /\ pc' = [pc EXCEPT ![w] = "read"]
  /\ UNCHANGED <<companyVars, rowVars, sub, refresh, crashes, paVars>>

(* The conditional update is the claim; transmit is called only on a count *)
(* of 1.                                                                   *)
ClaimAutoTransmit(w, i) ==
  /\ pc[w] = "sweeping" /\ i \in due[w]
  /\ Claimable(i)
  /\ scheduled' = [scheduled EXCEPT ![i] = "none"]
  /\ claims' = [claims EXCEPT ![i] = @ + 1]
  /\ due' = [due EXCEPT ![w] = @ \ {i}]
  /\ cur' = [cur EXCEPT ![w] = i]
  /\ pc' = [pc EXCEPT ![w] = "read"]
  /\ UNCHANGED <<companyVars, row, status, reason, ref, cancelled, facturX,
                 sub, refresh, crashes, paVars>>

SkipUnclaimed(w, i) ==
  /\ pc[w] = "sweeping" /\ i \in due[w]
  /\ ~Claimable(i)
  /\ due' = [due EXCEPT ![w] = @ \ {i}]
  /\ UNCHANGED <<companyVars, rowVars, pc, cur, sub, refresh, crashes, paVars, claims>>

SweepEnd(w) ==
  /\ pc[w] = "sweeping" /\ due[w] = {}
  /\ pc' = [pc EXCEPT ![w] = "idle"]
  /\ UNCHANGED <<companyVars, rowVars, cur, sub, due, refresh, crashes, paVars, claims>>

-------------------------------------------------------------------------------
(* EInvoiceTransmissionService.transmit, run by a click or by a sweep.     *)

Goto(w, step) ==
  /\ pc' = [pc EXCEPT ![w] = step]
  /\ UNCHANGED <<cur, sub, due>>

(* transmit returned or threw: a click is answered, a sweep logs the error *)
(* and goes on with its next row.                                          *)
Return(w) ==
  /\ pc' = [pc EXCEPT ![w] = IF w \in Sweeps THEN "sweeping" ELSE "idle"]
  /\ cur' = [cur EXCEPT ![w] = NoInvoice]
  /\ sub' = [sub EXCEPT ![w] = NoSubmission]
  /\ UNCHANGED due

Throw(w) ==
  /\ Return(w)
  /\ UNCHANGED <<companyVars, rowVars, refresh, crashes, paVars, claims>>

Click(w, i) ==
  /\ pc[w] = "idle" /\ row[i] = "inserted"
  /\ cur' = [cur EXCEPT ![w] = i]
  /\ pc' = [pc EXCEPT ![w] = "read"]
  /\ UNCHANGED <<companyVars, rowVars, sub, due, refresh, crashes, paVars, claims>>

Transmittable(i) == i \notin Devis /\ status[i] \in {"NOT_SENT", "REJECTED"}

(* findById, then the documentType and status guards on what it returned.  *)
ReadAndGuard(w) ==
  /\ pc[w] = "read"
  /\ \/ /\ Transmittable(cur[w])
        /\ Goto(w, "gate")
        /\ UNCHANGED <<companyVars, rowVars, refresh, crashes, paVars, claims>>
     \/ /\ ~Transmittable(cur[w])
        /\ Throw(w)

CanUseFacturX(i) ==
  facturX[i] \/ tier \/ Cardinality({j \in Invoices : facturX[j]}) < FreeLimit

AssertCanUseFacturX(w) ==
  /\ pc[w] = "gate"
  /\ \/ /\ CanUseFacturX(cur[w])
        /\ Goto(w, "generate")
        /\ UNCHANGED <<companyVars, rowVars, refresh, crashes, paVars, claims>>
     \/ /\ ~CanUseFacturX(cur[w])
        /\ Throw(w)

(* Mutant: the credit is left to another endpoint. *)
GenerateWithoutRecording(w) ==
  /\ pc[w] = "generate"
  /\ \/ /\ Goto(w, "token")
        /\ UNCHANGED <<companyVars, rowVars, refresh, crashes, paVars, claims>>
     \/ Throw(w)

(* getPdfData and generateHybridPdf may fail; recordFacturXUsed runs only  *)
(* after both.                                                             *)
GenerateAndRecord(w) ==
  /\ pc[w] = "generate"
  /\ \/ /\ facturX' = [facturX EXCEPT ![cur[w]] = TRUE]
        /\ Goto(w, "token")
        /\ UNCHANGED <<companyVars, row, status, reason, ref, scheduled, cancelled,
                       refresh, crashes, paVars, claims>>
     \/ Throw(w)

(* A connected company can still fail to obtain a token (refresh refused). *)
GetValidAccessToken(w) ==
  /\ pc[w] = "token"
  /\ \/ /\ connected
        /\ Goto(w, "submit")
        /\ UNCHANGED <<companyVars, rowVars, refresh, crashes, paVars, claims>>
     \/ Throw(w)

(* The PA receives the file and gives the submission an id, or is out of   *)
(* reach and receives nothing.                                             *)
Submit(w) ==
  /\ pc[w] = "submit"
  /\ \/ \E s \in Submissions :
          /\ paInvoice[s] = NoInvoice
          /\ paInvoice' = [paInvoice EXCEPT ![s] = cur[w]]
          /\ paBy' = [paBy EXCEPT ![s] = IF w \in Sweeps THEN "sweep" ELSE "click"]
          /\ sub' = [sub EXCEPT ![w] = s]
          /\ pc' = [pc EXCEPT ![w] = "answer"]
          /\ UNCHANGED <<companyVars, rowVars, cur, due, refresh, crashes,
                         paStatus, paRejected, claims>>
     \/ Throw(w)

(* The PA's answer is lost, late or malformed (SuperPdpUnavailableError).  *)
AnswerLost(w) ==
  /\ pc[w] = "answer"
  /\ Throw(w)

(* Mutant: the new PA id is not stored. *)
PersistStatusOnly(w) ==
  /\ pc[w] = "answer"
  /\ status' = [status EXCEPT ![cur[w]] = "SENT"]
  /\ reason' = [reason EXCEPT ![cur[w]] = FALSE]
  /\ Return(w)
  /\ UNCHANGED <<companyVars, row, ref, scheduled, cancelled, facturX,
                 refresh, crashes, paVars, claims>>

(* updateEInvoiceTransmission writes SENT and the new id, on no condition. *)
PersistSent(w) ==
  /\ pc[w] = "answer"
  /\ status' = [status EXCEPT ![cur[w]] = "SENT"]
  /\ ref' = [ref EXCEPT ![cur[w]] = sub[w]]
  /\ reason' = [reason EXCEPT ![cur[w]] = FALSE]
  /\ Return(w)
  /\ UNCHANGED <<companyVars, row, scheduled, cancelled, facturX,
                 refresh, crashes, paVars, claims>>

Transmit(w) ==
  \/ ReadAndGuard(w)
  \/ AssertCanUseFacturX(w)
  \/ GenerateAndRecord(w)
  \/ GetValidAccessToken(w)
  \/ Submit(w)
  \/ AnswerLost(w)
  \/ PersistSent(w)

Sweep(w) ==
  \/ SweepBegin(w)
  \/ \E i \in Invoices : ClaimAutoTransmit(w, i) \/ SkipUnclaimed(w, i)
  \/ SweepEnd(w)

-------------------------------------------------------------------------------
(* EInvoiceTransmissionService.refreshStatus.                              *)

RefreshOnly == UNCHANGED <<companyVars, workerVars, crashes, paVars, claims>>

PollOf(i, s, step) ==
  [step |-> step, invoice |-> i, ref |-> s, status |-> "NOT_SENT", reason |-> FALSE]

(* The id to poll is read once, before the awaits that follow.             *)
RefreshRead(r, i) ==
  /\ refresh[r].step = "idle"
  /\ row[i] = "inserted" /\ ref[i] # NoSubmission
  /\ refresh' = [refresh EXCEPT ![r] = PollOf(i, ref[i], "token")]
  /\ UNCHANGED rowVars
  /\ RefreshOnly

RefreshToken(r) ==
  /\ refresh[r].step = "token"
  /\ \/ /\ connected
        /\ refresh' = [refresh EXCEPT ![r] = PollOf(refresh[r].invoice, refresh[r].ref, "fetch")]
     \/ refresh' = [refresh EXCEPT ![r] = IdleRefresh]
  /\ UNCHANGED rowVars
  /\ RefreshOnly

RefreshFetch(r) ==
  /\ refresh[r].step = "fetch"
  /\ \/ LET s == refresh[r].ref IN
          refresh' = [refresh EXCEPT ![r] =
            [step |-> "persist", invoice |-> refresh[r].invoice, ref |-> s,
             status |-> paStatus[s], reason |-> paRejected[s]]]
     \/ refresh' = [refresh EXCEPT ![r] = IdleRefresh]
  /\ UNCHANGED rowVars
  /\ RefreshOnly

(* Mutant: only the status is written. *)
RefreshStatusOnly(r) ==
  /\ refresh[r].step = "persist"
  /\ status' = [status EXCEPT ![refresh[r].invoice] = refresh[r].status]
  /\ refresh' = [refresh EXCEPT ![r] = IdleRefresh]
  /\ UNCHANGED <<row, reason, ref, scheduled, cancelled, facturX>>
  /\ RefreshOnly

RefreshPersist(r) ==
  /\ refresh[r].step = "persist"
  /\ status' = [status EXCEPT ![refresh[r].invoice] = refresh[r].status]
  /\ reason' = [reason EXCEPT ![refresh[r].invoice] = refresh[r].reason]
  /\ refresh' = [refresh EXCEPT ![r] = IdleRefresh]
  /\ UNCHANGED <<row, ref, scheduled, cancelled, facturX>>
  /\ RefreshOnly

RefreshStatus(r) ==
  \/ \E i \in Invoices : RefreshRead(r, i)
  \/ RefreshToken(r) \/ RefreshFetch(r) \/ RefreshPersist(r)

-------------------------------------------------------------------------------
(* The platform and the process.                                           *)

(* Mutant: a code of no status is kept as it came. *)
ResolveVerbatim(current, code) ==
  IF StatusCodeMap(code) = {} THEN code ELSE CHOOSE st \in StatusCodeMap(code) : TRUE

(* One turn of the loop of resolveTransmissionStatus: the last mapped event *)
(* wins, an unmapped one changes nothing.                                   *)
Resolve(current, code) ==
  IF StatusCodeMap(code) = {} THEN current ELSE CHOOSE st \in StatusCodeMap(code) : TRUE

(* The event log of a submission grows; as the code's comment states of the *)
(* PA, a log that reached a verdict receives no further mapped event.       *)
PlatformEvent(s, code) ==
  /\ paInvoice[s] # NoInvoice
  /\ paStatus[s] \notin {"ACCEPTED", "REJECTED"}
  /\ paStatus' = [paStatus EXCEPT ![s] = Resolve(@, code)]
  /\ paRejected' = [paRejected EXCEPT ![s] = @ \/ "REJECTED" \in StatusCodeMap(code)]
  /\ UNCHANGED <<companyVars, rowVars, workerVars, refresh, crashes, paInvoice, paBy, claims>>

(* The backend process dies and restarts: every request and sweep in       *)
(* flight is gone, the database and the platform stay.                     *)
Crash ==
  /\ crashes < MaxCrashes
  /\ crashes' = crashes + 1
  /\ pc' = [w \in Workers |-> "idle"]
  /\ cur' = [w \in Workers |-> NoInvoice]
  /\ sub' = [w \in Workers |-> NoSubmission]
  /\ due' = [w \in Sweeps |-> {}]
  /\ refresh' = [r \in Refreshes |-> IdleRefresh]
  /\ row' = [i \in Invoices |-> IF row[i] = "inserting" THEN "absent" ELSE row[i]]
  /\ scheduled' = [i \in Invoices |-> IF row[i] = "inserting" THEN "none" ELSE scheduled[i]]
  /\ UNCHANGED <<companyVars, status, reason, ref, cancelled, facturX, paVars, claims>>

Next ==
  \/ ToggleConnection
  \/ \E i \in Invoices :
       \/ ComputeScheduledTransmitAt(i) \/ InsertInvoice(i)
       \/ GracePeriodEnds(i) \/ CancelAutoTransmit(i)
  \/ \E w \in Sweeps : Sweep(w)
  \/ \E w \in Clicks, i \in Invoices : Click(w, i)
  \/ \E w \in Workers : Transmit(w)
  \/ \E r \in Refreshes : RefreshStatus(r)
  \/ \E s \in Submissions, code \in Events : PlatformEvent(s, code)
  \/ Crash

Spec == Init /\ [][Next]_vars

(* The cron fires again every five minutes, and every await of a request   *)
(* in flight ends (the PA calls carry a timeout), so sweeps and transmits  *)
(* make progress. Nothing obliges the artisan or the platform to act.      *)
Fairness ==
  /\ \A w \in Sweeps : WF_vars(Sweep(w)) /\ WF_vars(Transmit(w))
  /\ \A i \in Invoices : WF_vars(GracePeriodEnds(i))

FairSpec == Spec /\ Fairness

-------------------------------------------------------------------------------
(* What must hold.                                                         *)

Live(s) == paInvoice[s] # NoInvoice /\ paStatus[s] # "REJECTED"

(* Nothing reaches the PA, where there is no undoing it, before its        *)
(* Factur-X credit is recorded, and a DEVIS never does (the order of       *)
(* statements in transmit, whoever called it and whatever failed).         *)
CreditBeforeSubmission ==
  \A s \in Submissions : paInvoice[s] # NoInvoice =>
    facturX[paInvoice[s]] /\ paInvoice[s] \notin Devis

(* What the board shows comes from the PA: a row that says anything but    *)
(* NOT_SENT points at a submission made for that very invoice, and a       *)
(* verdict is the verdict of one of its submissions, although transmit and *)
(* refreshStatus write the row unconditionally, long after reading it.     *)
StatusComesFromPlatform ==
  \A i \in Invoices :
    /\ status[i] # "NOT_SENT" => ref[i] # NoSubmission
    /\ ref[i] # NoSubmission => paInvoice[ref[i]] = i
    /\ status[i] \in {"ACCEPTED", "REJECTED"} =>
         \E s \in Submissions : paInvoice[s] = i /\ paStatus[s] = status[i]

(* A rejection is never shown without the PA's reason (transmit clears the *)
(* reason, refreshStatus rewrites it, in any order).                       *)
RejectionIsExplained ==
  \A i \in Invoices : status[i] = "REJECTED" => reason[i]

(* However sweeps overlap, and whatever answers are lost or restarts       *)
(* happen, the cron submits an invoice to the PA at most once, and only    *)
(* after a claim.                                                          *)
SweepSubmitsOnce ==
  \A s \in Submissions : paBy[s] = "sweep" =>
    /\ claims[paInvoice[s]] = 1
    /\ \A t \in Submissions \ {s} :
         paBy[t] = "sweep" => paInvoice[t] # paInvoice[s]

(* The queue as AutoTransmitQueue sees it.                                 *)
phase ==
  [i \in Invoices |->
    IF row[i] # "inserted" THEN "absent"
    ELSE IF claims[i] > 0 THEN "claimed"
    ELSE IF scheduled[i] # "none" THEN "queued"
    ELSE IF cancelled[i] THEN "cancelled" ELSE "manual"]

Queue == INSTANCE AutoTransmitQueue WITH attempts <- claims

(* The rows, the sweeps, the clicks and the cancellations together keep    *)
(* the promise AutoTransmitQueue states.                                   *)
ImplementsQueue == Queue!QueueSpec

(* An invoice whose grace period is over is claimed, cancelled or found    *)
(* transmitted: no schedule is forgotten, restarts included.               *)
DueIsPickedUp ==
  \A i \in Invoices :
    (row[i] = "inserted" /\ scheduled[i] = "due") ~> (scheduled[i] = "none" \/ status[i] # "NOT_SENT")

(* The sweep's comment: with a manual click racing the claim there is      *)
(* "never a double transmission": two requests never hold a PA id for the  *)
(* same invoice at once. (The code does not ensure it.)                    *)
NeverADoubleTransmission ==
  \A v, w \in Workers :
    v # w /\ sub[v] # NoSubmission /\ sub[w] # NoSubmission =>
      paInvoice[sub[v]] # paInvoice[sub[w]]

(* The sweep's comment: a failed transmit lands back in NOT_SENT because   *)
(* "transmit() never partially applies". (The code does not ensure it.)    *)
NeverPartiallyApplied ==
  \A s \in Submissions :
    Live(s) => \/ status[paInvoice[s]] # "NOT_SENT"
               \/ \E w \in Workers : sub[w] = s
===============================================================================
