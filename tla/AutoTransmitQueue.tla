-------------------------- MODULE AutoTransmitQueue --------------------------
(***************************************************************************)
(* What "delayed automatic transmission" promises the artisan, whatever    *)
(* the interleaving of cron sweeps, clicks, refreshes and restarts: an     *)
(* invoice enters the queue only at its creation, it is taken out of the   *)
(* queue once, either by a sweep (which then makes one attempt) or by a    *)
(* cancellation, and nothing ever puts it back.                            *)
(*                                                                         *)
(* EInvoiceTransmission implements this specification.                     *)
(***************************************************************************)
EXTENDS Naturals

CONSTANT Invoices

VARIABLES
  phase,     \* phase[i]: where invoice i stands with respect to the queue
  attempts   \* attempts[i]: automatic transmissions of i started so far

queueVars == <<phase, attempts>>

Phases == {"absent", "manual", "queued", "claimed", "cancelled"}

QueueTypeOK ==
  /\ phase \in [Invoices -> Phases]
  /\ attempts \in [Invoices -> Nat]

QueueInit ==
  /\ phase = [i \in Invoices |-> "absent"]
  /\ attempts = [i \in Invoices |-> 0]

Create(i) ==
  /\ phase[i] = "absent"
  /\ \E p \in {"manual", "queued"} : phase' = [phase EXCEPT ![i] = p]
  /\ UNCHANGED attempts

Claim(i) ==
  /\ phase[i] = "queued"
  /\ phase' = [phase EXCEPT ![i] = "claimed"]
  /\ attempts' = [attempts EXCEPT ![i] = @ + 1]

Cancel(i) ==
  /\ phase[i] \in {"queued", "manual"}
  /\ phase' = [phase EXCEPT ![i] = "cancelled"]
  /\ UNCHANGED attempts

QueueNext == \E i \in Invoices : Create(i) \/ Claim(i) \/ Cancel(i)

QueueSpec == QueueInit /\ [][QueueNext]_queueVars

(* An invoice is attempted automatically at most once, and never after a   *)
(* cancellation that found it still queued (AutoTransmitCronService.sweep, *)
(* InvoiceRepository.cancelScheduledTransmit).                             *)
AttemptedAtMostOnce ==
  \A i \in Invoices : attempts[i] = IF phase[i] = "claimed" THEN 1 ELSE 0
==============================================================================
