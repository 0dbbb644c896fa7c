--------------------------- MODULE ReceivedInvoiceSync ---------------------------
(***************************************************************************)
(* The inbox of supplier invoices: ReceivedInvoiceService.sync pages       *)
(* through what the platform holds, from the highest id already stored,    *)
(* on the artisan's "Actualiser" or in the daily sweep. Nothing else       *)
(* records how far a company has been read.                                *)
(*                                                                         *)
(* The platform numbers a company's incoming invoices 1, 2, ... in the     *)
(* order it makes them visible.                                            *)
(***************************************************************************)
EXTENDS Naturals, Sequences, FiniteSetsExt

CONSTANTS
  SyncCompanies, \* companies
  MaxIncoming,   \* per company, bound of the invoices it receives
  PageSize,      \* invoices in a page of the platform (100)
  MaxSyncPages,  \* pages one sync may read (20)
  MaxSyncFaults  \* bound of the transient failures and restarts

ASSUME SyncBounds ==
  /\ PageSize \in Nat \ {0} /\ MaxSyncPages \in Nat \ {0} /\ MaxSyncFaults \in Nat
  /\ MaxIncoming \in [SyncCompanies -> Nat]

VARIABLES
  incoming,  \* per company, how many invoices the platform holds
  inbox,     \* per company, the ids stored
  enrolled,  \* companies connected and with autoSyncReceivedInvoices on
  refused,   \* companies the platform refuses until they reconnect
  job,       \* the syncs running: the artisan's, per company, and the sweep's
  sweep,     \* companies the running sweep has still to sync
  syncFaults \* failures so far

syncVars == <<incoming, inbox, enrolled, refused, job, sweep, syncFaults>>

Sweeper == "sweep"
Jobs == SyncCompanies \cup {Sweeper}
Idle == [at |-> "idle"]
Running(c, cursor, page, more, pages) ==
  [at |-> IF page = <<>> THEN "list" ELSE "upsert", company |-> c, cursor |-> cursor,
   page |-> page, more |-> more, pages |-> pages]

SyncInit ==
  /\ incoming = [c \in SyncCompanies |-> 0] /\ inbox = [c \in SyncCompanies |-> {}]
  /\ enrolled = {} /\ refused = {}
  /\ job = [j \in Jobs |-> Idle] /\ sweep = {} /\ syncFaults = 0

-------------------------------------------------------------------------------
(* The platform and the company's settings                                  *)

Receive(c) ==
  /\ incoming[c] < MaxIncoming[c]
  /\ incoming' = [incoming EXCEPT ![c] = @ + 1]
  /\ UNCHANGED <<inbox, enrolled, refused, job, sweep, syncFaults>>

\* The artisan connects and enrols, or leaves; reconnecting clears a refusal.
Toggle(c) ==
  /\ enrolled' = IF c \in enrolled THEN enrolled \ {c} ELSE enrolled \cup {c}
  /\ refused' = refused \ {c}
  /\ UNCHANGED <<incoming, inbox, job, sweep, syncFaults>>

\* The refresh token is dead: every call of this company fails from now on.
LoseAccess(c) ==
  /\ c \in enrolled \ refused /\ syncFaults < MaxSyncFaults
  /\ refused' = refused \cup {c} /\ syncFaults' = syncFaults + 1
  /\ UNCHANGED <<incoming, inbox, enrolled, job, sweep>>

-------------------------------------------------------------------------------
(* ReceivedInvoiceService.sync                                              *)

\* findMaxSuperPdpInvoiceId: the ids compared as numbers; 0 when nothing is stored.
HighestStored(c) == Max(inbox[c] \cup {0})

Begin(j, c) == job' = [job EXCEPT ![j] = Running(c, HighestStored(c), <<>>, FALSE, 0)]
Finish(j) == job' = [job EXCEPT ![j] = Idle]

\* The artisan's "Actualiser".
Refresh(c) ==
  /\ job[c] = Idle /\ c \in enrolled
  /\ Begin(c, c)
  /\ UNCHANGED <<incoming, inbox, enrolled, refused, sweep, syncFaults>>

(* Mutant: one page more than allowed. *)
OnePageMore(j) == job[j].pages > MaxSyncPages
PagesSpent(j) == job[j].pages = MaxSyncPages

\* listIncomingInvoices after the cursor, in ascending order; an empty page that
\* announces no other ends the sync, so does the last page allowed.
List(j) ==
  /\ job[j].at = "list" /\ job[j].company \in enrolled \ refused
  /\ LET c == job[j].company
         last == Min({incoming[c], job[j].cursor + PageSize})
         page == [k \in 1..(last - job[j].cursor) |-> job[j].cursor + k]
     IN IF page = <<>> \/ PagesSpent(j) THEN Finish(j)
        ELSE job' = [job EXCEPT ![j] = Running(c, last, page, last < incoming[c], @.pages + 1)]
  /\ UNCHANGED <<incoming, inbox, enrolled, refused, sweep, syncFaults>>

(* Mutant: the rows of a page are written in any order, at once. *)
UpsertAny(j) ==
  /\ job[j].at = "upsert"
  /\ \E k \in DOMAIN job[j].page :
       LET c == job[j].company
           left == SelectSeq(job[j].page, LAMBDA id : id # job[j].page[k])
       IN /\ inbox' = [inbox EXCEPT ![c] = @ \cup {job[j].page[k]}]
          /\ IF left = <<>> /\ ~job[j].more THEN Finish(j)
             ELSE job' = [job EXCEPT ![j] = Running(c, @.cursor, left, @.more, @.pages)]
  /\ UNCHANGED <<incoming, enrolled, refused, sweep, syncFaults>>

\* upsertMany writes one row at a time, in the order of the page.
Upsert(j) ==
  /\ job[j].at = "upsert"
  /\ LET c == job[j].company
         left == Tail(job[j].page)
     IN /\ inbox' = [inbox EXCEPT ![c] = @ \cup {Head(job[j].page)}]
        /\ IF left = <<>> /\ ~job[j].more THEN Finish(j)
           ELSE job' = [job EXCEPT ![j] = Running(c, @.cursor, left, @.more, @.pages)]
  /\ UNCHANGED <<incoming, enrolled, refused, sweep, syncFaults>>

\* The platform is unreachable, or a row of the page conflicts with another sync.
SyncFails(j) ==
  /\ job[j] # Idle
  /\ IF job[j].company \in enrolled \ refused
       THEN syncFaults < MaxSyncFaults /\ syncFaults' = syncFaults + 1
       ELSE job[j].at = "list" /\ UNCHANGED syncFaults

\* A sync that throws: the artisan gets an error, the sweep logs it and goes on.
Abandon(j) ==
  /\ SyncFails(j) /\ Finish(j)
  /\ UNCHANGED <<incoming, inbox, enrolled, refused, sweep>>

-------------------------------------------------------------------------------
(* ReceivedInvoiceSyncCronService.sweep, every day at 7                      *)

StartSweep ==
  /\ job[Sweeper] = Idle /\ sweep = {} /\ enrolled # {}
  /\ sweep' = enrolled
  /\ UNCHANGED <<incoming, inbox, enrolled, refused, job, syncFaults>>

\* The companies come in the order the query gave, unspecified.
SweepNext ==
  /\ job[Sweeper] = Idle
  /\ \E c \in sweep : Begin(Sweeper, c) /\ sweep' = sweep \ {c}
  /\ UNCHANGED <<incoming, inbox, enrolled, refused, syncFaults>>

(* Mutant: the sweep has no try around a company. *)
SweepStops ==
  /\ SyncFails(Sweeper) /\ Finish(Sweeper)
  /\ sweep' = {} /\ UNCHANGED <<incoming, inbox, enrolled, refused>>

\* One company's failure never blocks the rest of the run.
SweepSkips == Abandon(Sweeper)

\* The process stops in the middle of everything.
SyncRestart ==
  /\ syncFaults < MaxSyncFaults /\ syncFaults' = syncFaults + 1
  /\ job' = [j \in Jobs |-> Idle] /\ sweep' = {}
  /\ UNCHANGED <<incoming, inbox, enrolled, refused>>

SyncMoves(j) == List(j) \/ Upsert(j) \/ IF j = Sweeper THEN SweepSkips ELSE Abandon(j)
SyncNext ==
  \/ \E c \in SyncCompanies : Receive(c) \/ Toggle(c) \/ LoseAccess(c) \/ Refresh(c)
  \/ \E j \in Jobs : SyncMoves(j)
  \/ StartSweep \/ SweepNext \/ SyncRestart

\* The scheduler starts the sweep every day and the process runs what it started; a
\* call refused or unanswered ends (its timeout). Nothing is promised of the artisan.
SyncFairness ==
  /\ WF_syncVars(StartSweep) /\ WF_syncVars(SweepNext)
  /\ \A j \in Jobs : WF_syncVars(SyncMoves(j))

SyncSpec == SyncInit /\ [][SyncNext]_syncVars /\ SyncFairness

-------------------------------------------------------------------------------
(* Properties                                                               *)

Runnings ==
  [at : {"list", "upsert"}, company : SyncCompanies, cursor : Nat, page : Seq(Nat),
   more : BOOLEAN, pages : 0..MaxSyncPages]

SyncTypeOK ==
  /\ incoming \in [SyncCompanies -> Nat] /\ inbox \in [SyncCompanies -> SUBSET Nat]
  /\ \A c \in SyncCompanies : incoming[c] <= MaxIncoming[c] /\ inbox[c] \subseteq 1..incoming[c]
  /\ enrolled \subseteq SyncCompanies /\ refused \subseteq enrolled
  /\ job \in [Jobs -> Runnings \cup {Idle}]
  /\ \A j \in Jobs : job[j] # Idle => job[j].cursor <= incoming[job[j].company]
  /\ sweep \subseteq SyncCompanies /\ syncFaults \in 0..MaxSyncFaults

\* The highest id stored is the only cursor (findMaxSuperPdpInvoiceId): an invoice below
\* it would never be read again. Two syncs at once, a failure in the middle of a page or
\* a restart never leave such a gap.
InboxHasNoGap ==
  \A c \in SyncCompanies : \A id \in inbox[c] : 1..id \subseteq inbox[c]

\* A company that stays enrolled and accepted keeps catching up with the platform, down
\* to its last invoice, whatever happens to the other companies of the sweep.
Delivers(c) ==
  <>[](c \in enrolled \ refused) => []<>(1..incoming[c] \subseteq inbox[c])
AutoSyncDelivers == \A c \in SyncCompanies : Delivers(c)

===============================================================================
