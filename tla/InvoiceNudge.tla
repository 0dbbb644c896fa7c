------------------------------ MODULE InvoiceNudge ------------------------------
(***************************************************************************)
(* The daily nudge of ReminderCronService to companies that made no        *)
(* document for a week, and the phones it goes to. A run reads whom to     *)
(* push, then their phones, pushes company after company, and only at the  *)
(* end marks all it pushed. It dies at the first error that is not a       *)
(* PushUnavailableError (the sender wraps none of Firebase's) or with the  *)
(* process. The digest of late invoices has the same loop, but nothing     *)
(* reads what it marks: it leaves no trace here.                           *)
(***************************************************************************)
EXTENDS Naturals

CONSTANTS
  PushCompanies,   \* companies, each the one of its user
  Phones,          \* push tokens
  NoCompany,       \* a token without a row
  Inactivity,      \* days without a document before a nudge (7)
  Cooldown,        \* days between two nudges (30)
  LastPushDay      \* bound of the days

ASSUME PushAssumption ==
  /\ Inactivity \in Nat \ {0} /\ Cooldown \in Nat \ {0} /\ LastPushDay \in Nat
  /\ NoCompany \notin PushCompanies

VARIABLES
  today,           \* the day
  lastDocument,    \* per company, the day of its latest document (at first, of its signup)
  owner,           \* per phone, the company of its PushDevice row
  lastNudgeAt,     \* per company, Company.lastInvoiceNudgeAt, or Never
  ran,             \* the job started today
  run,             \* the run under way
  nudgedOn,        \* history: per company, the day of its latest nudge, or Never
  unmarked         \* history: companies whose latest nudge was never marked

pushVars == <<today, lastDocument, owner, lastNudgeAt, ran, run, nudgedOn, unmarked>>

Never == LastPushDay + 1
PushDays == 0 .. LastPushDay
NoPhones == [c \in PushCompanies |-> {}]
NoRun == [going |-> FALSE, pushing |-> FALSE, todo |-> {}, phones |-> NoPhones, sent |-> {},
          woke |-> {}]

PushInit ==
  /\ today = 0 /\ lastDocument = [c \in PushCompanies |-> 0]
  /\ owner \in [Phones -> PushCompanies \cup {NoCompany}]
  /\ lastNudgeAt = [c \in PushCompanies |-> Never]
  /\ ran = FALSE /\ run = NoRun
  /\ nudgedOn = lastNudgeAt /\ unmarked = {}

-------------------------------------------------------------------------------
(* What the job does not decide                                               *)

PushDayPasses ==
  /\ today < LastPushDay /\ run = NoRun
  /\ today' = today + 1 /\ ran' = FALSE
  /\ UNCHANGED <<lastDocument, owner, lastNudgeAt, run, nudgedOn, unmarked>>

\* A devis or a facture: both are documents made.
MakeDocument(c) ==
  /\ lastDocument[c] # today
  /\ lastDocument' = [lastDocument EXCEPT ![c] = today]
  /\ run' = IF run = NoRun THEN run ELSE [run EXCEPT !.woke = @ \cup {c}]
  /\ UNCHANGED <<today, owner, lastNudgeAt, ran, nudgedOn, unmarked>>

\* The unique token: another account that signs in on the phone repoints its row.
UpsertDevice(p, c) ==
  /\ owner[p] # c /\ owner' = [owner EXCEPT ![p] = c]
  /\ UNCHANGED <<today, lastDocument, lastNudgeAt, ran, run, nudgedOn, unmarked>>

\* Scoped to the account that asks: what another has taken over stays.
DeleteByToken(p, c) ==
  /\ owner[p] = c /\ owner' = [owner EXCEPT ![p] = NoCompany]
  /\ UNCHANGED <<today, lastDocument, lastNudgeAt, ran, run, nudgedOn, unmarked>>

-------------------------------------------------------------------------------
(* The job                                                                  *)

(* Mutant: the cooldown of a company is never looked at. *)
IdleHoweverNudged(c) == today - lastDocument[c] >= Inactivity

\* buildInactiveCompanyWhere counts to the millisecond: on the very day a limit falls, a
\* company may be found or not, ...
MayBeInactive(c) ==
  /\ today - lastDocument[c] >= Inactivity
  /\ lastNudgeAt[c] = Never \/ today - lastNudgeAt[c] >= Cooldown

\* ... and past that day it is.
IsInactive(c) ==
  /\ today - lastDocument[c] > Inactivity
  /\ lastNudgeAt[c] = Never \/ today - lastNudgeAt[c] > Cooldown

InactiveFound ==
  {S \in SUBSET {c \in PushCompanies : MayBeInactive(c)} :
     {c \in PushCompanies : IsInactive(c)} \subseteq S}

\* Whom to push, then their phones, by two queries; with nobody to push the run is over.
StartRun ==
  /\ run = NoRun /\ ~ran /\ ran' = TRUE
  /\ \E S \in InactiveFound :
       run' = IF S = {} THEN NoRun ELSE [NoRun EXCEPT !.going = TRUE, !.todo = S]
  /\ UNCHANGED <<today, lastDocument, owner, lastNudgeAt, nudgedOn, unmarked>>

FindDeviceTokens ==
  /\ run # NoRun /\ ~run.pushing
  /\ run' = [run EXCEPT !.pushing = TRUE,
                        !.phones = [c \in PushCompanies |->
                                      {p \in Phones : c \in run.todo /\ owner[p] = c}]]
  /\ UNCHANGED <<today, lastDocument, owner, lastNudgeAt, ran, nudgedOn, unmarked>>

\* One company of the loop: without a phone it is passed over.
PushOne(c) ==
  /\ run.pushing /\ c \in run.todo
  /\ LET pushed == run.phones[c] # {} IN
     /\ run' = [run EXCEPT !.todo = @ \ {c}, !.sent = IF pushed THEN @ \cup {c} ELSE @]
     /\ nudgedOn' = [nudgedOn EXCEPT ![c] = IF pushed THEN today ELSE @]
  /\ UNCHANGED <<today, lastDocument, owner, lastNudgeAt, ran, unmarked>>

\* markInvoiceNudged: every company pushed, at once, after the loop.
MarkPushed ==
  /\ run.pushing /\ run.todo = {} /\ run' = NoRun
  /\ lastNudgeAt' = [c \in PushCompanies |-> IF c \in run.sent THEN today ELSE lastNudgeAt[c]]
  /\ unmarked' = unmarked \ run.sent
  /\ UNCHANGED <<today, lastDocument, owner, ran, nudgedOn>>

\* An error of Firebase, of a query, or the end of the process: nothing pushed is marked.
RunDies ==
  /\ run # NoRun /\ run' = NoRun
  /\ unmarked' = unmarked \cup run.sent
  /\ UNCHANGED <<today, lastDocument, owner, lastNudgeAt, ran, nudgedOn>>

PushNext ==
  \/ PushDayPasses \/ StartRun \/ FindDeviceTokens \/ MarkPushed \/ RunDies
  \/ \E c \in PushCompanies : MakeDocument(c) \/ PushOne(c)
  \/ \E p \in Phones, c \in PushCompanies : UpsertDevice(p, c) \/ DeleteByToken(p, c)

Runs ==
  [going : BOOLEAN, pushing : BOOLEAN, todo : SUBSET PushCompanies,
   phones : [PushCompanies -> SUBSET Phones], sent : SUBSET PushCompanies,
   woke : SUBSET PushCompanies]

PushTypeOK ==
  /\ today \in PushDays /\ lastDocument \in [PushCompanies -> PushDays]
  /\ ran \in BOOLEAN /\ unmarked \in SUBSET PushCompanies
  /\ owner \in [Phones -> PushCompanies \cup {NoCompany}]
  /\ lastNudgeAt \in [PushCompanies -> PushDays \cup {Never}]
  /\ nudgedOn \in [PushCompanies -> PushDays \cup {Never}]
  /\ run \in Runs

(***************************************************************************)
(* A nudge reaches a company that made no document for the whole window,   *)
(* unless it makes its first while the job runs, and comes no sooner than  *)
(* the cooldown after its previous one, unless the run that sent that one  *)
(* died before it could mark it (findInactiveCompanyIds, the loop of       *)
(* sendInvoiceCreationNudges and markInvoiceNudged, taken together).       *)
(***************************************************************************)
NudgesAreSpaced ==
  [][\A c \in PushCompanies : nudgedOn'[c] # nudgedOn[c] =>
       /\ today - lastDocument[c] >= Inactivity \/ c \in run.woke
       /\ nudgedOn[c] = Never \/ c \in unmarked \/ today - nudgedOn[c] >= Cooldown]_pushVars

PushSpec == PushInit /\ [][PushNext]_pushVars
===============================================================================
