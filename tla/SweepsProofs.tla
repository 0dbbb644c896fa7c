----------------------------- MODULE SweepsProofs -----------------------------
(* Theorems about the scheduled jobs of MCEInvoiceSweeps other than the     *)
(* transmission: InvoiceNudge and ReceivedInvoiceSync, for every number of  *)
(* companies, phones, invoices, pages, days and failures; then about the    *)
(* three side by side.                                                      *)
EXTENDS EInvoiceTransmissionProofs, MCEInvoiceSweeps, SequenceTheorems

-------------------------------------------------------------------------------
(* InvoiceNudge                                                            *)

\* The company made no document for the window, or made its first since the run began.
StillInactive(c) == today - lastDocument[c] >= Inactivity \/ c \in run.woke

\* The last nudge that was marked lies at least a cooldown back.
Rested(c) == lastNudgeAt[c] = Never \/ today - lastNudgeAt[c] >= Cooldown

(* The companies still to push were found by the query and not pushed by   *)
(* this run; what it pushed, it pushed today.                              *)
RunInv ==
  /\ \A c \in run.todo : StillInactive(c) /\ Rested(c) /\ c \notin run.sent
  /\ \A c \in run.sent : nudgedOn[c] = today

(* The day marked is the day of the last nudge, but for the companies of a *)
(* run that goes on or that died.                                          *)
MarkInv ==
  \A c \in PushCompanies : c \in unmarked \/ c \in run.sent \/ nudgedOn[c] = lastNudgeAt[c]

NudgeInv == PushTypeOK /\ RunInv /\ MarkInv

LEMMA NoRunIsARun ==
  /\ NoRun \in Runs /\ NoRun.todo = {} /\ NoRun.sent = {} /\ ~NoRun.pushing
BY DEF NoRun, Runs, NoPhones

LEMMA NudgeStarts == PushInit => NudgeInv
<1> SUFFICES ASSUME PushInit PROVE NudgeInv
  OBVIOUS
<1>1. PushTypeOK
  <2>1. 0 \in PushDays
    BY PushAssumption DEF PushDays
  <2> QED
    BY <2>1, NoRunIsARun DEF PushInit, PushTypeOK
<1>2. RunInv /\ MarkInv
  BY NoRunIsARun DEF PushInit, RunInv, MarkInv
<1> QED
  BY <1>1, <1>2 DEF NudgeInv

\* What an update of one field or two leaves of a run.
LEMMA RunMoves ==
  ASSUME NEW r \in Runs
  PROVE  /\ \A c \in PushCompanies :
              /\ [r EXCEPT !.woke = @ \cup {c}] \in Runs
              /\ [r EXCEPT !.woke = @ \cup {c}].todo = r.todo
              /\ [r EXCEPT !.woke = @ \cup {c}].sent = r.sent
              /\ [r EXCEPT !.woke = @ \cup {c}].woke = r.woke \cup {c}
         /\ \A phones \in [PushCompanies -> SUBSET Phones] :
              /\ [r EXCEPT !.pushing = TRUE, !.phones = phones] \in Runs
              /\ [r EXCEPT !.pushing = TRUE, !.phones = phones].todo = r.todo
              /\ [r EXCEPT !.pushing = TRUE, !.phones = phones].sent = r.sent
              /\ [r EXCEPT !.pushing = TRUE, !.phones = phones].woke = r.woke
         /\ \A todo \in SUBSET PushCompanies :
              /\ [r EXCEPT !.going = TRUE, !.todo = todo] \in Runs
              /\ [r EXCEPT !.going = TRUE, !.todo = todo].todo = todo
              /\ [r EXCEPT !.going = TRUE, !.todo = todo].sent = r.sent
BY DEF Runs

LEMMA NudgeStep ==
  ASSUME NudgeInv, [PushNext]_pushVars
  PROVE  NudgeInv'
<1>0. /\ PushTypeOK /\ run \in Runs /\ today \in PushDays /\ RunInv /\ MarkInv
      /\ PushDays \subseteq Nat /\ Never \notin PushDays
  BY PushAssumption DEF NudgeInv, PushTypeOK, PushDays, Never
<1>1. CASE UNCHANGED pushVars
  BY <1>0, <1>1 DEF pushVars, NudgeInv, PushTypeOK, RunInv, MarkInv, StillInactive, Rested, Runs
<1>2. CASE PushDayPasses
  <2>1. PushTypeOK'
    <3>1. today' \in PushDays
      BY <1>0, <1>2, PushAssumption DEF PushDayPasses, PushDays
    <3>2. ran' \in BOOLEAN /\ UNCHANGED <<lastDocument, owner, lastNudgeAt, run, nudgedOn, unmarked>>
      BY <1>2 DEF PushDayPasses
    <3> QED
      BY <1>0, <3>1, <3>2 DEF PushTypeOK
  <2>2. run' = NoRun /\ UNCHANGED <<lastNudgeAt, nudgedOn, unmarked, run>>
    BY <1>2 DEF PushDayPasses
  <2>3. RunInv' /\ MarkInv'
    BY <1>0, <2>2, NoRunIsARun DEF RunInv, MarkInv
  <2> QED
    BY <2>1, <2>3 DEF NudgeInv
<1>3. ASSUME NEW c \in PushCompanies, MakeDocument(c) PROVE NudgeInv'
  <2>1. /\ run' \in Runs /\ run'.todo = run.todo /\ run'.sent = run.sent
        /\ run # NoRun => run'.woke = run.woke \cup {c}
    BY <1>0, <1>3, RunMoves DEF MakeDocument
  <2>2. PushTypeOK'
    BY <1>0, <1>3, <2>1 DEF MakeDocument, PushTypeOK
  <2>3. ASSUME NEW d \in run.todo
        PROVE  StillInactive(d)' /\ Rested(d)'
    <3>1. run # NoRun /\ StillInactive(d) /\ Rested(d) /\ d \in PushCompanies
      BY <1>0, NoRunIsARun DEF RunInv, Runs
    <3>2. CASE d = c
      BY <1>3, <2>1, <3>1, <3>2 DEF MakeDocument, StillInactive, Rested
    <3>3. CASE d # c
      BY <1>0, <1>3, <2>1, <3>1, <3>3 DEF MakeDocument, StillInactive, Rested, PushTypeOK
    <3> QED
      BY <3>2, <3>3
  <2>4. RunInv' /\ MarkInv'
    BY <1>0, <1>3, <2>1, <2>3 DEF MakeDocument, RunInv, MarkInv
  <2> QED
    BY <2>2, <2>4 DEF NudgeInv
<1>4. ASSUME NEW p \in Phones, NEW c \in PushCompanies, UpsertDevice(p, c) \/ DeleteByToken(p, c)
      PROVE  NudgeInv'
  <2>1. UNCHANGED <<today, lastDocument, lastNudgeAt, ran, run, nudgedOn, unmarked>>
    BY <1>4 DEF UpsertDevice, DeleteByToken
  <2>2. owner' \in [Phones -> PushCompanies \cup {NoCompany}]
    BY <1>0, <1>4 DEF UpsertDevice, DeleteByToken, PushTypeOK
  <2>3. PushTypeOK'
    BY <1>0, <2>1, <2>2 DEF PushTypeOK
  <2>4. RunInv' /\ MarkInv'
    BY <1>0, <2>1 DEF RunInv, MarkInv, StillInactive, Rested
  <2> QED
    BY <2>3, <2>4 DEF NudgeInv
<1>5. CASE StartRun
  <2>1. PICK S \in InactiveFound :
          run' = IF S = {} THEN NoRun ELSE [NoRun EXCEPT !.going = TRUE, !.todo = S]
    BY <1>5 DEF StartRun
  <2>2. S \subseteq PushCompanies /\ \A c \in S : MayBeInactive(c)
    BY DEF InactiveFound
  <2>3. run' \in Runs /\ run'.todo \subseteq S /\ run'.sent = {} /\ run = NoRun
    <3>1. run = NoRun
      BY <1>5 DEF StartRun
    <3>2. CASE S = {}
      BY <2>1, <3>1, <3>2, NoRunIsARun
    <3>3. CASE S # {}
      <4>1. run' = [NoRun EXCEPT !.going = TRUE, !.todo = S]
        BY <2>1, <3>3
      <4> QED
        BY <2>2, <3>1, <4>1, NoRunIsARun, RunMoves
    <3> QED
      BY <3>2, <3>3
  <2>4. UNCHANGED <<today, lastDocument, owner, lastNudgeAt, nudgedOn, unmarked>> /\ ran' = TRUE
    BY <1>5 DEF StartRun
  <2>5. PushTypeOK'
    BY <1>0, <2>3, <2>4 DEF PushTypeOK
  <2>6. RunInv'
    BY <2>2, <2>3, <2>4 DEF RunInv, MayBeInactive, StillInactive, Rested
  <2>7. MarkInv'
    BY <1>0, <2>3, <2>4, NoRunIsARun DEF MarkInv
  <2> QED
    BY <2>5, <2>6, <2>7 DEF NudgeInv
<1>6. CASE FindDeviceTokens
  <2>1. [c \in PushCompanies |-> {p \in Phones : c \in run.todo /\ owner[p] = c}]
          \in [PushCompanies -> SUBSET Phones]
    OBVIOUS
  <2>2. /\ run' \in Runs /\ run'.todo = run.todo /\ run'.sent = run.sent /\ run'.woke = run.woke
    BY <1>0, <1>6, <2>1, RunMoves DEF FindDeviceTokens
  <2>3. UNCHANGED <<today, lastDocument, owner, lastNudgeAt, ran, nudgedOn, unmarked>>
    BY <1>6 DEF FindDeviceTokens
  <2>4. PushTypeOK'
    BY <1>0, <2>2, <2>3 DEF PushTypeOK
  <2>5. RunInv' /\ MarkInv'
    BY <1>0, <2>2, <2>3 DEF RunInv, MarkInv, StillInactive, Rested
  <2> QED
    BY <2>4, <2>5 DEF NudgeInv
<1>7. ASSUME NEW c \in PushCompanies, PushOne(c) PROVE NudgeInv'
  <2>1. PICK sent \in SUBSET PushCompanies :
          /\ run' = [run EXCEPT !.todo = @ \ {c}, !.sent = sent]
          /\ sent \subseteq run.sent \cup {c} /\ run.sent \subseteq sent
          /\ nudgedOn' = [nudgedOn EXCEPT ![c] = IF c \in sent THEN today ELSE @]
          /\ c \in run.todo
    <3>1. c \notin run.sent /\ run.sent \in SUBSET PushCompanies
      BY <1>0, <1>7 DEF PushOne, RunInv, Runs
    <3>2. CASE run.phones[c] # {}
      BY <1>7, <3>1, <3>2 DEF PushOne
    <3>3. CASE run.phones[c] = {}
      BY <1>7, <3>1, <3>3 DEF PushOne
    <3> QED
      BY <3>2, <3>3
  <2>2. run.todo \ {c} \in SUBSET PushCompanies
    BY <1>0 DEF Runs
  <2>3. /\ run' \in Runs /\ run'.todo = run.todo \ {c} /\ run'.sent = sent /\ run'.woke = run.woke
    <3>1. PICK todo \in SUBSET PushCompanies : todo = run.todo \ {c}
      BY <2>2
    <3>2. run' = [run EXCEPT !.todo = todo, !.sent = sent]
      BY <2>1, <3>1
    <3>3. /\ [run EXCEPT !.todo = todo, !.sent = sent] \in Runs
          /\ [run EXCEPT !.todo = todo, !.sent = sent].todo = todo
          /\ [run EXCEPT !.todo = todo, !.sent = sent].sent = sent
          /\ [run EXCEPT !.todo = todo, !.sent = sent].woke = run.woke
      BY <1>0 DEF Runs
    <3> QED
      BY <3>1, <3>2, <3>3
  <2>4. UNCHANGED <<today, lastDocument, owner, lastNudgeAt, ran, unmarked>>
    BY <1>7 DEF PushOne
  <2>5. /\ nudgedOn' \in [PushCompanies -> PushDays \cup {Never}]
        /\ \A d \in PushCompanies \ {c} : nudgedOn'[d] = nudgedOn[d]
        /\ nudgedOn'[c] = IF c \in sent THEN today ELSE nudgedOn[c]
    BY <1>0, <2>1 DEF PushTypeOK
  <2>6. PushTypeOK'
    BY <1>0, <2>3, <2>4, <2>5 DEF PushTypeOK
  <2>7. RunInv'
    BY <1>0, <2>1, <2>3, <2>4, <2>5 DEF RunInv, StillInactive, Rested
  <2>8. MarkInv'
    BY <1>0, <2>1, <2>3, <2>4, <2>5 DEF MarkInv
  <2> QED
    BY <2>6, <2>7, <2>8 DEF NudgeInv
<1>8. CASE MarkPushed
  <2>1. run' = NoRun /\ UNCHANGED <<today, lastDocument, owner, ran, nudgedOn>>
    BY <1>8 DEF MarkPushed
  <2>2. /\ lastNudgeAt' \in [PushCompanies -> PushDays \cup {Never}]
        /\ unmarked' \in SUBSET PushCompanies
    BY <1>0, <1>8 DEF MarkPushed, PushTypeOK
  <2>3. PushTypeOK'
    BY <1>0, <2>1, <2>2, NoRunIsARun DEF PushTypeOK
  <2>4. RunInv' /\ MarkInv'
    BY <1>0, <1>8, <2>1, NoRunIsARun DEF MarkPushed, RunInv, MarkInv
  <2> QED
    BY <2>3, <2>4 DEF NudgeInv
<1>9. CASE RunDies
  <2>1. run' = NoRun /\ UNCHANGED <<today, lastDocument, owner, lastNudgeAt, ran, nudgedOn>>
    BY <1>9 DEF RunDies
  <2>2. unmarked' = unmarked \cup run.sent /\ run.sent \subseteq PushCompanies
    BY <1>0, <1>9 DEF RunDies, Runs
  <2>3. PushTypeOK'
    BY <1>0, <2>1, <2>2, NoRunIsARun DEF PushTypeOK
  <2>4. RunInv' /\ MarkInv'
    BY <1>0, <2>1, <2>2, NoRunIsARun DEF RunInv, MarkInv
  <2> QED
    BY <2>3, <2>4 DEF NudgeInv
<1> QED
  BY <1>1, <1>2, <1>3, <1>4, <1>5, <1>6, <1>7, <1>8, <1>9 DEF PushNext

LEMMA NudgeAlways == PushSpec => []NudgeInv
BY NudgeStarts, NudgeStep, PTL DEF PushSpec

(* The companies, the phones and the run have the values the code gives    *)
(* them (ReminderCronService).                                             *)
THEOREM NudgeTypes == PushSpec => []PushTypeOK
<1>1. NudgeInv => PushTypeOK
  BY DEF NudgeInv
<1> QED
  BY <1>1, NudgeAlways, PTL

(* A nudge goes to a company that was inactive for the whole window when   *)
(* the run looked, and leaves a cooldown after the previous one unless the *)
(* run of that one died (findInactiveCompanyIds, markInvoiceNudged).       *)
THEOREM Spaced == PushSpec => NudgesAreSpaced
<1> DEFINE A == \A c \in PushCompanies : nudgedOn'[c] # nudgedOn[c] =>
                  /\ today - lastDocument[c] >= Inactivity \/ c \in run.woke
                  /\ nudgedOn[c] = Never \/ c \in unmarked \/ today - nudgedOn[c] >= Cooldown
<1>1. ASSUME NudgeInv, [PushNext]_pushVars PROVE [A]_pushVars
  <2>1. ASSUME NEW c \in PushCompanies, PushOne(c) PROVE A
    <3>1. c \in run.todo /\ \A d \in PushCompanies \ {c} : nudgedOn'[d] = nudgedOn[d]
      BY <1>1, <2>1 DEF PushOne, NudgeInv, PushTypeOK
    <3>2. StillInactive(c) /\ Rested(c) /\ c \notin run.sent
      BY <1>1, <3>1 DEF NudgeInv, RunInv
    <3>3. c \in unmarked \/ nudgedOn[c] = lastNudgeAt[c]
      BY <1>1, <3>2 DEF NudgeInv, MarkInv
    <3> QED
      BY <3>1, <3>2, <3>3 DEF StillInactive, Rested
  <2>2. CASE UNCHANGED nudgedOn
    BY <2>2
  <2> QED
    BY <1>1, <2>1, <2>2 DEF PushNext, pushVars, PushDayPasses, StartRun, FindDeviceTokens,
       MarkPushed, RunDies, MakeDocument, UpsertDevice, DeleteByToken
<1> QED
  BY <1>1, NudgeAlways, PTL DEF PushSpec, NudgesAreSpaced

-------------------------------------------------------------------------------
(* ReceivedInvoiceSync                                                     *)

(* What a company has stored are the first invoices it received: no gap,   *)
(* and the highest id is their number.                                     *)
StoredInv == \A c \in SyncCompanies : \E n \in 0..incoming[c] : inbox[c] = 1..n

(* A sync works through the ids that come right after what is stored: the  *)
(* rest of its page ends at its cursor, and all before it is stored.       *)
Contiguous(q) ==
  /\ q.at = "list" <=> q.page = <<>>
  /\ Len(q.page) <= q.cursor
  /\ \A k \in 1..Len(q.page) : q.page[k] = q.cursor - Len(q.page) + k
  /\ 1..(q.cursor - Len(q.page)) \subseteq inbox[q.company]

PagesInv == \A j \in Jobs : job[j] # Idle => Contiguous(job[j])

SyncInv == SyncTypeOK /\ StoredInv /\ PagesInv

LEMMA NoGap == StoredInv /\ SyncTypeOK => InboxHasNoGap
<1> SUFFICES ASSUME StoredInv, SyncTypeOK,
                    NEW c \in SyncCompanies, NEW id \in inbox[c], NEW i \in 1..id
             PROVE  i \in inbox[c]
  BY DEF InboxHasNoGap
<1>1. PICK n \in 0..incoming[c] : inbox[c] = 1..n
  BY DEF StoredInv
<1>2. incoming[c] \in Nat
  BY DEF SyncTypeOK
<1> QED
  BY <1>1, <1>2

\* The cursor of a sync that begins.
LEMMA HighestIsTheNumber ==
  ASSUME NEW c \in SyncCompanies, NEW n \in Nat, inbox[c] = 1..n
  PROVE  HighestStored(c) = n
<1>1. n \in inbox[c] \cup {0} /\ \A i \in inbox[c] \cup {0} : n >= i /\ i \in Int
  OBVIOUS
<1>2. \A m \in inbox[c] \cup {0} : (\A i \in inbox[c] \cup {0} : m >= i) => m = n
  BY <1>1
<1> QED
  BY <1>1, <1>2 DEF HighestStored, Max

LEMMA RunningFacts ==
  ASSUME NEW c \in SyncCompanies, NEW cursor \in Nat, NEW page \in Seq(Nat),
         NEW more \in BOOLEAN, NEW pages \in 0..MaxSyncPages
  PROVE  LET q == Running(c, cursor, page, more, pages) IN
         /\ q \in Runnings /\ q # Idle
         /\ q.at = "list" <=> q.page = <<>>
         /\ q.company = c /\ q.cursor = cursor /\ q.page = page
<1> DEFINE q == Running(c, cursor, page, more, pages)
<1>1. q.at \in {"list", "upsert"} /\ (q.at = "list" <=> page = <<>>)
  BY DEF Running
<1>2. q.company = c /\ q.cursor = cursor /\ q.page = page
  BY DEF Running
<1>3. q \in Runnings
  BY DEF Running, Runnings
<1>4. q # Idle
  BY <1>1 DEF Idle
<1> QED
  BY <1>1, <1>2, <1>3, <1>4

\* A page of ids that follow a cursor.
LEMMA PageFacts ==
  ASSUME NEW from \in Nat, NEW last \in Nat
  PROVE  LET page == [k \in 1..(last - from) |-> from + k] IN
         /\ page = <<>> <=> last <= from
         /\ last > from => /\ page \in Seq(Nat) /\ Len(page) = last - from
                          /\ \A k \in 1..Len(page) : page[k] = from + k
<1> DEFINE page == [k \in 1..(last - from) |-> from + k]
<1>1. CASE last > from
  <2>1. PICK n \in Nat : n = last - from /\ n > 0
    BY <1>1
  <2>2. page = [k \in 1..n |-> from + k]
    BY <2>1
  <2> HIDE DEF page
  <2>3. page \in Seq(Nat) /\ Len(page) = n /\ DOMAIN page = 1..n
    BY <2>2
  <2>4. page # <<>>
    BY <2>1, <2>3
  <2>5. \A k \in 1..n : page[k] = from + k
    BY <2>2
  <2> QED
    BY <1>1, <2>1, <2>3, <2>4, <2>5 DEF page
<1>2. CASE last <= from
  <2>1. 1..(last - from) = {}
    BY <1>2
  <2>2. page = <<>>
    BY <2>1
  <2> QED
    BY <1>2, <2>2
<1> QED
  BY <1>1, <1>2

LEMMA SyncStarts == SyncInit => SyncInv
<1> SUFFICES ASSUME SyncInit PROVE SyncInv
  OBVIOUS
<1>1. 0 \in 0..MaxSyncFaults /\ \A c \in SyncCompanies : 0 <= MaxIncoming[c]
  BY SyncBounds
<1>2. SyncTypeOK
  BY <1>1 DEF SyncInit, SyncTypeOK
<1>3. StoredInv
  <2>1. 0 \in 0..0 /\ 1..0 = {}
    OBVIOUS
  <2> QED
    BY <2>1 DEF SyncInit, StoredInv
<1>4. PagesInv
  BY DEF SyncInit, PagesInv
<1> QED
  BY <1>2, <1>3, <1>4 DEF SyncInv

(* One sync moves, while what is received and stored of each company only  *)
(* grows.                                                                  *)
LEMMA JobMoves ==
  ASSUME SyncInv, NEW j \in Jobs, NEW q \in Runnings \cup {Idle},
         job' = [job EXCEPT ![j] = q],
         q # Idle => q.cursor <= incoming[q.company] /\ Contiguous(q)',
         UNCHANGED <<incoming, enrolled, refused>>,
         inbox' \in [SyncCompanies -> SUBSET Nat],
         \A c \in SyncCompanies : inbox[c] \subseteq inbox'[c] /\ inbox'[c] \subseteq 1..incoming[c],
         sweep' \subseteq SyncCompanies, syncFaults' \in 0..MaxSyncFaults, StoredInv'
  PROVE  SyncInv'
<1>1. /\ job' \in [Jobs -> Runnings \cup {Idle}] /\ job'[j] = q
      /\ \A i \in Jobs \ {j} : job'[i] = job[i]
  BY DEF SyncInv, SyncTypeOK
<1>2. SyncTypeOK'
  BY <1>1 DEF SyncInv, SyncTypeOK
<1>3. ASSUME NEW i \in Jobs, job'[i] # Idle PROVE Contiguous(job[i])'
  <2>1. CASE i = j
    BY <1>1, <1>3, <2>1 DEF Contiguous
  <2>2. CASE i # j
    <3>1. Contiguous(job[i]) /\ job'[i] = job[i] /\ job[i] \in Runnings
      BY <1>1, <1>3, <2>2 DEF SyncInv, PagesInv, SyncTypeOK
    <3>2. job[i].company \in SyncCompanies
      BY <3>1 DEF Runnings
    <3> QED
      BY <3>1, <3>2 DEF Contiguous
  <2> QED
    BY <2>1, <2>2
<1>4. PagesInv'
  BY <1>3 DEF PagesInv
<1> QED
  BY <1>2, <1>4 DEF SyncInv

(* The steps that leave every inbox alone.                                 *)
LEMMA SettingsKeep ==
  ASSUME SyncInv, UNCHANGED <<inbox, job>>, incoming' \in [SyncCompanies -> Nat],
         \A c \in SyncCompanies : incoming[c] <= incoming'[c] /\ incoming'[c] <= MaxIncoming[c],
         enrolled' \subseteq SyncCompanies, refused' \subseteq enrolled',
         sweep' \subseteq SyncCompanies, syncFaults' \in 0..MaxSyncFaults
  PROVE  SyncInv'
<1>1. \A c \in SyncCompanies : incoming[c] \in Nat /\ incoming'[c] \in Nat
  BY DEF SyncInv, SyncTypeOK
<1>2. \A c \in SyncCompanies : inbox'[c] \subseteq 1..incoming'[c]
  BY <1>1 DEF SyncInv, SyncTypeOK
<1>3. ASSUME NEW j \in Jobs, job[j] # Idle PROVE job[j].cursor <= incoming'[job[j].company]
  <2>1. job[j] \in Runnings /\ job[j].cursor <= incoming[job[j].company]
    BY <1>3 DEF SyncInv, SyncTypeOK
  <2>2. job[j].company \in SyncCompanies /\ job[j].cursor \in Nat
    BY <2>1 DEF Runnings
  <2> QED
    BY <1>1, <2>1, <2>2
<1>4. SyncTypeOK'
  BY <1>2, <1>3 DEF SyncInv, SyncTypeOK
<1>5. StoredInv'
  <2>1. ASSUME NEW c \in SyncCompanies PROVE \E n \in 0..incoming'[c] : inbox'[c] = 1..n
    <3>1. PICK n \in 0..incoming[c] : inbox[c] = 1..n
      BY DEF SyncInv, StoredInv
    <3> QED
      BY <1>1, <3>1
  <2> QED
    BY <2>1 DEF StoredInv
<1>6. PagesInv'
  BY DEF SyncInv, PagesInv, Contiguous
<1> QED
  BY <1>4, <1>5, <1>6 DEF SyncInv

\* A sync that begins reads on from the number of what is stored.
LEMMA BeginKeeps ==
  ASSUME SyncInv, NEW j \in Jobs, NEW c \in SyncCompanies, Begin(j, c),
         UNCHANGED <<incoming, inbox, enrolled, refused, syncFaults>>, sweep' \subseteq SyncCompanies
  PROVE  SyncInv'
<1>1. PICK n \in 0..incoming[c] : inbox[c] = 1..n
  BY DEF SyncInv, StoredInv
<1>2. n \in Nat /\ n <= incoming[c] /\ HighestStored(c) = n
  <2>1. incoming[c] \in Nat
    BY DEF SyncInv, SyncTypeOK
  <2>2. n \in Nat /\ n <= incoming[c]
    BY <2>1
  <2> QED
    BY <1>1, <2>2, HighestIsTheNumber
<1>3. <<>> \in Seq(Nat) /\ Len(<<>>) = 0 /\ 0 \in 0..MaxSyncPages
  BY SyncBounds
<1>a. PICK ids \in Seq(Nat), more \in BOOLEAN, pages \in 0..MaxSyncPages :
        ids = <<>> /\ more = FALSE /\ pages = 0
  BY <1>3
<1>4. PICK q \in Runnings : q = Running(c, n, ids, more, pages)
  BY <1>2, <1>3, RunningFacts
<1>5. q # Idle /\ q.at = "list" /\ q.company = c /\ q.cursor = n /\ q.page = <<>>
  <2>1. /\ q # Idle /\ (q.at = "list" <=> q.page = <<>>)
        /\ q.company = c /\ q.cursor = n /\ q.page = ids
    BY <1>2, <1>4, RunningFacts
  <2> QED
    BY <1>a, <2>1
<1>6. Contiguous(q)'
  BY <1>1, <1>2, <1>3, <1>5 DEF Contiguous
<1>7. job' = [job EXCEPT ![j] = q]
  BY <1>2, <1>4, <1>a DEF Begin
<1> QED
  BY <1>2, <1>5, <1>6, <1>7, JobMoves DEF SyncInv, SyncTypeOK, StoredInv

\* A sync that ends, whatever of its page it has stored.
LEMMA FinishKeeps ==
  ASSUME SyncInv, NEW j \in Jobs, Finish(j),
         UNCHANGED <<incoming, inbox, enrolled, refused, sweep>>, syncFaults' \in 0..MaxSyncFaults
  PROVE  SyncInv'
<1>1. PICK q \in Runnings \cup {Idle} : q = Idle
  OBVIOUS
<1>2. job' = [job EXCEPT ![j] = q]
  BY <1>1 DEF Finish
<1> QED
  BY <1>1, <1>2, JobMoves DEF SyncInv, SyncTypeOK, StoredInv

(* The ids of the page that is listed are those after the cursor.          *)
LEMMA ListKeeps ==
  ASSUME SyncInv, NEW j \in Jobs, List(j)
  PROVE  SyncInv'
<1>1. job[j] \in Runnings /\ job[j] # Idle /\ job[j].at = "list"
  BY DEF List, SyncInv, SyncTypeOK, Idle
<1>2. PICK c \in SyncCompanies, from \in Nat, pages \in 0..MaxSyncPages :
        c = job[j].company /\ from = job[j].cursor /\ pages = job[j].pages
  BY <1>1 DEF Runnings
<1>3. incoming[c] \in Nat /\ from <= incoming[c]
  BY <1>1, <1>2 DEF SyncInv, SyncTypeOK
<1>4. 1..from \subseteq inbox[c]
  <2>1. Contiguous(job[j]) /\ job[j].page = <<>>
    BY <1>1 DEF SyncInv, PagesInv, Contiguous
  <2> QED
    BY <1>2, <2>1 DEF Contiguous
<1>5. PICK last \in Nat : last = Min({incoming[c], from + PageSize}) /\ last <= incoming[c]
  <2>1. \A a, b \in Nat : Min({a, b}) = IF a <= b THEN a ELSE b
    <3>1. ASSUME NEW a \in Nat, NEW b \in Nat, NEW m \in {a, b}, \A x \in {a, b} : m <= x
          PROVE  m = IF a <= b THEN a ELSE b
      BY <3>1
    <3>2. ASSUME NEW a \in Nat, NEW b \in Nat
          PROVE  \E m \in {a, b} : \A x \in {a, b} : m <= x
      <4>1. CASE a <= b
        BY <4>1
      <4>2. CASE b <= a
        BY <4>2
      <4> QED
        BY <4>1, <4>2
    <3> QED
      BY <3>1, <3>2 DEF Min
  <2>2. from + PageSize \in Nat
    BY SyncBounds
  <2> QED
    BY <1>3, <2>1, <2>2
<1>6. UNCHANGED <<incoming, inbox, enrolled, refused, sweep, syncFaults>>
  BY DEF List
<1> DEFINE page == [k \in 1..(last - from) |-> from + k]
<1>7. CASE Finish(j)
  BY <1>6, <1>7, FinishKeeps DEF SyncInv, SyncTypeOK
<1>8. CASE /\ page # <<>> /\ ~PagesSpent(j)
           /\ job' = [job EXCEPT ![j] = Running(c, last, page, last < incoming[c], pages + 1)]
  <2>1. last > from /\ page \in Seq(Nat) /\ Len(page) = last - from
        /\ \A k \in 1..Len(page) : page[k] = from + k
    BY <1>8, PageFacts
  <2>2. pages + 1 \in 0..MaxSyncPages
    <3>1. pages # MaxSyncPages
      BY <1>2, <1>8 DEF PagesSpent
    <3> QED
      BY <3>1, SyncBounds
  <2>3. PICK ids \in Seq(Nat) : ids = page
    BY <2>1
  <2>4. PICK more \in BOOLEAN : more = (last < incoming[c])
    <3> DEFINE m == last < incoming[c]
    <3>1. m \in BOOLEAN
      OBVIOUS
    <3> HIDE DEF m
    <3>2. \E more \in BOOLEAN : more = m
      BY <3>1
    <3> QED
      BY <3>2 DEF m
  <2> HIDE DEF page
  <2>5. PICK q \in Runnings :
          /\ q = Running(c, last, ids, more, pages + 1)
          /\ q # Idle /\ q.company = c /\ q.cursor = last /\ q.page = ids
          /\ q.at = "list" <=> q.page = <<>>
    BY <2>2, <2>3, RunningFacts
  <2>6. /\ q # Idle /\ q.company = c /\ q.cursor = last /\ q.page = ids
        /\ q.at = "list" <=> q.page = <<>>
    BY <2>5
  <2>7. Contiguous(q)'
    BY <1>4, <1>6, <2>1, <2>3, <2>6 DEF Contiguous
  <2>8. job' = [job EXCEPT ![j] = q]
    BY <1>8, <2>3, <2>4, <2>5
  <2> QED
    BY <1>5, <1>6, <2>6, <2>7, <2>8, JobMoves DEF SyncInv, SyncTypeOK, StoredInv
<1> QED
  BY <1>1, <1>2, <1>5, <1>7, <1>8, ZenonT(60) DEF List, SyncInv, SyncTypeOK

(* The row written is the one right after what is stored, or one that      *)
(* another sync has written in the meantime.                               *)
LEMMA UpsertKeeps ==
  ASSUME SyncInv, NEW j \in Jobs, Upsert(j)
  PROVE  SyncInv'
<1>1. job[j] \in Runnings /\ job[j] # Idle /\ job[j].at = "upsert"
  BY DEF Upsert, SyncInv, SyncTypeOK, Idle
<1>2. PICK c \in SyncCompanies, cursor \in Nat, page \in Seq(Nat), pages \in 0..MaxSyncPages,
           more \in BOOLEAN :
        /\ c = job[j].company /\ cursor = job[j].cursor /\ page = job[j].page
        /\ pages = job[j].pages /\ more = job[j].more
  BY <1>1 DEF Runnings
<1>3. /\ page # <<>> /\ Len(page) \in Nat \ {0} /\ Len(page) <= cursor
      /\ \A k \in 1..Len(page) : page[k] = cursor - Len(page) + k
      /\ 1..(cursor - Len(page)) \subseteq inbox[c]
      /\ cursor <= incoming[c] /\ incoming[c] \in Nat
  <2>1. Contiguous(job[j])
    BY <1>1 DEF SyncInv, PagesInv
  <2>2. page # <<>>
    BY <1>1, <1>2, <2>1 DEF Contiguous
  <2>3. Len(page) \in Nat \ {0}
    BY <2>2, EmptySeq
  <2>4. cursor <= incoming[c] /\ incoming[c] \in Nat
    BY <1>1, <1>2 DEF SyncInv, SyncTypeOK
  <2> QED
    BY <1>2, <2>1, <2>2, <2>3, <2>4 DEF Contiguous
<1>4. PICK id \in Nat : id = Head(page) /\ id = cursor - Len(page) + 1 /\ id <= cursor
  <2>1. Head(page) \in Nat
    BY <1>3, HeadTailProperties
  <2>2. 1 \in 1..Len(page) /\ Head(page) = page[1]
    BY <1>3
  <2>3. page[1] = cursor - Len(page) + 1
    BY <1>3, <2>2
  <2> QED
    BY <1>3, <2>1, <2>2, <2>3
<1>5. PICK left \in Seq(Nat) :
        /\ left = Tail(page) /\ Len(left) = Len(page) - 1
        /\ \A k \in 1..Len(left) : left[k] = page[k + 1]
  <2>1. /\ Tail(page) \in Seq(Nat) /\ Len(Tail(page)) = Len(page) - 1
        /\ \A k \in 1..Len(Tail(page)) : Tail(page)[k] = page[k + 1]
    BY <1>3, HeadTailProperties
  <2> QED
    BY <2>1
<1>6. PICK n \in 0..incoming[c] : inbox[c] = 1..n
  BY DEF SyncInv, StoredInv
<1>7. n \in Nat /\ id <= n + 1
  <2>1. CASE id = 1
    BY <1>3, <1>6, <2>1
  <2>2. CASE id # 1
    <3>1. id - 1 \in 1..(cursor - Len(page))
      BY <1>3, <1>4, <2>2
    <3> QED
      BY <1>3, <1>4, <1>6, <3>1, SMTT(20)
  <2> QED
    BY <2>1, <2>2
<1>8. /\ inbox' = [inbox EXCEPT ![c] = @ \cup {id}]
      /\ UNCHANGED <<incoming, enrolled, refused, sweep, syncFaults>>
  BY <1>2, <1>4 DEF Upsert
<1>9. /\ inbox' \in [SyncCompanies -> SUBSET Nat] /\ inbox'[c] = inbox[c] \cup {id}
      /\ \A d \in SyncCompanies \ {c} : inbox'[d] = inbox[d]
  BY <1>8 DEF SyncInv, SyncTypeOK
<1>10. \A d \in SyncCompanies : inbox[d] \subseteq inbox'[d] /\ inbox'[d] \subseteq 1..incoming[d]
  <2>1. id \in 1..incoming[c]
    BY <1>3, <1>4
  <2> QED
    BY <1>9, <2>1 DEF SyncInv, SyncTypeOK
<1>11. StoredInv'
  <2>1. \E m \in 0..incoming[c] : inbox'[c] = 1..m
    <3>1. CASE id <= n
      <4>1. inbox'[c] = 1..n
        BY <1>3, <1>4, <1>6, <1>9, <3>1
      <4> QED
        BY <1>6, <4>1
    <3>2. CASE id = n + 1
      <4>1. inbox'[c] = 1..id /\ id \in 0..incoming[c]
        BY <1>3, <1>4, <1>6, <1>7, <1>9, <3>2
      <4> QED
        BY <4>1
    <3> QED
      BY <1>7, <3>1, <3>2
  <2> QED
    BY <1>8, <1>9, <2>1 DEF SyncInv, StoredInv
<1>12. CASE Finish(j)
  <2>1. PICK q \in Runnings \cup {Idle} : q = Idle
    OBVIOUS
  <2>2. job' = [job EXCEPT ![j] = q]
    BY <1>12, <2>1 DEF Finish
  <2> QED
    BY <1>8, <1>9, <1>10, <1>11, <2>1, <2>2, JobMoves DEF SyncInv, SyncTypeOK
<1>13. CASE job' = [job EXCEPT ![j] = Running(c, cursor, left, more, pages)]
  <2>1. PICK q \in Runnings : q = Running(c, cursor, left, more, pages)
    BY RunningFacts
  <2>2. /\ q # Idle /\ q.company = c /\ q.cursor = cursor /\ q.page = left
        /\ q.at = "list" <=> q.page = <<>>
    BY <2>1, RunningFacts
  <2>3. Contiguous(q)'
    <3>1. Len(left) <= cursor /\ cursor - Len(left) = id
      BY <1>3, <1>4, <1>5
    <3>2. ASSUME NEW k \in 1..Len(left) PROVE left[k] = cursor - Len(left) + k
      <4>1. k + 1 \in 1..Len(page) /\ left[k] = page[k + 1]
        BY <1>3, <1>5
      <4> QED
        BY <1>3, <1>5, <4>1
    <3>3. 1..id \subseteq inbox'[c]
      BY <1>3, <1>4, <1>9
    <3> QED
      BY <2>2, <3>1, <3>2, <3>3 DEF Contiguous
  <2>4. job' = [job EXCEPT ![j] = q]
    BY <1>13, <2>1
  <2> QED
    BY <1>3, <1>8, <1>9, <1>10, <1>11, <2>2, <2>3, <2>4, JobMoves DEF SyncInv, SyncTypeOK
<1> QED
  BY <1>1, <1>2, <1>5, <1>12, <1>13 DEF Upsert, SyncInv, SyncTypeOK

LEMMA SyncStep ==
  ASSUME SyncInv, [SyncNext]_syncVars
  PROVE  SyncInv'
<1>0. /\ SyncTypeOK /\ \A c \in SyncCompanies : incoming[c] \in Nat /\ incoming[c] <= MaxIncoming[c]
      /\ \A c \in SyncCompanies : MaxIncoming[c] \in Nat
      /\ syncFaults \in 0..MaxSyncFaults
      /\ syncFaults < MaxSyncFaults => syncFaults + 1 \in 0..MaxSyncFaults
  BY SyncBounds DEF SyncInv, SyncTypeOK
<1>1. CASE UNCHANGED syncVars
  BY <1>0, <1>1, SettingsKeep DEF syncVars, SyncTypeOK
<1>2. ASSUME NEW c \in SyncCompanies, Receive(c) PROVE SyncInv'
  <2>1. incoming' \in [SyncCompanies -> Nat]
    BY <1>0, <1>2 DEF Receive, SyncTypeOK
  <2>2. \A d \in SyncCompanies : incoming[d] <= incoming'[d] /\ incoming'[d] <= MaxIncoming[d]
    <3>1. incoming[c] <= incoming[c] + 1 /\ incoming[c] + 1 <= MaxIncoming[c]
      BY <1>0, <1>2 DEF Receive
    <3>2. \A d \in SyncCompanies : incoming[d] <= incoming[d]
      BY <1>0
    <3> QED
      BY <1>0, <1>2, <3>1, <3>2 DEF Receive, SyncTypeOK
  <2>3. UNCHANGED <<inbox, enrolled, refused, job, sweep, syncFaults>>
    BY <1>2 DEF Receive
  <2> QED
    BY <1>0, <2>1, <2>2, <2>3, SettingsKeep DEF SyncTypeOK
<1>3. ASSUME NEW c \in SyncCompanies, Toggle(c) \/ LoseAccess(c) PROVE SyncInv'
  <2>1. UNCHANGED <<incoming, inbox, job, sweep>>
    BY <1>3 DEF Toggle, LoseAccess
  <2>2. /\ enrolled' \subseteq SyncCompanies /\ refused' \subseteq enrolled'
        /\ syncFaults' \in 0..MaxSyncFaults
    BY <1>0, <1>3 DEF Toggle, LoseAccess, SyncTypeOK
  <2>3. \A d \in SyncCompanies : incoming[d] <= incoming[d]
    BY <1>0
  <2> QED
    BY <1>0, <2>1, <2>2, <2>3, SettingsKeep DEF SyncTypeOK
<1>4. ASSUME NEW c \in SyncCompanies, Refresh(c) PROVE SyncInv'
  BY <1>0, <1>4, BeginKeeps DEF Refresh, Jobs, SyncTypeOK
<1>5. ASSUME NEW j \in Jobs, Abandon(j) PROVE SyncInv'
  <2>1. syncFaults' \in 0..MaxSyncFaults
    BY <1>0, <1>5 DEF Abandon, SyncFails
  <2> QED
    BY <1>5, <2>1, FinishKeeps DEF Abandon
<1>6. ASSUME NEW j \in Jobs, SyncMoves(j) PROVE SyncInv'
  BY <1>5, <1>6, ListKeeps, UpsertKeeps DEF SyncMoves, SweepSkips
<1>7. CASE StartSweep
  <2>1. sweep' \subseteq SyncCompanies /\ UNCHANGED <<incoming, inbox, enrolled, refused, job, syncFaults>>
    BY <1>0, <1>7 DEF StartSweep, SyncTypeOK
  <2>2. \A d \in SyncCompanies : incoming[d] <= incoming[d]
    BY <1>0
  <2> QED
    BY <1>0, <2>1, <2>2, SettingsKeep DEF SyncTypeOK
<1>8. CASE SweepNext
  BY <1>0, <1>8, BeginKeeps DEF SweepNext, Jobs, SyncTypeOK
<1>9. CASE SyncRestart
  <2>1. /\ UNCHANGED <<incoming, inbox, enrolled, refused>> /\ sweep' = {}
        /\ syncFaults' \in 0..MaxSyncFaults /\ \A j \in Jobs : job'[j] = Idle
        /\ job' \in [Jobs -> Runnings \cup {Idle}]
    BY <1>0, <1>9 DEF SyncRestart
  <2>2. SyncTypeOK' /\ StoredInv' /\ PagesInv'
    BY <1>0, <2>1 DEF SyncInv, SyncTypeOK, StoredInv, PagesInv
  <2> QED
    BY <2>2 DEF SyncInv
<1> QED
  BY <1>1, <1>2, <1>3, <1>4, <1>6, <1>7, <1>8, <1>9 DEF SyncNext

LEMMA SyncAlways == SyncSpec => []SyncInv
BY SyncStarts, SyncStep, PTL DEF SyncSpec

(* The inboxes, the syncs and the sweep have the values the code gives     *)
(* them (ReceivedInvoiceService.sync).                                     *)
THEOREM SyncTypes == SyncSpec => []SyncTypeOK
<1>1. SyncInv => SyncTypeOK
  BY DEF SyncInv
<1> QED
  BY <1>1, SyncAlways, PTL

(* However many syncs of however many companies overlap, fail or are cut   *)
(* by a restart, no invoice is skipped below the highest id stored, the    *)
(* only cursor there is (findMaxSuperPdpInvoiceId, upsertMany).            *)
THEOREM NoInvoiceSkipped == SyncSpec => []InboxHasNoGap
<1>1. SyncInv => InboxHasNoGap
  BY NoGap DEF SyncInv
<1> QED
  BY <1>1, SyncAlways, PTL

-------------------------------------------------------------------------------
(* The parts side by side                                                  *)

(* Whichever job moves, each behaves as it does alone, the fairness of the *)
(* run included: a run of MCEInvoiceSweeps explores every job as its own   *)
(* specification allows.                                                   *)
THEOREM SweepsParts == SweepsSpec => Spec /\ SyncSpec /\ PushSpec
<1>1. SweepsInit => Init /\ SyncInit /\ PushInit
  BY DEF SweepsInit
<1>2. [SweepsNext]_<<focus, vars, syncVars, pushVars>> =>
        [Next]_vars /\ [SyncNext]_syncVars /\ [PushNext]_pushVars
  BY DEF SweepsNext
<1> QED
  BY <1>1, <1>2, PTL DEF SweepsSpec, Spec, SyncSpec, PushSpec

(* The types of the job that moves, for every job.                         *)
THEOREM SweepsTypes == SweepsSpec => []SweepsTypeOK
<1>1. SweepsInit => focus \in {"transmit", "inbox", "nudge"}
  BY DEF SweepsInit
<1>2. /\ focus \in {"transmit", "inbox", "nudge"}
      /\ [SweepsNext]_<<focus, vars, syncVars, pushVars>>
      => (focus \in {"transmit", "inbox", "nudge"})'
  BY DEF SweepsNext
<1>3. focus \in {"transmit", "inbox", "nudge"} /\ TypeOK /\ SyncTypeOK /\ PushTypeOK => SweepsTypeOK
  BY DEF SweepsTypeOK
<1> QED
  BY <1>1, <1>2, <1>3, SweepsParts, TypeCorrect, SyncTypes, NudgeTypes, PTL DEF SweepsSpec

===============================================================================
