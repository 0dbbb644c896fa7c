-------------------------- MODULE SuperPdpConnectionProofs --------------------------
(* Theorems about SuperPdpConnection, for every set of requests and sweeps  *)
(* and every number of token pairs; and about AutoTransmitQueue, the        *)
(* abstract promise of what goes out over that connection.                  *)
EXTENDS AutoTransmitQueue, SuperPdpConnection, TLAPS

-------------------------------------------------------------------------------
(* AutoTransmitQueue                                                       *)

QueueIInv == QueueTypeOK /\ AttemptedAtMostOnce

(* No queue that behaves as specified attempts an invoice twice, or one    *)
(* that a cancellation took out of it.                                     *)
THEOREM AttemptedOnce == QueueSpec => []AttemptedAtMostOnce
<1>1. QueueInit => QueueIInv
  BY DEF QueueInit, QueueIInv, QueueTypeOK, AttemptedAtMostOnce, Phases
<1>2. QueueIInv /\ [QueueNext]_queueVars => QueueIInv'
  <2> SUFFICES ASSUME QueueIInv, [QueueNext]_queueVars PROVE QueueIInv'
    OBVIOUS
  <2> USE DEF QueueIInv, QueueTypeOK, AttemptedAtMostOnce, Phases
  <2>1. ASSUME NEW i \in Invoices, Create(i) PROVE QueueIInv'
    BY <2>1 DEF Create
  <2>2. ASSUME NEW i \in Invoices, Claim(i) PROVE QueueIInv'
    BY <2>2 DEF Claim
  <2>3. ASSUME NEW i \in Invoices, Cancel(i) PROVE QueueIInv'
    BY <2>3 DEF Cancel
  <2>4. CASE UNCHANGED queueVars
    BY <2>4 DEF queueVars
  <2> QED
    BY <2>1, <2>2, <2>3, <2>4 DEF QueueNext
<1>3. QueueIInv => AttemptedAtMostOnce
  BY DEF QueueIInv
<1> QED
  BY <1>1, <1>2, <1>3, PTL DEF QueueSpec

-------------------------------------------------------------------------------
(* SuperPdpConnection                                                      *)

Refreshing(c)   == step[c] \in {"refresh", "persist"}
Provisioning(c) == step[c] \in {"status", "vat", "directory", "mark"}

(* What is stored, read, spent or severed was granted, and every pair      *)
(* keeps the consent it descends from.                                     *)
GrantInv ==
  /\ stored # NoPair => origin[stored] # NoPair
  /\ \A p \in spent : origin[p] # NoPair
  /\ \A p \in severed : origin[p] # NoPair
  /\ \A p \in Pairs : origin[p] # NoPair => origin[origin[p]] # NoPair
  /\ \A c \in Callers : seen[c] # NoPair => origin[seen[c]] # NoPair

(* A consent whose callback is pending has granted one pair, used nowhere. *)
CallbackInv ==
  callback # NoPair =>
    /\ origin[callback] = callback
    /\ \A p \in Pairs : origin[p] = callback => p = callback
    /\ callback # stored
    /\ callback \notin spent /\ callback \notin severed
    /\ \A c \in Callers : seen[c] # callback

(* A refresh works on a pair of the row, and gets an unused pair of the    *)
(* same consent; a sweep past its token holds a granted pair.              *)
CallerInv ==
  \A c \in Callers :
    /\ Refreshing(c) => seen[c] # NoPair
    /\ step[c] = "persist" =>
         /\ token[c] \in Pairs
         /\ origin[token[c]] = origin[seen[c]]
         /\ token[c] \notin spent
    /\ Provisioning(c) => token[c] \in Pairs /\ origin[token[c]] \in Pairs

(* The map holds running refreshes only.                                   *)
FlightInv == inFlight # NoCaller => Refreshing(inFlight)

IInv ==
  /\ TypeOK
  /\ GrantInv
  /\ CallbackInv
  /\ CallerInv
  /\ FlightInv
  /\ SeveredStaysSevered
  /\ ConnectionSurvives
  /\ OneRefreshAtATime

-------------------------------------------------------------------------------
(* One lemma per conjunct, one step per action that can disturb it.        *)

(* Every action keeps the types.                                           *)
LEMMA TypeStep == ASSUME IInv, [Next]_vars PROVE TypeOK'
<1> USE CallersAssumption, NamesAssumption DEF IInv, Callers, companyVars, callerVars,
      platformVars, historyVars, CallerOnly
<1>1. CASE ExchangeAuthorizationCode
  BY <1>1 DEF ExchangeAuthorizationCode, TypeOK
<1>2. CASE SaveSuperPdpTokens
  BY <1>2 DEF SaveSuperPdpTokens, TypeOK
<1>3. CASE ClearSuperPdpTokens
  <2>1. \A p \in {stored} \ {NoPair} : origin[p] \in Pairs
    BY DEF GrantInv, TypeOK
  <2>2. severed' \subseteq Pairs
    BY <1>3, <2>1 DEF ClearSuperPdpTokens, TypeOK
  <2> QED
    BY <1>3, <2>2 DEF ClearSuperPdpTokens, TypeOK
<1>4. CASE UpdateSiret
  BY <1>4 DEF UpdateSiret, TypeOK
<1>5. ASSUME NEW c \in Requests, Request(c) PROVE TypeOK'
  BY <1>5 DEF Request, Steps, TypeOK
<1>6. ASSUME NEW c \in Callers, FindSuperPdpTokens(c) PROVE TypeOK'
  BY <1>6 DEF FindSuperPdpTokens, Steps, TypeOK
<1>7. ASSUME NEW c \in Callers, UseStoredToken(c) PROVE TypeOK'
  BY <1>7 DEF UseStoredToken, AfterToken, KeptToken, Steps, TypeOK
<1>8. ASSUME NEW c \in Callers, JoinRefresh(c) PROVE TypeOK'
  BY <1>8 DEF JoinRefresh, Steps, TypeOK
<1>9. ASSUME NEW c \in Callers, StartRefresh(c) PROVE TypeOK'
  BY <1>9 DEF StartRefresh, Steps, TypeOK
<1>10. ASSUME NEW c \in Callers, RefreshAccessToken(c) PROVE TypeOK'
  <2>1. seen[c] \in Pairs /\ origin[seen[c]] \in Pairs \cup {NoPair}
    BY <1>10 DEF RefreshAccessToken, CallerInv, Refreshing, TypeOK
  <2>2. PICK p \in Pairs :
          /\ origin' = [origin EXCEPT ![p] = origin[seen[c]]]
          /\ \/ /\ token' = [token EXCEPT ![c] = p]
                /\ step' = [step EXCEPT ![c] = "persist"]
                /\ UNCHANGED <<inFlight, seen, siretRead, lost>>
             \/ Settle(c, NoPair) /\ lost' = TRUE
    BY <1>10 DEF RefreshAccessToken
  <2>3. origin' \in [Pairs -> Pairs \cup {NoPair}] /\ spent' \subseteq Pairs
    BY <1>10, <2>1, <2>2 DEF RefreshAccessToken, TypeOK
  <2>4. CASE /\ token' = [token EXCEPT ![c] = p]
             /\ step' = [step EXCEPT ![c] = "persist"]
             /\ UNCHANGED <<inFlight, seen, siretRead, lost>>
    BY <1>10, <2>3, <2>4 DEF RefreshAccessToken, Steps, TypeOK
  <2>5. CASE Settle(c, NoPair) /\ lost' = TRUE
    BY <1>10, <2>3, <2>5 DEF RefreshAccessToken, Settle, Answered, AfterToken,
       KeptToken, Steps, TypeOK
  <2> QED
    BY <2>2, <2>4, <2>5
<1>11. ASSUME NEW c \in Callers, RefreshRefused(c) PROVE TypeOK'
  BY <1>11 DEF RefreshRefused, Settle, Answered, AfterToken, KeptToken, Steps,
     TypeOK
<1>12. ASSUME NEW c \in Callers, RefreshSuperPdpTokens(c) PROVE TypeOK'
  BY <1>12 DEF RefreshSuperPdpTokens, Settle, Answered, AfterToken, KeptToken,
     Steps, TypeOK, CallerInv, Refreshing
<1>13. ASSUME NEW c \in Callers, PersistFails(c) PROVE TypeOK'
  BY <1>13 DEF PersistFails, Settle, Answered, AfterToken, KeptToken, Steps,
     TypeOK
<1>14. ASSUME NEW w \in Sweeps, FindPending(w) PROVE TypeOK'
  BY <1>14 DEF FindPending, Steps, TypeOK
<1>15. ASSUME NEW w \in Sweeps, GetSessionStatus(w) PROVE TypeOK'
  BY <1>15 DEF GetSessionStatus, Call, Steps, TypeOK
<1>16. ASSUME NEW w \in Sweeps, UpdateVatRegime(w) PROVE TypeOK'
  BY <1>16 DEF UpdateVatRegime, Call, Steps, TypeOK
<1>17. ASSUME NEW w \in Sweeps, EnsureDirectoryEntry(w) PROVE TypeOK'
  BY <1>17 DEF EnsureDirectoryEntry, Call, Steps, TypeOK, CallerInv,
     Provisioning
<1>18. ASSUME NEW w \in Sweeps, MarkSuperPdpDirectoryRegistered(w) PROVE TypeOK'
  BY <1>18 DEF MarkSuperPdpDirectoryRegistered, Call, Steps, TypeOK,
     CallerInv, Provisioning
<1>19. ASSUME NEW w \in Sweeps, GiveUp(w) PROVE TypeOK'
  BY <1>19 DEF GiveUp, Call, Steps, TypeOK
<1>20. ASSUME NEW p \in Pairs, AccessTokenAges(p) PROVE TypeOK'
  BY <1>20 DEF AccessTokenAges, TypeOK
<1>21. CASE Crash
  BY <1>21 DEF Crash, Steps, TypeOK
<1>22. CASE UNCHANGED vars
  BY <1>22 DEF vars, TypeOK
<1> QED
  BY <1>1, <1>2, <1>3, <1>4, <1>5, <1>6, <1>7, <1>8, <1>9, <1>10, <1>11,
     <1>12, <1>13, <1>14, <1>15, <1>16, <1>17, <1>18, <1>19, <1>20, <1>21,
     <1>22 DEF Next, GetValidAccessToken, ProvisionCompany

(* No action stores, reads, spends or severs a pair that was not granted.  *)
LEMMA GrantStep == ASSUME IInv, [Next]_vars PROVE GrantInv'
<1> USE CallersAssumption, NamesAssumption DEF IInv, Callers, companyVars, callerVars,
      platformVars, historyVars, CallerOnly
<1>1. CASE ExchangeAuthorizationCode
  BY <1>1 DEF ExchangeAuthorizationCode, GrantInv
<1>2. CASE SaveSuperPdpTokens
  BY <1>2 DEF SaveSuperPdpTokens, GrantInv, CallerInv, Refreshing, TypeOK,
     CallbackInv
<1>3. CASE ClearSuperPdpTokens
  BY <1>3 DEF ClearSuperPdpTokens, GrantInv, TypeOK
<1>4. ASSUME NEW c \in Callers, FindSuperPdpTokens(c) PROVE GrantInv'
  BY <1>4 DEF FindSuperPdpTokens, GrantInv
<1>5. ASSUME NEW c \in Callers, UseStoredToken(c) PROVE GrantInv'
  BY <1>5 DEF UseStoredToken, GrantInv, TypeOK
<1>6. ASSUME NEW c \in Callers, RefreshAccessToken(c) PROVE GrantInv'
  BY <1>6 DEF RefreshAccessToken, Settle, Answered, AfterToken, KeptToken,
     GrantInv, CallerInv, Refreshing, TypeOK
<1>7. ASSUME NEW c \in Callers, RefreshRefused(c) PROVE GrantInv'
  BY <1>7 DEF RefreshRefused, Settle, Answered, AfterToken, KeptToken,
     GrantInv, CallerInv, Refreshing, TypeOK
<1>8. ASSUME NEW c \in Callers, RefreshSuperPdpTokens(c) PROVE GrantInv'
  BY <1>8 DEF RefreshSuperPdpTokens, Settle, Answered, AfterToken, KeptToken,
     GrantInv, CallerInv, Refreshing, TypeOK
<1>9. ASSUME NEW c \in Callers, PersistFails(c) PROVE GrantInv'
  BY <1>9 DEF PersistFails, Settle, Answered, AfterToken, KeptToken, GrantInv,
     CallerInv, Refreshing, TypeOK
<1>10. CASE Crash
  BY <1>10 DEF Crash, GrantInv
<1>11. CASE UNCHANGED <<stored, spent, severed, origin, seen>>
  BY <1>11 DEF GrantInv
<1> QED
  BY <1>1, <1>2, <1>3, <1>4, <1>5, <1>6, <1>7, <1>8, <1>9, <1>10, <1>11 DEF
     Next, GetValidAccessToken, ProvisionCompany, vars, UpdateSiret, Request,
     JoinRefresh, StartRefresh, FindPending, GetSessionStatus,
     UpdateVatRegime, EnsureDirectoryEntry, MarkSuperPdpDirectoryRegistered,
     GiveUp, AccessTokenAges, Call

(* A pending callback holds a pair that nothing else has seen.             *)
LEMMA CallbackStep == ASSUME IInv, [Next]_vars PROVE CallbackInv'
<1> USE CallersAssumption, NamesAssumption DEF IInv, Callers, companyVars, callerVars,
      platformVars, historyVars, CallerOnly
<1>1. CASE ExchangeAuthorizationCode
  BY <1>1 DEF ExchangeAuthorizationCode, CallbackInv, GrantInv, TypeOK
<1>2. CASE SaveSuperPdpTokens
  BY <1>2 DEF SaveSuperPdpTokens, CallbackInv
<1>3. CASE ClearSuperPdpTokens
  BY <1>3 DEF ClearSuperPdpTokens, CallbackInv, TypeOK
<1>4. ASSUME NEW c \in Callers, FindSuperPdpTokens(c) PROVE CallbackInv'
  BY <1>4 DEF FindSuperPdpTokens, CallbackInv
<1>5. ASSUME NEW c \in Callers, UseStoredToken(c) PROVE CallbackInv'
  BY <1>5 DEF UseStoredToken, CallbackInv
<1>6. ASSUME NEW c \in Callers, RefreshAccessToken(c) PROVE CallbackInv'
  BY <1>6 DEF RefreshAccessToken, Settle, Answered, AfterToken, KeptToken,
     CallbackInv, GrantInv, TypeOK, CallerInv, Refreshing
<1>7. ASSUME NEW c \in Callers, RefreshRefused(c) PROVE CallbackInv'
  BY <1>7 DEF RefreshRefused, Settle, Answered, AfterToken, KeptToken,
     CallbackInv, GrantInv, TypeOK
<1>8. ASSUME NEW c \in Callers, RefreshSuperPdpTokens(c) PROVE CallbackInv'
  BY <1>8 DEF RefreshSuperPdpTokens, Settle, Answered, AfterToken, KeptToken,
     CallbackInv, GrantInv, TypeOK, CallerInv, Refreshing
<1>9. ASSUME NEW c \in Callers, PersistFails(c) PROVE CallbackInv'
  BY <1>9 DEF PersistFails, Settle, Answered, AfterToken, KeptToken,
     CallbackInv, GrantInv, TypeOK
<1>10. CASE Crash
  BY <1>10 DEF Crash, CallbackInv
<1>11. CASE UNCHANGED <<callback, stored, spent, severed, origin, seen>>
  BY <1>11 DEF CallbackInv
<1> QED
  BY <1>1, <1>2, <1>3, <1>4, <1>5, <1>6, <1>7, <1>8, <1>9, <1>10, <1>11 DEF
     Next, GetValidAccessToken, ProvisionCompany, vars, UpdateSiret, Request,
     JoinRefresh, StartRefresh, FindPending, GetSessionStatus,
     UpdateVatRegime, EnsureDirectoryEntry, MarkSuperPdpDirectoryRegistered,
     GiveUp, AccessTokenAges, Call

(* What a caller holds stays good while others refresh or disconnect.      *)
LEMMA CallerStep == ASSUME IInv, [Next]_vars PROVE CallerInv'
<1> USE CallersAssumption, NamesAssumption DEF IInv, Callers, companyVars, callerVars,
      platformVars, historyVars, CallerOnly
<1>1. CASE ExchangeAuthorizationCode
  BY <1>1 DEF ExchangeAuthorizationCode, CallerInv, CallbackInv, GrantInv,
     Refreshing, Provisioning, TypeOK, OneRefreshAtATime
<1>2. ASSUME NEW c \in Requests, Request(c) PROVE CallerInv'
  BY <1>2 DEF Request, CallerInv, CallbackInv, GrantInv, Refreshing,
     Provisioning, TypeOK, OneRefreshAtATime
<1>3. ASSUME NEW c \in Callers, FindSuperPdpTokens(c) PROVE CallerInv'
  BY <1>3 DEF FindSuperPdpTokens, CallerInv, CallbackInv, GrantInv,
     Refreshing, Provisioning, TypeOK, OneRefreshAtATime
<1>4. ASSUME NEW c \in Callers, UseStoredToken(c) PROVE CallerInv'
  BY <1>4 DEF UseStoredToken, AfterToken, KeptToken, CallerInv, CallbackInv,
     GrantInv, Refreshing, Provisioning, TypeOK, OneRefreshAtATime
<1>5. ASSUME NEW c \in Callers, JoinRefresh(c) PROVE CallerInv'
  BY <1>5 DEF JoinRefresh, CallerInv, CallbackInv, GrantInv, Refreshing,
     Provisioning, TypeOK, OneRefreshAtATime
<1>6. ASSUME NEW c \in Callers, StartRefresh(c) PROVE CallerInv'
  BY <1>6 DEF StartRefresh, CallerInv, CallbackInv, GrantInv, Refreshing,
     Provisioning, TypeOK, OneRefreshAtATime
<1>7. ASSUME NEW c \in Callers, RefreshAccessToken(c) PROVE CallerInv'
  BY <1>7 DEF RefreshAccessToken, Settle, Answered, AfterToken, KeptToken,
     CallerInv, CallbackInv, GrantInv, Refreshing, Provisioning, TypeOK,
     OneRefreshAtATime
<1>8. ASSUME NEW c \in Callers, RefreshRefused(c) PROVE CallerInv'
  BY <1>8 DEF RefreshRefused, Settle, Answered, AfterToken, KeptToken,
     CallerInv, CallbackInv, GrantInv, Refreshing, Provisioning, TypeOK,
     OneRefreshAtATime
<1>9. ASSUME NEW c \in Callers, RefreshSuperPdpTokens(c) PROVE CallerInv'
  BY <1>9 DEF RefreshSuperPdpTokens, Settle, Answered, AfterToken, KeptToken,
     CallerInv, CallbackInv, GrantInv, Refreshing, Provisioning, TypeOK,
     OneRefreshAtATime
<1>10. ASSUME NEW c \in Callers, PersistFails(c) PROVE CallerInv'
  BY <1>10 DEF PersistFails, Settle, Answered, AfterToken, KeptToken,
     CallerInv, CallbackInv, GrantInv, Refreshing, Provisioning, TypeOK,
     OneRefreshAtATime
<1>11. ASSUME NEW w \in Sweeps, FindPending(w) PROVE CallerInv'
  BY <1>11 DEF FindPending, CallerInv, CallbackInv, GrantInv, Refreshing,
     Provisioning, TypeOK, OneRefreshAtATime
<1>12. ASSUME NEW w \in Sweeps, GetSessionStatus(w) PROVE CallerInv'
  BY <1>12 DEF GetSessionStatus, Call, CallerInv, CallbackInv, GrantInv,
     Refreshing, Provisioning, TypeOK, OneRefreshAtATime
<1>13. ASSUME NEW w \in Sweeps, UpdateVatRegime(w) PROVE CallerInv'
  BY <1>13 DEF UpdateVatRegime, Call, CallerInv, CallbackInv, GrantInv,
     Refreshing, Provisioning, TypeOK, OneRefreshAtATime
<1>14. ASSUME NEW w \in Sweeps, EnsureDirectoryEntry(w) PROVE CallerInv'
  BY <1>14 DEF EnsureDirectoryEntry, Call, CallerInv, CallbackInv, GrantInv,
     Refreshing, Provisioning, TypeOK, OneRefreshAtATime
<1>15. ASSUME NEW w \in Sweeps, MarkSuperPdpDirectoryRegistered(w) PROVE CallerInv'
  BY <1>15 DEF MarkSuperPdpDirectoryRegistered, Call, CallerInv, CallbackInv,
     GrantInv, Refreshing, Provisioning, TypeOK, OneRefreshAtATime
<1>16. ASSUME NEW w \in Sweeps, GiveUp(w) PROVE CallerInv'
  BY <1>16 DEF GiveUp, Call, CallerInv, CallbackInv, GrantInv, Refreshing,
     Provisioning, TypeOK, OneRefreshAtATime
<1>17. CASE Crash
  BY <1>17 DEF Crash, CallerInv, CallbackInv, GrantInv, Refreshing,
     Provisioning, TypeOK, OneRefreshAtATime
<1>18. CASE UNCHANGED <<step, seen, token, origin, spent>>
  BY <1>18 DEF CallerInv, Refreshing, Provisioning
<1> QED
  BY <1>1, <1>2, <1>3, <1>4, <1>5, <1>6, <1>7, <1>8, <1>9, <1>10, <1>11,
     <1>12, <1>13, <1>14, <1>15, <1>16, <1>17, <1>18 DEF Next,
     GetValidAccessToken, ProvisionCompany, vars, SaveSuperPdpTokens,
     ClearSuperPdpTokens, UpdateSiret, AccessTokenAges

(* A refresh that ends leaves the map.                                     *)
LEMMA FlightStep == ASSUME IInv, [Next]_vars PROVE FlightInv'
<1> USE CallersAssumption, NamesAssumption DEF IInv, Callers, companyVars, callerVars,
      platformVars, historyVars, CallerOnly
<1>1. ASSUME NEW c \in Requests, Request(c) PROVE FlightInv'
  BY <1>1 DEF Request, FlightInv, Refreshing
<1>2. ASSUME NEW c \in Callers, FindSuperPdpTokens(c) PROVE FlightInv'
  BY <1>2 DEF FindSuperPdpTokens, FlightInv, Refreshing
<1>3. ASSUME NEW c \in Callers, UseStoredToken(c) PROVE FlightInv'
  BY <1>3 DEF UseStoredToken, FlightInv, Refreshing, OneRefreshAtATime
<1>4. ASSUME NEW c \in Callers, JoinRefresh(c) PROVE FlightInv'
  BY <1>4 DEF JoinRefresh, FlightInv, Refreshing
<1>5. ASSUME NEW c \in Callers, StartRefresh(c) PROVE FlightInv'
  BY <1>5 DEF StartRefresh, FlightInv, Refreshing, TypeOK
<1>6. ASSUME NEW c \in Callers, RefreshAccessToken(c) PROVE FlightInv'
  BY <1>6 DEF RefreshAccessToken, Settle, Answered, AfterToken, KeptToken,
     FlightInv, Refreshing, TypeOK, OneRefreshAtATime
<1>7. ASSUME NEW c \in Callers, RefreshRefused(c) PROVE FlightInv'
  BY <1>7 DEF RefreshRefused, Settle, Answered, AfterToken, KeptToken,
     FlightInv, Refreshing, TypeOK, OneRefreshAtATime
<1>8. ASSUME NEW c \in Callers, RefreshSuperPdpTokens(c) PROVE FlightInv'
  BY <1>8 DEF RefreshSuperPdpTokens, Settle, Answered, AfterToken, KeptToken,
     FlightInv, Refreshing, TypeOK, OneRefreshAtATime
<1>9. ASSUME NEW c \in Callers, PersistFails(c) PROVE FlightInv'
  BY <1>9 DEF PersistFails, Settle, Answered, AfterToken, KeptToken,
     FlightInv, Refreshing, TypeOK, OneRefreshAtATime
<1>10. ASSUME NEW w \in Sweeps, FindPending(w) PROVE FlightInv'
  BY <1>10 DEF FindPending, FlightInv, Refreshing
<1>11. ASSUME NEW w \in Sweeps, GetSessionStatus(w) PROVE FlightInv'
  BY <1>11 DEF GetSessionStatus, Call, FlightInv, Refreshing
<1>12. ASSUME NEW w \in Sweeps, UpdateVatRegime(w) PROVE FlightInv'
  BY <1>12 DEF UpdateVatRegime, Call, FlightInv, Refreshing
<1>13. ASSUME NEW w \in Sweeps, EnsureDirectoryEntry(w) PROVE FlightInv'
  BY <1>13 DEF EnsureDirectoryEntry, Call, FlightInv, Refreshing
<1>14. ASSUME NEW w \in Sweeps, MarkSuperPdpDirectoryRegistered(w) PROVE FlightInv'
  BY <1>14 DEF MarkSuperPdpDirectoryRegistered, Call, FlightInv, Refreshing
<1>15. ASSUME NEW w \in Sweeps, GiveUp(w) PROVE FlightInv'
  BY <1>15 DEF GiveUp, Call, FlightInv, Refreshing
<1>16. CASE Crash
  BY <1>16 DEF Crash, FlightInv
<1>17. CASE UNCHANGED <<inFlight, step>>
  BY <1>17 DEF FlightInv, Refreshing
<1> QED
  BY <1>1, <1>2, <1>3, <1>4, <1>5, <1>6, <1>7, <1>8, <1>9, <1>10, <1>11,
     <1>12, <1>13, <1>14, <1>15, <1>16, <1>17 DEF Next, GetValidAccessToken,
     ProvisionCompany, vars, ExchangeAuthorizationCode, SaveSuperPdpTokens,
     ClearSuperPdpTokens, UpdateSiret, AccessTokenAges

(* No action brings the tokens of a severed consent back.                  *)
LEMMA SeveredStep == ASSUME IInv, [Next]_vars PROVE SeveredStaysSevered'
<1> USE CallersAssumption, NamesAssumption DEF IInv, Callers, companyVars, callerVars,
      platformVars, historyVars, CallerOnly
<1>1. CASE ExchangeAuthorizationCode
  BY <1>1 DEF ExchangeAuthorizationCode, SeveredStaysSevered, GrantInv, TypeOK
<1>2. CASE SaveSuperPdpTokens
  BY <1>2 DEF SaveSuperPdpTokens, SeveredStaysSevered, CallbackInv, TypeOK
<1>3. CASE ClearSuperPdpTokens
  BY <1>3 DEF ClearSuperPdpTokens, SeveredStaysSevered, TypeOK
<1>4. ASSUME NEW c \in Callers, RefreshAccessToken(c) PROVE SeveredStaysSevered'
  BY <1>4 DEF RefreshAccessToken, Settle, Answered, AfterToken, KeptToken,
     SeveredStaysSevered, CallerInv, GrantInv, CallbackInv, Refreshing, TypeOK
<1>5. ASSUME NEW c \in Callers, RefreshSuperPdpTokens(c) PROVE SeveredStaysSevered'
  BY <1>5 DEF RefreshSuperPdpTokens, Settle, Answered, AfterToken, KeptToken,
     SeveredStaysSevered, CallerInv, GrantInv, CallbackInv, Refreshing, TypeOK
<1>6. CASE UNCHANGED <<stored, connectedAt, origin, severed>>
  BY <1>6 DEF SeveredStaysSevered
<1> QED
  BY <1>1, <1>2, <1>3, <1>4, <1>5, <1>6 DEF Next, GetValidAccessToken,
     ProvisionCompany, vars, UpdateSiret, Request, FindSuperPdpTokens,
     UseStoredToken, JoinRefresh, StartRefresh, RefreshRefused, PersistFails,
     FindPending, GetSessionStatus, UpdateVatRegime, EnsureDirectoryEntry,
     MarkSuperPdpDirectoryRegistered, GiveUp, AccessTokenAges, Crash

(* No action spends the stored refresh token without a successor.          *)
LEMMA SurvivalStep == ASSUME IInv, [Next]_vars PROVE ConnectionSurvives'
<1> USE CallersAssumption, NamesAssumption DEF IInv, Callers, companyVars, callerVars,
      platformVars, historyVars, CallerOnly
<1>1. CASE SaveSuperPdpTokens
  BY <1>1 DEF SaveSuperPdpTokens, ConnectionSurvives, CallbackInv, TypeOK,
     OneRefreshAtATime
<1>2. CASE ClearSuperPdpTokens
  BY <1>2 DEF ClearSuperPdpTokens, ConnectionSurvives, TypeOK,
     OneRefreshAtATime
<1>3. ASSUME NEW c \in Requests, Request(c) PROVE ConnectionSurvives'
  BY <1>3 DEF Request, ConnectionSurvives, TypeOK, OneRefreshAtATime
<1>4. ASSUME NEW c \in Callers, FindSuperPdpTokens(c) PROVE ConnectionSurvives'
  BY <1>4 DEF FindSuperPdpTokens, ConnectionSurvives, TypeOK,
     OneRefreshAtATime
<1>5. ASSUME NEW c \in Callers, UseStoredToken(c) PROVE ConnectionSurvives'
  BY <1>5 DEF UseStoredToken, ConnectionSurvives, GrantInv, Refreshing,
     TypeOK, OneRefreshAtATime
<1>6. ASSUME NEW c \in Callers, JoinRefresh(c) PROVE ConnectionSurvives'
  BY <1>6 DEF JoinRefresh, ConnectionSurvives, TypeOK, OneRefreshAtATime
<1>7. ASSUME NEW c \in Callers, StartRefresh(c) PROVE ConnectionSurvives'
  BY <1>7 DEF StartRefresh, ConnectionSurvives, TypeOK, OneRefreshAtATime
<1>8. ASSUME NEW c \in Callers, RefreshAccessToken(c) PROVE ConnectionSurvives'
  BY <1>8 DEF RefreshAccessToken, Settle, Answered, AfterToken, KeptToken,
     ConnectionSurvives, CallerInv, CallbackInv, GrantInv, Refreshing, TypeOK,
     OneRefreshAtATime
<1>9. ASSUME NEW c \in Callers, RefreshRefused(c) PROVE ConnectionSurvives'
  BY <1>9 DEF RefreshRefused, Settle, Answered, AfterToken, KeptToken,
     ConnectionSurvives, CallerInv, CallbackInv, GrantInv, Refreshing, TypeOK,
     OneRefreshAtATime
<1>10. ASSUME NEW c \in Callers, RefreshSuperPdpTokens(c) PROVE ConnectionSurvives'
  BY <1>10 DEF RefreshSuperPdpTokens, Settle, Answered, AfterToken, KeptToken,
     ConnectionSurvives, CallerInv, CallbackInv, GrantInv, Refreshing, TypeOK,
     OneRefreshAtATime
<1>11. ASSUME NEW c \in Callers, PersistFails(c) PROVE ConnectionSurvives'
  BY <1>11 DEF PersistFails, Settle, Answered, AfterToken, KeptToken,
     ConnectionSurvives, CallerInv, CallbackInv, GrantInv, Refreshing, TypeOK,
     OneRefreshAtATime
<1>12. ASSUME NEW w \in Sweeps, FindPending(w) PROVE ConnectionSurvives'
  BY <1>12 DEF FindPending, ConnectionSurvives, TypeOK, OneRefreshAtATime
<1>13. ASSUME NEW w \in Sweeps, GetSessionStatus(w) PROVE ConnectionSurvives'
  BY <1>13 DEF GetSessionStatus, Call, ConnectionSurvives, Refreshing, TypeOK,
     OneRefreshAtATime
<1>14. ASSUME NEW w \in Sweeps, UpdateVatRegime(w) PROVE ConnectionSurvives'
  BY <1>14 DEF UpdateVatRegime, Call, ConnectionSurvives, Refreshing, TypeOK,
     OneRefreshAtATime
<1>15. ASSUME NEW w \in Sweeps, EnsureDirectoryEntry(w) PROVE ConnectionSurvives'
  BY <1>15 DEF EnsureDirectoryEntry, Call, ConnectionSurvives, Refreshing,
     TypeOK, OneRefreshAtATime
<1>16. ASSUME NEW w \in Sweeps, MarkSuperPdpDirectoryRegistered(w) PROVE ConnectionSurvives'
  BY <1>16 DEF MarkSuperPdpDirectoryRegistered, Call, ConnectionSurvives,
     Refreshing, TypeOK, OneRefreshAtATime
<1>17. ASSUME NEW w \in Sweeps, GiveUp(w) PROVE ConnectionSurvives'
  BY <1>17 DEF GiveUp, Call, ConnectionSurvives, Refreshing, TypeOK,
     OneRefreshAtATime
<1>18. CASE Crash
  <2>1. ~lost' => ~lost /\ \A c \in Callers : step[c] # "persist"
    BY <1>18, Zenon DEF Crash
  <2> QED
    BY <1>18, <2>1 DEF Crash, ConnectionSurvives
<1>19. CASE UNCHANGED <<stored, spent, lost, step, seen>>
  BY <1>19 DEF ConnectionSurvives
<1> QED
  BY <1>1, <1>2, <1>3, <1>4, <1>5, <1>6, <1>7, <1>8, <1>9, <1>10, <1>11,
     <1>12, <1>13, <1>14, <1>15, <1>16, <1>17, <1>18, <1>19 DEF Next,
     GetValidAccessToken, ProvisionCompany, vars, ExchangeAuthorizationCode,
     UpdateSiret, AccessTokenAges

(* No action starts a second refresh or abandons a waiter.                 *)
LEMMA OneStep == ASSUME IInv, [Next]_vars PROVE OneRefreshAtATime'
<1> USE CallersAssumption, NamesAssumption DEF IInv, Callers, companyVars, callerVars,
      platformVars, historyVars, CallerOnly
<1>1. ASSUME NEW c \in Requests, Request(c) PROVE OneRefreshAtATime'
  BY <1>1 DEF Request, OneRefreshAtATime
<1>2. ASSUME NEW c \in Callers, FindSuperPdpTokens(c) PROVE OneRefreshAtATime'
  BY <1>2 DEF FindSuperPdpTokens, OneRefreshAtATime
<1>3. ASSUME NEW c \in Callers, UseStoredToken(c) PROVE OneRefreshAtATime'
  BY <1>3 DEF UseStoredToken, AfterToken, OneRefreshAtATime, TypeOK
<1>4. ASSUME NEW c \in Callers, JoinRefresh(c) PROVE OneRefreshAtATime'
  BY <1>4 DEF JoinRefresh, OneRefreshAtATime, FlightInv, Refreshing, TypeOK
<1>5. ASSUME NEW c \in Callers, StartRefresh(c) PROVE OneRefreshAtATime'
  BY <1>5 DEF StartRefresh, OneRefreshAtATime
<1>6. ASSUME NEW c \in Callers, RefreshAccessToken(c) PROVE OneRefreshAtATime'
  BY <1>6 DEF RefreshAccessToken, Settle, Answered, AfterToken, KeptToken,
     OneRefreshAtATime, FlightInv, Refreshing, TypeOK
<1>7. ASSUME NEW c \in Callers, RefreshRefused(c) PROVE OneRefreshAtATime'
  BY <1>7 DEF RefreshRefused, Settle, Answered, AfterToken, KeptToken,
     OneRefreshAtATime, FlightInv, Refreshing, TypeOK
<1>8. ASSUME NEW c \in Callers, RefreshSuperPdpTokens(c) PROVE OneRefreshAtATime'
  BY <1>8 DEF RefreshSuperPdpTokens, Settle, Answered, AfterToken, KeptToken,
     OneRefreshAtATime, FlightInv, Refreshing, TypeOK
<1>9. ASSUME NEW c \in Callers, PersistFails(c) PROVE OneRefreshAtATime'
  BY <1>9 DEF PersistFails, Settle, Answered, AfterToken, KeptToken,
     OneRefreshAtATime, FlightInv, Refreshing, TypeOK
<1>10. ASSUME NEW w \in Sweeps, FindPending(w) PROVE OneRefreshAtATime'
  BY <1>10 DEF FindPending, OneRefreshAtATime
<1>11. ASSUME NEW w \in Sweeps, GetSessionStatus(w) PROVE OneRefreshAtATime'
  BY <1>11 DEF GetSessionStatus, Call, OneRefreshAtATime
<1>12. ASSUME NEW w \in Sweeps, UpdateVatRegime(w) PROVE OneRefreshAtATime'
  BY <1>12 DEF UpdateVatRegime, Call, OneRefreshAtATime
<1>13. ASSUME NEW w \in Sweeps, EnsureDirectoryEntry(w) PROVE OneRefreshAtATime'
  BY <1>13 DEF EnsureDirectoryEntry, Call, OneRefreshAtATime
<1>14. ASSUME NEW w \in Sweeps, MarkSuperPdpDirectoryRegistered(w) PROVE OneRefreshAtATime'
  BY <1>14 DEF MarkSuperPdpDirectoryRegistered, Call, OneRefreshAtATime
<1>15. ASSUME NEW w \in Sweeps, GiveUp(w) PROVE OneRefreshAtATime'
  BY <1>15 DEF GiveUp, Call, OneRefreshAtATime
<1>16. CASE Crash
  BY <1>16 DEF Crash, OneRefreshAtATime
<1>17. CASE UNCHANGED <<inFlight, step>>
  BY <1>17 DEF OneRefreshAtATime
<1> QED
  BY <1>1, <1>2, <1>3, <1>4, <1>5, <1>6, <1>7, <1>8, <1>9, <1>10, <1>11,
     <1>12, <1>13, <1>14, <1>15, <1>16, <1>17 DEF Next, GetValidAccessToken,
     ProvisionCompany, vars, ExchangeAuthorizationCode, SaveSuperPdpTokens,
     ClearSuperPdpTokens, UpdateSiret, AccessTokenAges

-------------------------------------------------------------------------------
(* The inductive invariant holds.                                          *)
THEOREM Invariance == Spec => []IInv
<1>1. Init => IInv
  BY CallersAssumption, NamesAssumption DEF Init, IInv, TypeOK, GrantInv,
     CallbackInv, CallerInv, FlightInv, Refreshing, Provisioning,
     SeveredStaysSevered, ConnectionSurvives, OneRefreshAtATime, Steps
<1>2. IInv /\ [Next]_vars => IInv'
  BY TypeStep, GrantStep, CallbackStep, CallerStep, FlightStep, SeveredStep,
     SurvivalStep, OneStep DEF IInv
<1> QED
  BY <1>1, <1>2, PTL DEF Spec

(* Type correctness.                                                       *)
THEOREM TypeCorrect == Spec => []TypeOK
<1>1. IInv => TypeOK
  BY DEF IInv
<1> QED
  BY <1>1, Invariance, PTL

(* "Déconnecter" is final, whatever refresh it interrupts                  *)
(* (refreshSuperPdpTokens, clearSuperPdpTokens).                           *)
THEOREM DisconnectIsFinal == Spec => []SeveredStaysSevered
<1>1. IInv => SeveredStaysSevered
  BY DEF IInv
<1> QED
  BY <1>1, Invariance, PTL

(* Racing refreshes alone never leave a used refresh token in the row.     *)
THEOREM RefreshIsSafe == Spec => []ConnectionSurvives
<1>1. IInv => ConnectionSurvives
  BY DEF IInv
<1> QED
  BY <1>1, Invariance, PTL

(* One refresh at a time, and nobody waits for a refresh that has ended    *)
(* (refreshInFlight).                                                      *)
THEOREM RefreshIsShared == Spec => []OneRefreshAtATime
<1>1. IInv => OneRefreshAtATime
  BY DEF IInv
<1> QED
  BY <1>1, Invariance, PTL

===============================================================================
