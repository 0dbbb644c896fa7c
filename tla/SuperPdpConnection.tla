--------------------------- MODULE SuperPdpConnection ---------------------------
(***************************************************************************)
(* A company's OAuth connection to the approved platform (SUPER PDP):      *)
(* consent, token refresh, disconnection, and the registration of the      *)
(* company in the e-invoicing directory.                                   *)
(*                                                                         *)
(* Every call to the platform first asks CompanySuperPdpService for an     *)
(* access token, which refreshes an ageing one; concurrent refreshes share *)
(* one promise (refreshInFlight). A sweep registers the connected          *)
(* companies, every thirty minutes. All of them interleave with            *)
(* "Déconnecter" at their awaits, in one Node process.                     *)
(*                                                                         *)
(* A token pair (access and refresh token) is named by a member of Pairs;  *)
(* a consent is named by the first pair it was granted. The platform       *)
(* rotates refresh tokens: each is good for one refresh.                   *)
(***************************************************************************)
CONSTANTS
  Requests,   \* requests that need an access token (transmit, refresh, ...)
  Sweeps,     \* ticks of the provisioning cron
  Pairs,      \* token pairs the platform can grant (bounds the grants)
  NoPair, NoCaller

Callers == Requests \cup Sweeps

ASSUME CallersAssumption == Requests \cap Sweeps = {}
ASSUME NamesAssumption == NoPair \notin Pairs /\ NoCaller \notin Callers

VARIABLES
  \* the Company row
  stored,        \* superPdp{Access,Refresh}TokenEncrypted
  connectedAt,   \* superPdpConnectedAt is not null
  registered,    \* superPdpDirectoryRegisteredAt is not null
  siret,         \* "empty" (a new company) or "siren" (its digits hold one)
  \* the process
  callback,      \* pair of a consent whose callback has not stored it yet
  inFlight,      \* refreshInFlight: the caller that runs the refresh
  step,          \* next statement of a caller
  seen,          \* pair a caller read from the row
  token,         \* pair whose access token a caller was given
  siretRead,     \* siret in the row a sweep read
  \* the platform
  origin,        \* consent a pair was granted under (NoPair: not granted)
  old,           \* pairs whose access token is about to expire
  spent,         \* pairs whose refresh token has been used
  \* history
  severed,       \* consents the artisan disconnected
  confirmed,     \* consents under which a directory entry was confirmed
  registeredBy,  \* consent under which registered was set
  lost           \* a rotated pair was lost before it was stored

companyVars  == <<stored, connectedAt, registered, siret>>
callerVars   == <<step, seen, token, siretRead>>
platformVars == <<origin, old, spent>>
historyVars  == <<severed, confirmed, registeredBy, lost>>
vars == <<companyVars, callback, inFlight, callerVars, platformVars, historyVars>>

Steps == {"idle", "read", "choose", "waiting", "refresh", "persist",
          "status", "vat", "directory", "mark"}

TypeOK ==
  /\ stored \in Pairs \cup {NoPair}
  /\ connectedAt \in BOOLEAN /\ registered \in BOOLEAN
  /\ siret \in {"empty", "siren"}
  /\ callback \in Pairs \cup {NoPair}
  /\ inFlight \in Callers \cup {NoCaller}
  /\ step \in [Callers -> Steps]
  /\ seen \in [Callers -> Pairs \cup {NoPair}]
  /\ token \in [Callers -> Pairs \cup {NoPair}]
  /\ siretRead \in [Sweeps -> {"empty", "siren"}]
  /\ origin \in [Pairs -> Pairs \cup {NoPair}]
  /\ old \subseteq Pairs /\ spent \subseteq Pairs
  /\ severed \subseteq Pairs /\ confirmed \subseteq Pairs
  /\ registeredBy \in Pairs \cup {NoPair}
  /\ lost \in BOOLEAN

Init ==
  /\ stored = NoPair
  /\ connectedAt = FALSE /\ registered = FALSE
  /\ siret \in {"empty", "siren"}
  /\ callback = NoPair
  /\ inFlight = NoCaller
  /\ step = [c \in Callers |-> "idle"]
  /\ seen = [c \in Callers |-> NoPair]
  /\ token = [c \in Callers |-> NoPair]
  /\ siretRead = [w \in Sweeps |-> "empty"]
  /\ origin = [p \in Pairs |-> NoPair]
  /\ old = {} /\ spent = {}
  /\ severed = {} /\ confirmed = {} /\ registeredBy = NoPair
  /\ lost = FALSE

-------------------------------------------------------------------------------
(* Consent and disconnection.                                              *)

(* exchangeAuthorizationCode: the platform grants the first pair.          *)
ExchangeAuthorizationCode ==
  /\ callback = NoPair
  /\ \E p \in Pairs :
       /\ origin[p] = NoPair
       /\ origin' = [origin EXCEPT ![p] = p]
       /\ callback' = p
  /\ UNCHANGED <<companyVars, inFlight, callerVars, old, spent, historyVars>>

(* saveSuperPdpTokens writes the row on no condition; the registration is  *)
(* left as it is.                                                          *)
SaveSuperPdpTokens ==
  /\ callback # NoPair
  /\ stored' = callback
  /\ connectedAt' = TRUE
  /\ callback' = NoPair
  /\ UNCHANGED <<registered, siret, inFlight, callerVars, platformVars, historyVars>>

ClearSuperPdpTokens ==
  /\ stored' = NoPair
  /\ connectedAt' = FALSE
  /\ registered' = FALSE
  /\ registeredBy' = NoPair
  /\ severed' = severed \cup {origin[p] : p \in {stored} \ {NoPair}}
  /\ UNCHANGED <<siret, callback, inFlight, callerVars, platformVars, confirmed, lost>>

(* Mutant: the digits are not counted. *)
UpdateSiretUnchecked ==
  /\ siret' \in {"siren", "short"}
  /\ UNCHANGED <<stored, connectedAt, registered, callback, inFlight, callerVars,
                 platformVars, historyVars>>

(* A profile update accepts a siret of fourteen digits only.               *)
UpdateSiret ==
  /\ siret' = "siren"
  /\ UNCHANGED <<stored, connectedAt, registered, callback, inFlight, callerVars,
                 platformVars, historyVars>>

-------------------------------------------------------------------------------
(* getValidAccessToken.                                                    *)

CallerOnly == UNCHANGED <<companyVars, callback, platformVars, historyVars>>

Request(c) ==
  /\ step[c] = "idle"
  /\ step' = [step EXCEPT ![c] = "read"]
  /\ UNCHANGED <<inFlight, seen, token, siretRead>>
  /\ CallerOnly

FindSuperPdpTokens(c) ==
  /\ step[c] = "read"
  /\ seen' = [seen EXCEPT ![c] = stored]
  /\ step' = [step EXCEPT ![c] = "choose"]
  /\ UNCHANGED <<inFlight, token, siretRead>>
  /\ CallerOnly

(* With an access token a sweep goes on; the rest of a request does not    *)
(* touch the connection, and without one both end.                         *)
AfterToken(c, p) == IF c \in Sweeps /\ p # NoPair THEN "status" ELSE "idle"
KeptToken(c, p)  == IF c \in Sweeps THEN p ELSE NoPair

(* The callers a settled refresh answers: its owner and those that joined. *)
Answered(c) == {d \in Callers : d = c \/ step[d] = "waiting"}

(* Mutant: the promise is not removed when the refresh fails. *)
SettleKeepingPromise(c, p) ==
  /\ inFlight' = IF p = NoPair THEN inFlight ELSE NoCaller
  /\ step' = [d \in Callers |-> IF d \in Answered(c) THEN AfterToken(d, p) ELSE step[d]]
  /\ token' = [d \in Callers |-> IF d \in Answered(c) THEN KeptToken(d, p) ELSE token[d]]
  /\ seen' = [d \in Callers |-> IF d \in Answered(c) THEN NoPair ELSE seen[d]]
  /\ UNCHANGED siretRead

(* The shared promise settles, with a pair or (NoPair) with an error, and  *)
(* leaves the map; those who awaited it go on.                             *)
Settle(c, p) ==
  /\ inFlight' = NoCaller
  /\ step' = [d \in Callers |-> IF d \in Answered(c) THEN AfterToken(d, p) ELSE step[d]]
  /\ token' = [d \in Callers |-> IF d \in Answered(c) THEN KeptToken(d, p) ELSE token[d]]
  /\ seen' = [d \in Callers |-> IF d \in Answered(c) THEN NoPair ELSE seen[d]]
  /\ UNCHANGED siretRead

(* From the answer of the query to the next await, no other code runs.     *)
(* Without a stored pair the call throws.                                  *)
UseStoredToken(c) ==
  /\ step[c] = "choose" /\ seen[c] \notin old
  /\ step' = [step EXCEPT ![c] = AfterToken(c, seen[c])]
  /\ token' = [token EXCEPT ![c] = KeptToken(c, seen[c])]
  /\ seen' = [seen EXCEPT ![c] = NoPair]
  /\ UNCHANGED <<inFlight, siretRead>>
  /\ CallerOnly

JoinRefresh(c) ==
  /\ step[c] = "choose" /\ seen[c] \in old
  /\ inFlight # NoCaller
  /\ step' = [step EXCEPT ![c] = "waiting"]
  /\ UNCHANGED <<inFlight, seen, token, siretRead>>
  /\ CallerOnly

StartRefresh(c) ==
  /\ step[c] = "choose" /\ seen[c] \in old
  /\ inFlight = NoCaller
  /\ inFlight' = c
  /\ step' = [step EXCEPT ![c] = "refresh"]
  /\ UNCHANGED <<seen, token, siretRead>>
  /\ CallerOnly

(* The platform rotates the pair, and the answer arrives or is lost.       *)
RefreshAccessToken(c) ==
  /\ step[c] = "refresh"
  /\ seen[c] \notin spent
  /\ spent' = spent \cup {seen[c]}
  /\ \E p \in Pairs :
       /\ origin[p] = NoPair
       /\ origin' = [origin EXCEPT ![p] = origin[seen[c]]]
       /\ \/ /\ token' = [token EXCEPT ![c] = p]
             /\ step' = [step EXCEPT ![c] = "persist"]
             /\ UNCHANGED <<inFlight, seen, siretRead, lost>>
          \/ /\ Settle(c, NoPair)
             /\ lost' = TRUE
  /\ UNCHANGED <<companyVars, callback, old, severed, confirmed, registeredBy>>

(* Out of reach, or the refresh token was already used.                    *)
RefreshRefused(c) ==
  /\ step[c] = "refresh"
  /\ Settle(c, NoPair)
  /\ CallerOnly

(* Mutant: the update is keyed by the company alone. *)
RefreshByCompanyId(c) ==
  /\ step[c] = "persist"
  /\ stored' = token[c]
  /\ Settle(c, token[c])
  /\ UNCHANGED <<connectedAt, registered, siret, callback, platformVars, historyVars>>

(* Mutant: the rotated refresh token is dropped. *)
RefreshKeepingToken(c) ==
  /\ step[c] = "persist"
  /\ Settle(c, token[c])
  /\ UNCHANGED <<companyVars, callback, platformVars, historyVars>>

(* The update is conditional on the refresh token the caller read. The     *)
(* caller keeps its access token whether or not a row matched.             *)
RefreshSuperPdpTokens(c) ==
  /\ step[c] = "persist"
  /\ stored' = IF stored = seen[c] THEN token[c] ELSE stored
  /\ Settle(c, token[c])
  /\ UNCHANGED <<connectedAt, registered, siret, callback, platformVars, historyVars>>

PersistFails(c) ==
  /\ step[c] = "persist"
  /\ Settle(c, NoPair)
  /\ lost' = TRUE
  /\ UNCHANGED <<companyVars, callback, platformVars, severed, confirmed, registeredBy>>

GetValidAccessToken(c) ==
  \/ FindSuperPdpTokens(c)
  \/ UseStoredToken(c) \/ JoinRefresh(c) \/ StartRefresh(c)
  \/ RefreshAccessToken(c) \/ RefreshRefused(c)
  \/ RefreshSuperPdpTokens(c) \/ PersistFails(c)

-------------------------------------------------------------------------------
(* provisionCompany, run by the sweep.                                     *)

(* The sweep's query: connected, not registered yet.                       *)
FindPending(w) ==
  /\ step[w] = "idle"
  /\ connectedAt /\ ~registered
  /\ siretRead' = [siretRead EXCEPT ![w] = siret]
  /\ step' = [step EXCEPT ![w] = "read"]
  /\ UNCHANGED <<inFlight, seen, token>>
  /\ CallerOnly

(* One platform call of the sweep: it goes on, or it gives up until the    *)
(* next sweep (not verified yet, or any failure).                          *)
Call(w, from, to) ==
  /\ step[w] = from
  /\ step' = [step EXCEPT ![w] = to]
  /\ token' = [token EXCEPT ![w] = IF to = "idle" THEN NoPair ELSE @]
  /\ UNCHANGED <<inFlight, seen, siretRead>>

GetSessionStatus(w) == Call(w, "status", "vat") /\ CallerOnly

UpdateVatRegime(w) == Call(w, "vat", "directory") /\ CallerOnly

(* ensureDirectoryEntry returns early when the siret holds no SIREN.       *)
EnsureDirectoryEntry(w) ==
  /\ Call(w, "directory", "mark")
  /\ confirmed' = IF siretRead[w] = "siren" THEN confirmed \cup {origin[token[w]]} ELSE confirmed
  /\ UNCHANGED <<companyVars, callback, platformVars, severed, registeredBy, lost>>

MarkSuperPdpDirectoryRegistered(w) ==
  /\ Call(w, "mark", "idle")
  /\ registered' = TRUE
  /\ registeredBy' = origin[token[w]]
  /\ UNCHANGED <<stored, connectedAt, siret, callback, platformVars,
                 severed, confirmed, lost>>

GiveUp(w) ==
  /\ step[w] \in {"status", "vat", "directory", "mark"}
  /\ Call(w, step[w], "idle")
  /\ CallerOnly

ProvisionCompany(w) ==
  \/ FindPending(w) \/ GetSessionStatus(w) \/ UpdateVatRegime(w)
  \/ EnsureDirectoryEntry(w) \/ MarkSuperPdpDirectoryRegistered(w) \/ GiveUp(w)

-------------------------------------------------------------------------------
(* Time passes.                                                            *)
AccessTokenAges(p) ==
  /\ origin[p] # NoPair
  /\ old' = old \cup {p}
  /\ UNCHANGED <<companyVars, callback, inFlight, callerVars, origin, spent, historyVars>>

(* The process restarts: every call in flight is gone.                     *)
Crash ==
  /\ lost' = (lost \/ \E c \in Callers : step[c] = "persist")
  /\ callback' = NoPair
  /\ inFlight' = NoCaller
  /\ step' = [c \in Callers |-> "idle"]
  /\ seen' = [c \in Callers |-> NoPair]
  /\ token' = [c \in Callers |-> NoPair]
  /\ UNCHANGED <<companyVars, siretRead, platformVars, severed, confirmed, registeredBy>>

Next ==
  \/ ExchangeAuthorizationCode \/ SaveSuperPdpTokens \/ ClearSuperPdpTokens \/ UpdateSiret
  \/ \E c \in Requests : Request(c)
  \/ \E c \in Callers : GetValidAccessToken(c)
  \/ \E w \in Sweeps : ProvisionCompany(w)
  \/ \E p \in Pairs : AccessTokenAges(p)
  \/ Crash

Spec == Init /\ [][Next]_vars

-------------------------------------------------------------------------------
(* What must hold.                                                         *)

(* "Déconnecter" is final: whatever refresh was in flight, the tokens of a *)
(* severed consent never come back into the row, and the row never holds   *)
(* tokens without the consent date.                                        *)
SeveredStaysSevered ==
  stored # NoPair => connectedAt /\ origin[stored] \notin severed

(* Unless an answer, a write or the process was lost in between, the       *)
(* refresh token in the row is still good, or a request is about to store  *)
(* its successor: racing refreshes never cost the artisan the connection.  *)
ConnectionSurvives ==
  stored \in spent /\ ~lost =>
    \E c \in Callers : step[c] = "persist" /\ seen[c] = stored

(* One refresh runs at a time, and whoever waits for a shared refresh      *)
(* waits for one that is running (the finally of getValidAccessToken).     *)
OneRefreshAtATime ==
  /\ \A c \in Callers : step[c] \in {"refresh", "persist"} => inFlight = c
  /\ \A c \in Callers : step[c] = "waiting" =>
       \E d \in Callers : step[d] \in {"refresh", "persist"}

(* clearSuperPdpTokens: "a reconnect must re-provision from scratch rather *)
(* than trusting a registration made under a now-severed connection". (A   *)
(* sweep that outlives the disconnection makes the code trust one.)        *)
RegistrationIsNotSevered ==
  connectedAt /\ registered => registeredBy \notin severed

(* provisionCompany "only ever writes that column once the two real side   *)
(* effects (VAT regime pushed, directory entry confirmed present) have     *)
(* both succeeded". (Not without a usable siret.)                              *)
RegisteredOnlyOnceDone ==
  registered => registeredBy \in confirmed
===============================================================================
