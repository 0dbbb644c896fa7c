------------------------------ MODULE SessionClient ------------------------------
(***************************************************************************)
(* The session as one tab sees it: AuthService's user, the calls in        *)
(* flight, the one silent refresh they share when they come back 401       *)
(* (authRefreshInterceptor) and the page shown. The server side of the     *)
(* refresh is RefreshSession's; here it accepts or not.                    *)
(*                                                                         *)
(* Every sign-in, refresh or sign-out installs a new user object: user is  *)
(* its number, 0 the null user.                                            *)
(***************************************************************************)
EXTENDS Naturals

CONSTANTS
  ApiCalls,   \* authenticated calls of the tab
  MaxUsers    \* bound of the user objects installed

ASSUME MaxUsersAssumption == MaxUsers \in Nat \ {0}

VARIABLES
  user,        \* currentUser, as the number of its object
  users,       \* how many objects were installed
  page,        \* a protected page, or a public one
  live,        \* the server would renew this browser's session
  fresh,       \* the access token of the browser is accepted
  apiCall,       \* per call, where it is
  snapshot,    \* per call, userBeforeRefresh
  refreshCall, \* refreshInFlight$: none, sent, or answered by the server
  signedSince, \* history: calls refused before the latest sign-in or sign-out
  yanked       \* history: a call refused before a sign-in sent the user to /connexion

clientVars ==
  <<user, users, page, live, fresh, apiCall, snapshot, refreshCall, signedSince, yanked>>

NoUser == 0
InFlight == {"sent", "waiting", "retried"}
WaitingCalls == {c \in ApiCalls : apiCall[c] = "waiting"}

ClientInit ==
  /\ user = 1 /\ users = 1 /\ page = "app" /\ live = TRUE /\ fresh = TRUE
  /\ apiCall = [c \in ApiCalls |-> "idle"] /\ snapshot = [c \in ApiCalls |-> NoUser]
  /\ refreshCall = "none" /\ signedSince = {} /\ yanked = FALSE

Settle(c, how) == apiCall' = [apiCall EXCEPT ![c] = how]
Install == users < MaxUsers /\ users' = users + 1 /\ user' = users + 1

-------------------------------------------------------------------------------
(* What the interceptor does not decide                                     *)

AccessExpires ==
  /\ fresh /\ fresh' = FALSE
  /\ UNCHANGED <<user, users, page, live, apiCall, snapshot, refreshCall, signedSince, yanked>>

\* Revoked elsewhere, or aged out.
SessionEnds ==
  /\ live /\ live' = FALSE /\ fresh' = FALSE
  /\ UNCHANGED <<user, users, page, apiCall, snapshot, refreshCall, signedSince, yanked>>

\* The answer of a login, a registration or a native sign-in: new cookies, new user. A
\* refresh in flight carries the cookies of before.
SignIn ==
  /\ page = "public" /\ Install
  /\ page' = "app" /\ live' = TRUE /\ fresh' = TRUE
  /\ signedSince' = signedSince \cup WaitingCalls
  /\ refreshCall' = IF refreshCall = "sent" /\ ~live THEN "refused" ELSE refreshCall
  /\ UNCHANGED <<apiCall, snapshot, yanked>>

\* The answer of POST /auth/logout: cookies cleared, the public page shown.
SignOut ==
  /\ user # NoUser /\ page = "app"
  /\ user' = NoUser /\ page' = "public" /\ live' = FALSE /\ fresh' = FALSE
  /\ signedSince' = signedSince \cup WaitingCalls
  /\ UNCHANGED <<users, apiCall, snapshot, refreshCall, yanked>>

\* The visitor opens a public page (the share view, the terms) or comes back.
Visit ==
  /\ page' \in {"app", "public"} \ {page} /\ (page' = "app" => user # NoUser)
  /\ UNCHANGED <<user, users, live, fresh, apiCall, snapshot, refreshCall, signedSince, yanked>>

-------------------------------------------------------------------------------
(* A call and its silent refresh                                            *)

SendCall(c) ==
  /\ apiCall[c] \in {"idle", "done", "failed"} /\ Settle(c, "sent")
  /\ signedSince' = signedSince \ {c}
  /\ UNCHANGED <<user, users, page, live, fresh, snapshot, refreshCall, yanked>>

Served(c) ==
  /\ apiCall[c] \in {"sent", "retried"} /\ fresh
  /\ Settle(c, "done")
  /\ UNCHANGED <<user, users, page, live, fresh, snapshot, refreshCall, signedSince, yanked>>

\* A 401: the user is remembered and the refresh in flight joined, or one started.
Refused(c) ==
  /\ apiCall[c] = "sent" /\ ~fresh
  /\ Settle(c, "waiting")
  /\ snapshot' = [snapshot EXCEPT ![c] = user]
  /\ refreshCall' = IF refreshCall # "none" THEN refreshCall
                    ELSE IF live THEN "sent" ELSE "refused"
  /\ UNCHANGED <<user, users, page, live, fresh, signedSince, yanked>>

\* POST /auth/refresh is judged by the server; with a dead cookie it was already.
ServerRefreshes ==
  /\ refreshCall = "sent"
  /\ refreshCall' = IF live THEN "accepted" ELSE "refused"
  /\ UNCHANGED <<user, users, page, live, fresh, apiCall, snapshot, signedSince, yanked>>

\* The new cookies and the user arrive; every call waiting is sent again.
RefreshSucceeds ==
  /\ refreshCall = "accepted" /\ Install
  /\ refreshCall' = "none" /\ fresh' = TRUE /\ live' = TRUE
  /\ apiCall' = [c \in ApiCalls |-> IF apiCall[c] = "waiting" THEN "retried" ELSE apiCall[c]]
  /\ UNCHANGED <<page, snapshot, signedSince, yanked>>

(* Mutant: any failed refresh is an expired session. *)
AlwaysExpired(c) == page = "app"

\* catchError: nobody signed in since the refusal, and the page needs a session.
SessionExpired(c) == user = snapshot[c] /\ page = "app"

\* The refresh is refused, or the network failed: the calls waiting fail, one after the
\* other in this same turn, and the first that finds the session expired shows /connexion.
RefreshFails ==
  /\ refreshCall \in {"refused", "sent"}
  /\ refreshCall' = "none"
  /\ apiCall' = [c \in ApiCalls |-> IF apiCall[c] = "waiting" THEN "failed" ELSE apiCall[c]]
  /\ LET expired == {c \in WaitingCalls : SessionExpired(c)}
     IN /\ page' = IF expired = {} THEN page ELSE "public"
        /\ yanked' = (yanked \/ expired \cap signedSince # {})
  /\ UNCHANGED <<user, users, live, fresh, snapshot, signedSince>>

\* The retry is refused too: the inner catchError, where the refresh has changed the user.
RetryRefused(c) ==
  /\ apiCall[c] = "retried" /\ ~fresh
  /\ Settle(c, "failed")
  /\ page' = IF SessionExpired(c) THEN "public" ELSE page
  /\ yanked' = (yanked \/ (SessionExpired(c) /\ c \in signedSince))
  /\ UNCHANGED <<user, users, live, fresh, snapshot, refreshCall, signedSince>>

\* Any other error, a network failure, or the deadline of timeoutInterceptor, which
\* covers the refresh and the retry of the call.
CallFails(c) ==
  /\ apiCall[c] \in InFlight
  /\ Settle(c, "failed")
  /\ UNCHANGED <<user, users, page, live, fresh, snapshot, refreshCall, signedSince, yanked>>

ClientNext ==
  \/ AccessExpires \/ SessionEnds \/ SignIn \/ SignOut \/ Visit
  \/ ServerRefreshes \/ RefreshSucceeds \/ RefreshFails
  \/ \E c \in ApiCalls :
       SendCall(c) \/ Served(c) \/ Refused(c) \/ RetryRefused(c) \/ CallFails(c)

ClientSpec == ClientInit /\ [][ClientNext]_clientVars

-------------------------------------------------------------------------------
(* Properties                                                               *)

ClientTypeOK ==
  /\ user \in 0..MaxUsers /\ users \in 1..MaxUsers /\ page \in {"app", "public"}
  /\ live \in BOOLEAN /\ fresh \in BOOLEAN /\ yanked \in BOOLEAN
  /\ apiCall \in [ApiCalls -> InFlight \cup {"idle", "done", "failed"}]
  /\ snapshot \in [ApiCalls -> 0..MaxUsers] /\ signedSince \subseteq ApiCalls
  /\ refreshCall \in {"none", "sent", "accepted", "refused"}

\* A call refused before the visitor signed in again never throws the visitor back to
\* /connexion, whatever becomes of the refresh it waits for ("forcing a redirect now would
\* yank the visitor back moments after they just logged in"); and a call waits only for a
\* refresh that is really in flight.
NewSessionIsKept ==
  /\ ~yanked
  /\ WaitingCalls # {} => refreshCall # "none"

===============================================================================
