---------------------------- MODULE RefreshSession ----------------------------
(***************************************************************************)
(* The sessions of one account: refresh tokens that are rotated at each    *)
(* use, the short grace in which a rotated one is forgiven, the alarm that *)
(* revokes every session when a revoked token comes back, and the explicit *)
(* revocations (logout, password change, password reset). AuthService,     *)
(* RefreshTokenRepository and the cookies AuthController sets.             *)
(*                                                                         *)
(* A device keeps one cookie jar, shared by its tabs: a request carries    *)
(* the token that is in the jar when it leaves, and the answer replaces it *)
(* when it arrives. Requests of one or several devices interleave at every *)
(* await of their handlers; an answer may be lost.                         *)
(***************************************************************************)
EXTENDS Naturals, FiniteSets

CONSTANTS
  Devices,
  Calls,     \* requests in flight at one time
  Tokens,    \* refresh tokens that can be issued (bounds the run)
  NoToken,
  SessionOps \* the requests devices make

ASSUME NoTokenAssumption == NoToken \notin Tokens
ASSUME SessionOpsAssumption ==
  SessionOps \subseteq {"login", "refresh", "logout", "password", "reset"}

VARIABLES
  token,    \* [Tokens -> the RefreshToken row]
  jar,      \* [Devices -> the refresh cookie]
  call,     \* [Calls -> a request: its handler's next statement and its data]
  lost,     \* history: an answer that carried a new token never arrived
  revoked,  \* history: a session was ended on purpose
  alarm     \* history: reuse was detected and every session revoked

sessionVars == <<token, jar, call, lost, revoked, alarm>>

\* replaced: revoked by a rotation (replacedByTokenHash); recent: no more than
\* REFRESH_REUSE_GRACE_PERIOD_MS ago.
Unissued == [state |-> "unissued", replaced |-> FALSE, recent |-> FALSE]
Active   == [state |-> "active",   replaced |-> FALSE, recent |-> FALSE]
Idle     == [pc |-> "idle", op |-> "none", device |-> NoToken, sent |-> NoToken, issued |-> NoToken]

CallRecords ==
  [pc : {"find", "issue", "stamp", "alarm", "revoke", "answer"}, op : SessionOps,
   device : Devices, sent : Tokens \cup {NoToken}, issued : Tokens \cup {NoToken}]
TokenRows ==
  [state : {"unissued", "active", "revoked"}, replaced : BOOLEAN, recent : BOOLEAN]

SessionTypeOK ==
  /\ token \in [Tokens -> TokenRows]
  /\ jar \in [Devices -> Tokens \cup {NoToken}]
  /\ call \in [Calls -> CallRecords \cup {Idle}]
  /\ lost \in BOOLEAN /\ revoked \in BOOLEAN /\ alarm \in BOOLEAN

SessionInit ==
  /\ token = [t \in Tokens |-> Unissued]
  /\ jar = [d \in Devices |-> NoToken]
  /\ call = [c \in Calls |-> Idle]
  /\ lost = FALSE /\ revoked = FALSE /\ alarm = FALSE

NewToken == CHOOSE t \in Tokens : token[t].state = "unissued"
CanIssue == \E t \in Tokens : token[t].state = "unissued"

Revoked(t, byRotation) ==
  [state |-> "revoked", replaced |-> byRotation, recent |-> TRUE]

(* Mutant: only a token still active can be refreshed. *)
FindActive(c) ==
  /\ call[c].pc = "find" /\ call[c].op = "refresh"
  /\ call' = [call EXCEPT ![c].pc =
       IF token[call[c].sent].state = "active" THEN "issue" ELSE "alarm"]
  /\ UNCHANGED <<token, jar, lost, revoked, alarm>>

Forgiven(t) == token[t].replaced /\ token[t].recent
Usable(t) == token[t].state = "active" \/ Forgiven(t)

\* revokeAllForUserExcept; with no token to keep, revokeAllForUser.
RevokeAllExcept(keep) ==
  token' = [t \in Tokens |-> IF token[t].state = "active" /\ t # keep
                             THEN Revoked(t, FALSE) ELSE token[t]]

-------------------------------------------------------------------------------
(* A request leaves with the cookie of its device.                         *)

FirstStatement ==
  [login |-> "issue", refresh |-> "find", logout |-> "find", password |-> "revoke",
   reset |-> "revoke"]

Send(c, d, op) ==
  /\ call[c] = Idle
  /\ op \in {"refresh", "logout", "password"} => jar[d] # NoToken
  /\ call' = [call EXCEPT ![c] =
       [pc |-> FirstStatement[op], op |-> op, device |-> d,
        sent |-> IF op \in {"login", "reset"} THEN NoToken ELSE jar[d], issued |-> NoToken]]
  /\ UNCHANGED <<token, jar, lost, revoked, alarm>>

-------------------------------------------------------------------------------
(* AuthService.refresh                                                     *)

\* findByHash, and the branch on what the row says.
FindForRefresh(c) ==
  /\ call[c].pc = "find" /\ call[c].op = "refresh"
  /\ LET t == token[call[c].sent]
     IN call' = [call EXCEPT ![c].pc =
          IF t.state = "active" \/ (t.replaced /\ t.recent) THEN "issue" ELSE "alarm"]
  /\ UNCHANGED <<token, jar, lost, revoked, alarm>>

\* issueTokens: the row of a new token (also the end of every login).
IssueTokens(c) ==
  /\ call[c].pc = "issue" /\ CanIssue
  /\ token' = [token EXCEPT ![NewToken] = Active]
  /\ call' = [call EXCEPT ![c].pc = IF call[c].op = "refresh" THEN "stamp" ELSE "answer",
                          ![c].issued = NewToken]
  /\ UNCHANGED <<jar, lost, revoked, alarm>>

\* revokeIfActiveWithReplacement: revocation and pointer in one conditional write.
RevokeIfActive(c) ==
  /\ call[c].pc = "stamp"
  /\ token' = IF token[call[c].sent].state = "active"
              THEN [token EXCEPT ![call[c].sent] = Revoked(call[c].sent, TRUE)] ELSE token
  /\ call' = [call EXCEPT ![c].pc = "answer"]
  /\ UNCHANGED <<jar, lost, revoked, alarm>>

\* handleReuse outside the grace period.
RevokeEverySession(c) ==
  /\ call[c].pc = "alarm"
  /\ RevokeAllExcept(NoToken)
  /\ alarm' = TRUE
  /\ call' = [call EXCEPT ![c] = Idle]
  /\ UNCHANGED <<jar, lost, revoked>>

-------------------------------------------------------------------------------
(* Explicit ends of sessions                                               *)

FindForLogout(c) ==
  /\ call[c].pc = "find" /\ call[c].op = "logout"
  /\ call' = [call EXCEPT ![c].pc =
       IF token[call[c].sent].state = "active" THEN "revoke" ELSE "answer"]
  /\ UNCHANGED <<token, jar, lost, revoked, alarm>>

\* The unconditional update by id: it keeps a pointer written since the read.
RevokeOne(c) ==
  /\ call[c].pc = "revoke" /\ call[c].op = "logout"
  /\ token' = [token EXCEPT ![call[c].sent] = Revoked(call[c].sent, @.replaced)]
  /\ revoked' = TRUE
  /\ call' = [call EXCEPT ![c].pc = "answer"]
  /\ UNCHANGED <<jar, lost, alarm>>

\* changePassword keeps the session whose cookie it was sent with, resetPassword none.
RevokeOthers(c) ==
  /\ call[c].pc = "revoke" /\ call[c].op \in {"password", "reset"}
  /\ RevokeAllExcept(call[c].sent)
  /\ revoked' = TRUE
  /\ call' = [call EXCEPT ![c].pc = "answer"]
  /\ UNCHANGED <<jar, lost, alarm>>

-------------------------------------------------------------------------------
(* The answer arrives: the browser stores or drops the cookie.             *)

Arrive(c) ==
  /\ call[c].pc = "answer"
  /\ jar' = CASE call[c].op \in {"login", "refresh"} ->
                   [jar EXCEPT ![call[c].device] = call[c].issued]
              [] call[c].op = "logout" -> [jar EXCEPT ![call[c].device] = NoToken]
              [] OTHER -> jar
  /\ call' = [call EXCEPT ![c] = Idle]
  /\ UNCHANGED <<token, lost, revoked, alarm>>

LoseAnswer(c) ==
  /\ call[c].pc = "answer"
  /\ lost' = (lost \/ call[c].issued # NoToken)
  /\ call' = [call EXCEPT ![c] = Idle]
  /\ UNCHANGED <<token, jar, revoked, alarm>>

\* A request is handled and answered within the grace period: the grace of a token
\* does not end while a request that carries it is on its way.
GraceEnds(t) ==
  /\ token[t].recent
  /\ \A c \in Calls : call[c].sent # t
  /\ token' = [token EXCEPT ![t].recent = FALSE]
  /\ UNCHANGED <<jar, call, lost, revoked, alarm>>

SessionNext ==
  \/ \E c \in Calls :
       \/ \E d \in Devices, op \in SessionOps : Send(c, d, op)
       \/ FindForRefresh(c) \/ IssueTokens(c) \/ RevokeIfActive(c) \/ RevokeEverySession(c)
       \/ FindForLogout(c) \/ RevokeOne(c) \/ RevokeOthers(c)
       \/ Arrive(c) \/ LoseAnswer(c)
  \/ \E t \in Tokens : GraceEnds(t)

SessionSpec == SessionInit /\ [][SessionNext]_sessionVars

-------------------------------------------------------------------------------
(* Parallel tabs, retries and late answers never cost a device its         *)
(* session: as long as no session was ended on purpose and no answer was   *)
(* lost, what a jar holds can be refreshed and the alarm stays silent      *)
(* (AuthService.rotateFrom, handleReuse).                                  *)
SessionSurvives ==
  ~lost /\ ~revoked =>
    /\ ~alarm
    /\ \A d \in Devices : jar[d] # NoToken => Usable(jar[d])

===============================================================================
