----------------------------- MODULE AuthSessions -----------------------------
(***************************************************************************)
(* Sessions between the server (auth.rs) and one desktop installation:     *)
(* registration, login, rotation of refresh tokens, logout, revocation of  *)
(* a device, and what the desktop does with tokens. The desktop runs one   *)
(* sync_now at a time, the only caller of send_authorized, and beside it   *)
(* the user who signs in and out; a device is revoked from elsewhere. The  *)
(* desktop waits thirty seconds for an answer; a refresh it has given up   *)
(* goes on at the server, beside the one that the next sync_now asks for.  *)
(***************************************************************************)
EXTENDS Integers, FiniteSets

CONSTANTS
  Accounts,
  Registered,  \* the accounts that exist at the start
  Handlers,    \* executions of the server's refresh at one time
  MaxDevices,  \* bound of the model: logins and registrations
  MaxExpiries, \* bound of the model: access tokens that expire
  MaxLost,     \* bound of the model: requests or answers lost, refreshes that fail
  None         \* "there is no such thing"

ASSUME SessionsAssumption ==
  /\ Registered \subseteq Accounts
  /\ MaxDevices \in Nat /\ MaxExpiries \in Nat /\ MaxLost \in Nat
  /\ None \notin Nat /\ None \notin Handlers
  /\ None \notin [account : Accounts, device : Nat, access : Nat]

VARIABLES
  users,      \* the accounts that exist
  device,     \* devices: the account of each, in the order they were made
  revoked,    \* the devices with a revoked_at
  issued,     \* sessions: the device of each; a session's number stands for
              \* its refresh token and for the access token issued with it
  ended,      \* the sessions with a revoked_at
  revoking,   \* the device being revoked and the sessions its UPDATE has seen
  granted,    \* history: the devices given a session after they were revoked
  serving,    \* refresh, in each handler: what it does next, the token it was
              \* sent and whether the device was active when it was read
  expired,    \* the access tokens past their time, or about to be
  credential, \* Credential Manager: the refresh token of each account, or None
  session,    \* UnlockedState: the account, device and access token, or None
  sync,       \* sync_now: what it does next, and its locals
  user,       \* the login, registration or logout under way, and its locals
  lost,       \* how much was lost or failed
  excuses     \* history: what has come between the desktop and the server

tables == <<users, device, revoked, issued, ended, revoking, granted>>
server == <<tables, serving>>
desktop == <<credential, session>>
vars == <<server, expired, desktop, sync, user, lost, excuses>>

Devices == 1 .. MaxDevices
Tokens == Nat \ {0}

Off == [pc |-> "off", account |-> None, device |-> None, token |-> None,
        refresh |-> None, handler |-> None, attempt |-> 1]
Idle == [pc |-> "idle", account |-> None, token |-> None]
Free == [pc |-> "free", token |-> None, active |-> FALSE]

ServerTypeOK ==
  /\ users \subseteq Accounts
  /\ DOMAIN device \subseteq Devices /\ \A d \in DOMAIN device : device[d] \in users
  /\ revoked \subseteq DOMAIN device
  /\ \A t \in DOMAIN issued : t \in Tokens /\ issued[t] \in DOMAIN device
  /\ ended \subseteq DOMAIN issued /\ expired \subseteq DOMAIN issued
  /\ revoking = None \/ revoking \in [device : DOMAIN device, seen : SUBSET DOMAIN issued]
  /\ granted \subseteq revoked

ServingTypeOK ==
  serving \in [Handlers -> [pc : {"free", "select", "lock", "rotate"},
                           token : DOMAIN issued \union {None}, active : BOOLEAN]]

DesktopTypeOK ==
  /\ credential \in [Accounts -> DOMAIN issued \union {None}]
  /\ \/ session = None
     \/ session \in [account : users, device : DOMAIN device, access : DOMAIN issued]

SyncPc == {"off", "token", "credential", "refresh", "await", "store", "adopt", "send",
           "invalidate", "clear"}

SyncTypeOK ==
  sync \in [pc : SyncPc,
           account : users \union {None}, device : DOMAIN device \union {None},
           token : DOMAIN issued \union {None}, refresh : DOMAIN issued \union {None},
           handler : Handlers \union {None}, attempt : {1, 2}]

UserPc == {"idle", "unlock credential", "unlock state", "logout", "logout credential",
           "logout state"}

UserTypeOK ==
  user \in [pc : UserPc,
           account : users \union {None}, token : DOMAIN issued \union {None}]

TypeOK ==
  /\ ServerTypeOK /\ ServingTypeOK /\ DesktopTypeOK /\ SyncTypeOK /\ UserTypeOK
  /\ lost \in 0 .. MaxLost
  /\ excuses \subseteq {"lost", "crossed"}

Init ==
  /\ users = Registered
  /\ device = [d \in {} |-> None] /\ revoked = {}
  /\ issued = [t \in {} |-> None] /\ ended = {}
  /\ revoking = None /\ granted = {}
  /\ serving = [h \in Handlers |-> Free]
  /\ expired = {}
  /\ credential = [a \in Accounts |-> None]
  /\ session = None
  /\ sync = Off /\ user = Idle
  /\ lost = 0 /\ excuses = {}

Count(f) == Cardinality(DOMAIN f)
Appended(f, v) == [n \in 1 .. Count(f) + 1 |-> IF n \in DOMAIN f THEN f[n] ELSE v]
-----------------------------------------------------------------------------
(* The server. authenticated: the signature and the time of the token, and *)
(* a device that is not revoked.                                           *)

Authenticated(t) == t \notin expired /\ issued[t] \notin revoked

(* issue_session: a session row and its two tokens. (Faulty variant: no row*)
(* is inserted.)                                                           *)
NewToken == Count(issued) + 1
IssueTokens(d) == UNCHANGED issued
IssueSession(d) == issued' = Appended(issued, d)

(* refresh. Its statement sees the device as it was committed when the     *)
(* statement began; it locks the session's row, for which it waits, and    *)
(* sees of that row what is committed then. (Faulty variants: the device is*)
(* not asked for; a refresh token ends with its access token; no row is    *)
(* locked.)                                                                *)
MayRotateSession(h) == serving[h].token \notin ended
MayRotateFresh(h) == serving[h].token \notin ended \union expired /\ serving[h].active
MayRotate(h) == serving[h].token \notin ended /\ serving[h].active
NoLocks == {}
RefreshLocks == {serving[h].token : h \in {g \in Handlers : serving[g].pc = "rotate"}}

(* revoke_device, asked for on another device: the device's row, then the  *)
(* sessions that its UPDATE sees when it starts, waiting for their locks;  *)
(* what it wrote is visible when it commits.                               *)
RevokeBegin ==
  /\ revoking = None
  /\ \E d \in DOMAIN device \ revoked :
       revoking' = [device |-> d, seen |-> {t \in DOMAIN issued : issued[t] = d}]
  /\ UNCHANGED <<users, device, revoked, issued, ended, granted, serving, expired, desktop, sync,
                 user, lost, excuses>>

RevokeCommit ==
  /\ revoking # None
  /\ revoking.seen \intersect RefreshLocks = {}
  /\ revoked' = revoked \union {revoking.device}
  /\ ended' = ended \union revoking.seen
  /\ revoking' = None
  /\ UNCHANGED <<users, device, issued, granted, serving, expired, desktop, sync, user, lost,
                 excuses>>

(* Time passes: the next access token comes to its end; all last equally   *)
(* long. The desktop takes it for expired two minutes early, the server may*)
(* still be asked with it.                                                 *)
Expire ==
  /\ Cardinality(expired) < MaxExpiries
  /\ \E t \in DOMAIN issued :
       t = Cardinality(expired) + 1 /\ expired' = expired \union {t}
  /\ UNCHANGED <<server, desktop, sync, user, lost, excuses>>
-----------------------------------------------------------------------------
(* sync_now: it begins with a session and reads the session anew for every *)
(* request it sends.                                                       *)

SyncGoto(pc) == sync' = [sync EXCEPT !.pc = pc]
SyncEnds == sync' = Off

SyncBegin ==
  /\ sync.pc = "off" /\ session # None
  /\ sync' = [Off EXCEPT !.pc = "token"]
  /\ excuses' = IF user.pc = "idle" THEN excuses ELSE excuses \union {"crossed"}
  /\ UNCHANGED <<server, expired, desktop, user, lost>>

(* access_token: the session's own, unless it is expiring or refused.      *)
AccessToken ==
  /\ sync.pc = "token"
  /\ IF session = None THEN SyncEnds
     ELSE sync' = [sync EXCEPT
            !.pc = IF sync.attempt = 2 \/ session.access \in expired THEN "credential" ELSE "send",
            !.account = session.account, !.device = session.device,
            !.token = session.access]
  /\ UNCHANGED <<server, expired, desktop, user, lost, excuses>>

ReadCredential ==
  /\ sync.pc = "credential"
  /\ IF credential[sync.account] = None THEN SyncEnds
     ELSE sync' = [sync EXCEPT !.pc = "refresh", !.refresh = credential[sync.account]]
  /\ UNCHANGED <<server, expired, desktop, user, lost, excuses>>

(* (Faulty variant: a refusal is an error like any other.)                 *)
GivesUp == "off"
Refused == "invalidate"

(* The request is sent to a handler that is free (they are alike: the first*)
(* one will do), or is lost.                                               *)
FreeHandler ==
  LET free == {h \in Handlers : serving[h].pc = "free"} IN
  IF free = {} THEN {} ELSE {CHOOSE h \in free : TRUE}

Refresh ==
  /\ sync.pc = "refresh"
  /\ \/ \E h \in FreeHandler :
          /\ serving' = [serving EXCEPT ![h] =
                          [pc |-> "select", token |-> sync.refresh, active |-> FALSE]]
          /\ sync' = [sync EXCEPT !.pc = "await", !.handler = h]
          /\ UNCHANGED lost
     \/ /\ lost < MaxLost
        /\ lost' = lost + 1
        /\ SyncEnds
        /\ UNCHANGED serving
  /\ UNCHANGED <<tables, expired, desktop, user, excuses>>

Awaited(h) == sync.pc = "await" /\ sync.handler = h

RefreshSelect(h) ==
  /\ serving[h].pc = "select"
  /\ serving' = [serving EXCEPT ![h].pc = "lock",
                                ![h].active = issued[serving[h].token] \notin revoked]
  /\ UNCHANGED <<tables, expired, desktop, sync, user, lost, excuses>>

RefreshLock(h) ==
  /\ serving[h].pc = "lock"
  /\ serving[h].token \notin RefreshLocks
  /\ IF MayRotate(h)
     THEN serving' = [serving EXCEPT ![h].pc = "rotate"] /\ UNCHANGED sync
     ELSE /\ serving' = [serving EXCEPT ![h] = Free]
          /\ IF Awaited(h) THEN sync' = [sync EXCEPT !.pc = Refused, !.handler = None]
             ELSE UNCHANGED sync
  /\ UNCHANGED <<tables, expired, desktop, user, lost, excuses>>

(* The rest of the transaction, whose commit lets go of the row.           *)
Rotate(h) ==
  /\ serving[h].pc = "rotate"
  /\ LET t == serving[h].token IN
       /\ IssueSession(issued[t])
       /\ ended' = ended \union {t}
       /\ granted' = granted \union ({issued[t]} \intersect revoked)
  /\ serving' = [serving EXCEPT ![h] = Free]
  /\ IF Awaited(h) THEN sync' = [sync EXCEPT !.pc = "store", !.token = NewToken, !.handler = None]
     ELSE UNCHANGED sync
  /\ UNCHANGED <<users, device, revoked, revoking, expired, desktop, user, lost, excuses>>

(* The server fails before the commit: the transaction is rolled back.     *)
RefreshFails(h) ==
  /\ serving[h].pc # "free"
  /\ lost < MaxLost
  /\ lost' = lost + 1
  /\ serving' = [serving EXCEPT ![h] = Free]
  /\ IF Awaited(h) THEN SyncEnds ELSE UNCHANGED sync
  /\ UNCHANGED <<tables, expired, desktop, user, excuses>>

(* No answer comes in time, or it is lost; the handler goes on.            *)
Unanswered ==
  /\ sync.pc = "await"
  /\ lost < MaxLost
  /\ lost' = lost + 1
  /\ excuses' = excuses \union {"lost"}
  /\ SyncEnds
  /\ UNCHANGED <<server, expired, desktop, user>>

(* The new refresh token replaces the old one, unless the answer is for    *)
(* another device than the session's. (Faulty variant: the old one stays.) *)
OldToken == sync.refresh
Refreshed == sync.token

StoreRefreshed ==
  /\ sync.pc = "store"
  /\ IF issued[sync.token] # sync.device
     THEN SyncGoto("invalidate") /\ UNCHANGED credential
     ELSE /\ credential' = [credential EXCEPT ![sync.account] = Refreshed]
          /\ SyncGoto("adopt")
  /\ UNCHANGED <<server, expired, session, user, lost, excuses>>

Adopt ==
  /\ sync.pc = "adopt"
  /\ IF session = None THEN SyncEnds /\ UNCHANGED session
     ELSE /\ session' = [session EXCEPT !.access = sync.token]
          /\ SyncGoto("send")
  /\ UNCHANGED <<server, expired, credential, user, lost, excuses>>

(* invalidate_session: the credential, then the state.                     *)
Invalidate ==
  /\ \/ /\ sync.pc = "invalidate"
        /\ credential' = [credential EXCEPT ![sync.account] = None]
        /\ SyncGoto("clear")
        /\ UNCHANGED session
     \/ /\ sync.pc = "clear"
        /\ session' = None
        /\ SyncEnds
        /\ UNCHANGED credential
  /\ UNCHANGED <<server, expired, user, lost, excuses>>

(* send_authorized: one refused request is repeated with a new token. What *)
(* the server took, sync_now goes on from, or it is at its end.            *)
Send ==
  /\ sync.pc = "send"
  /\ IF Authenticated(sync.token)
     THEN \/ sync' = [sync EXCEPT !.pc = "token", !.attempt = 1]
          \/ SyncEnds
     ELSE IF sync.attempt = 2 THEN SyncEnds
     ELSE sync' = [sync EXCEPT !.pc = "token", !.attempt = 2]
  /\ UNCHANGED <<server, expired, desktop, user, lost, excuses>>

SyncStep ==
  \/ SyncBegin \/ AccessToken \/ ReadCredential \/ Refresh
  \/ StoreRefreshed \/ Adopt \/ Invalidate \/ Send

RefreshStep(h) == RefreshSelect(h) \/ RefreshLock(h) \/ Rotate(h)
-----------------------------------------------------------------------------
(* The user: the interface offers login and registration without a session,*)
(* logout with one.                                                        *)

(* What a login or a logout crosses: a sync of the session before.         *)
Crossed == IF sync.pc = "off" THEN {} ELSE {"crossed"}

(* login and register, on the server: a new device with a session; the     *)
(* account must exist, or must not.                                        *)
SignIn ==
  /\ user.pc = "idle" /\ session = None
  /\ Count(device) < MaxDevices
  /\ \E a \in Accounts, op \in {"login", "register"} :
       /\ (op = "login") = (a \in users)  \* otherwise Unauthorized or Conflict
       /\ users' = users \union {a}
       /\ device' = Appended(device, a)
       /\ IssueSession(Count(device) + 1)
       /\ user' = [pc |-> "unlock credential", account |-> a, token |-> NewToken]
  /\ excuses' = excuses \union Crossed
  /\ UNCHANGED <<revoked, ended, revoking, granted, serving, expired, desktop, sync, lost>>

(* unlock: the credential first, then the state.                           *)
Unlock ==
  /\ \/ /\ user.pc = "unlock credential"
        /\ credential' = [credential EXCEPT ![user.account] = user.token]
        /\ user' = [user EXCEPT !.pc = "unlock state"]
        /\ UNCHANGED session
     \/ /\ user.pc = "unlock state"
        /\ session' = [account |-> user.account, device |-> issued[user.token],
                       access |-> user.token]
        /\ user' = Idle
        /\ UNCHANGED credential
  /\ UNCHANGED <<server, expired, sync, lost, excuses>>

(* logout_account: the server is told, if it can be reached; the credential*)
(* is deleted and the state cleared whatever it says. (Faulty variant: the *)
(* session is not ended.)                                                  *)
NotLoggedOut == {}
LoggedOut == {user.token}

LogoutBegin ==
  /\ user.pc = "idle" /\ session # None
  /\ user' = [pc |-> "logout", account |-> session.account,
              token |-> credential[session.account]]
  /\ excuses' = excuses \union Crossed
  /\ UNCHANGED <<server, expired, desktop, sync, lost>>

LogoutServer ==
  /\ user.pc = "logout"
  /\ \/ /\ user.token # None
        /\ user.token \notin RefreshLocks
        /\ ended' = ended \union LoggedOut
        /\ UNCHANGED <<lost, excuses>>
     \/ user.token = None /\ UNCHANGED <<ended, lost, excuses>>
     \/ /\ lost < MaxLost
        /\ lost' = lost + 1
        /\ excuses' = excuses \union {"lost"}
        /\ UNCHANGED ended
  /\ user' = [user EXCEPT !.pc = "logout credential"]
  /\ UNCHANGED <<users, device, revoked, issued, revoking, granted, serving, expired, desktop,
                 sync>>

LogoutLocal ==
  /\ \/ /\ user.pc = "logout credential"
        /\ credential' = [credential EXCEPT ![user.account] = None]
        /\ user' = [user EXCEPT !.pc = "logout state"]
        /\ UNCHANGED session
     \/ /\ user.pc = "logout state"
        /\ session' = None
        /\ user' = Idle
        /\ UNCHANGED credential
  /\ UNCHANGED <<server, expired, sync, lost, excuses>>

(* The application ends and is started again: what is in memory is gone;   *)
(* the server goes on.                                                     *)
Restart ==
  /\ lost < MaxLost
  /\ lost' = lost + 1
  /\ excuses' = excuses \union {"lost"}
  /\ session' = None
  /\ sync' = Off /\ user' = Idle
  /\ UNCHANGED <<server, expired, credential>>

UserStep == SignIn \/ Unlock \/ LogoutBegin \/ LogoutServer \/ LogoutLocal

Next ==
  \/ SyncStep \/ Unanswered \/ UserStep \/ Restart
  \/ \E h \in Handlers : RefreshStep(h) \/ RefreshFails(h)
  \/ RevokeBegin \/ RevokeCommit \/ Expire

Spec == Init /\ [][Next]_vars

(* The interface calls sync_now every thirty seconds while it shows a      *)
(* session; a logout or an unlock once begun runs to its end, and so do a  *)
(* refresh at the server and a revocation.                                 *)
FairSpec ==
  /\ Spec
  /\ WF_vars(SyncStep) /\ WF_vars(RevokeCommit)
  /\ \A h \in Handlers : WF_vars(RefreshStep(h))
  /\ WF_vars(Unlock) /\ WF_vars(LogoutServer) /\ WF_vars(LogoutLocal)
-----------------------------------------------------------------------------
Undisturbed == excuses = {}

(* Rotation takes an old refresh token away in the step that gives the new *)
(* one, and two refreshes with the same token wait for each other's row: no*)
(* device ever has two sessions that are not revoked.                      *)
OneLiveSession ==
  \A d \in DOMAIN device :
    Cardinality({t \in DOMAIN issued \ ended : issued[t] = d}) <= 1

(* A device that is revoked gets at most one more session, and only from a *)
(* refresh that had read the device before the revocation committed; that  *)
(* session, which the revocation cannot see, is of no use to get another.  *)
Late(h) == serving[h].active /\ issued[serving[h].token] \in revoked
RevokedGetsNoSession ==
  [][\A d \in revoked, t \in DOMAIN issued' \ DOMAIN issued :
       issued'[t] = d =>
         /\ d \notin granted
         /\ \E h \in Handlers : Late(h) /\ issued[serving[h].token] = d]_vars

(* The desktop throws the session away only when the device was revoked or *)
(* when an answer was lost, or a login or logout crossed a sync, before: a *)
(* refresh that nothing disturbs never signs the user out.                 *)
SignedOutForCause ==
  sync.pc = "invalidate" =>
    issued[sync.refresh] \in revoked \/ ~Undisturbed

(* At rest and undisturbed, the refresh token kept for the account is one  *)
(* the server still takes, of the device the desktop takes itself for.     *)
CredentialUsable ==
  /\ session # None /\ sync.pc = "off" /\ user.pc = "idle" /\ Undisturbed
  => LET t == credential[session.account] IN
       /\ t # None /\ issued[t] = session.device
       /\ t \notin ended \/ session.device \in revoked

(* After a logout that crossed no sync and reached the server, nothing is  *)
(* left to sign in with: no credential, and no session the server takes.   *)
NothingLeftSignedIn ==
  session = None /\ sync.pc = "off" /\ user.pc = "idle" /\ Undisturbed =>
    /\ \A a \in Accounts : credential[a] = None
    /\ \A t \in DOMAIN issued \ ended : issued[t] \in revoked

(* When the device of the session is revoked, the desktop signs the user   *)
(* out in the end, unless a login crossed the sync of an earlier session.  *)
RevokedSignsOut ==
  \A d \in Devices :
    (d \in revoked /\ session # None /\ session.device = d /\ "crossed" \notin excuses)
      ~> (session = None \/ session.device # d)
=============================================================================
