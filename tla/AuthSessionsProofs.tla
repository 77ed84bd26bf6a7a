--------------------------- MODULE AuthSessionsProofs ---------------------------
(***************************************************************************)
(* Theorems of AuthSessions, for any accounts, any number of devices and   *)
(* sessions, handlers, expiries and losses: its type invariant, its four   *)
(* safety properties of sessions and what a revoked device may still get.  *)
(***************************************************************************)
EXTENDS AuthSessions, FiniteSetTheorems, TLAPS

(* Devices and sessions are numbered in the order they were made.          *)
NumberInv ==
  /\ Count(device) \in Nat /\ DOMAIN device = 1 .. Count(device)
  /\ Count(issued) \in Nat /\ DOMAIN issued = 1 .. Count(issued)

(* What the locals of sync_now and of the user's command hold when they    *)
(* are used.                                                               *)
ControlInv ==
  /\ sync.pc \notin {"off", "token"} =>
       sync.account \in users /\ sync.device \in DOMAIN device /\ sync.token \in DOMAIN issued
  /\ sync.pc \in {"refresh", "await", "store", "adopt", "invalidate"} =>
       sync.refresh \in DOMAIN issued
  /\ user.pc # "idle" => user.account \in users
  /\ user.pc \in {"unlock credential", "unlock state"} => user.token \in DOMAIN issued

(* The handler that is waited for is at work on the token it was sent.     *)
AwaitInv ==
  sync.pc = "await" =>
    /\ sync.handler \in Handlers
    /\ serving[sync.handler].pc # "free" /\ serving[sync.handler].token = sync.refresh

(* Two live sessions are of two devices.                                   *)
LiveInv == \A t, u \in DOMAIN issued \ ended : issued[t] = issued[u] => t = u

(* What a handler of refresh knows: that a device it takes for revoked is, *)
(* and, of the session whose row it has locked, alone, that it is live.    *)
ServingInv ==
  /\ \A h \in Handlers : serving[h].pc # "free" => serving[h].token \in DOMAIN issued
  /\ \A h \in Handlers : serving[h].active => serving[h].pc \in {"lock", "rotate"}
  /\ \A h \in Handlers :
       serving[h].pc = "lock" /\ ~serving[h].active => issued[serving[h].token] \in revoked
  /\ \A h \in Handlers :
       serving[h].pc = "rotate" => serving[h].active /\ serving[h].token \notin ended
  /\ \A g, h \in Handlers :
       serving[g].pc = "rotate" /\ serving[h].pc = "rotate"
         /\ serving[g].token = serving[h].token => g = h

(* Once a revoked device was given a session, no handler is left that could*)
(* give it another.                                                        *)
GrantedInv ==
  \A h \in Handlers :
    serving[h].active /\ issued[serving[h].token] \in granted => serving[h].token \in ended

(* A revocation ends sessions of its device only.                          *)
SeenInv == revoking # None => \A t \in revoking.seen : issued[t] = revoking.device

ServerInv ==
  ServerTypeOK /\ ServingTypeOK /\ NumberInv /\ LiveInv /\ ServingInv /\ GrantedInv /\ SeenInv

IInv ==
  /\ ServerInv /\ DesktopTypeOK /\ SyncTypeOK /\ UserTypeOK /\ ControlInv /\ AwaitInv
  /\ lost \in 0 .. MaxLost /\ excuses \subseteq {"lost", "crossed"}
-----------------------------------------------------------------------------
(* A row is added at the end.                                              *)
LEMMA CountUpTo ==
  ASSUME NEW n \in Nat
  PROVE  Cardinality(1 .. n) = n
<1>1. 1 \in Int /\ n \in Int
  OBVIOUS
<1>2. Cardinality(1 .. n) = IF 1 > n THEN 0 ELSE n - 1 + 1
  BY <1>1, FS_Interval
<1>3. (IF 1 > n THEN 0 ELSE n - 1 + 1) = n
  OBVIOUS
<1> QED
  BY <1>2, <1>3

LEMMA AppendedFacts ==
  ASSUME NEW f, NEW v, Count(f) \in Nat, DOMAIN f = 1 .. Count(f)
  PROVE  /\ DOMAIN Appended(f, v) = 1 .. Count(f) + 1
         /\ Count(Appended(f, v)) = Count(f) + 1
         /\ \A n \in DOMAIN f : n \in DOMAIN Appended(f, v) /\ Appended(f, v)[n] = f[n]
         /\ Count(f) + 1 \notin DOMAIN f
         /\ Count(f) + 1 \in DOMAIN Appended(f, v)
         /\ Appended(f, v)[Count(f) + 1] = v
         /\ \A n \in DOMAIN Appended(f, v) : n \in DOMAIN f \/ n = Count(f) + 1
<1> DEFINE c == Count(f)
<1>1. /\ DOMAIN Appended(f, v) = 1 .. c + 1
      /\ \A n \in 1 .. c + 1 : Appended(f, v)[n] = IF n \in DOMAIN f THEN f[n] ELSE v
  BY DEF Appended
<1> HIDE DEF c
<1>2. c \in Nat /\ DOMAIN f = 1 .. c
  BY DEF c
<1>3. c + 1 \in Nat
  BY <1>2
<1>4. Count(Appended(f, v)) = c + 1
  BY <1>1, <1>3, CountUpTo DEF Count
<1>5. /\ \A n \in 1 .. c : n \in 1 .. c + 1
      /\ c + 1 \notin 1 .. c /\ c + 1 \in 1 .. c + 1
      /\ \A n \in 1 .. c + 1 : n \in 1 .. c \/ n = c + 1
  BY <1>2
<1> QED
  BY <1>1, <1>2, <1>4, <1>5 DEF c
-----------------------------------------------------------------------------
(* The inductive step. First, the steps of sync_now that leave the server  *)
(* as it is: sync_now ends, or goes on with the locals it has.             *)
ServerStays == UNCHANGED <<server, expired>>
NamesStay == UNCHANGED <<users, device, issued>>
CountersTyped == lost' \in 0 .. MaxLost /\ excuses' \subseteq {"lost", "crossed"}

LEMMA ServerSame ==
  ASSUME IInv, ServerStays
  PROVE  ServerInv' /\ NamesStay /\ UNCHANGED serving
<1>1. UNCHANGED <<users, device, revoked, issued, ended, revoking, granted, serving, expired>>
  BY DEF ServerStays, server, tables
<1>2. ServerTypeOK' /\ ServingTypeOK' /\ NumberInv'
  BY <1>1 DEF IInv, ServerInv, ServerTypeOK, ServingTypeOK, NumberInv, Count
<1>3. LiveInv' /\ ServingInv' /\ GrantedInv' /\ SeenInv'
  BY <1>1 DEF IInv, ServerInv, LiveInv, ServingInv, GrantedInv, SeenInv
<1> QED
  BY <1>1, <1>2, <1>3 DEF ServerInv, NamesStay

LEMMA CountersStay ==
  ASSUME IInv, lost' = lost \/ (lost < MaxLost /\ lost' = lost + 1),
         excuses' \subseteq excuses \union {"lost", "crossed"}
  PROVE  CountersTyped
<1>1. lost \in 0 .. MaxLost /\ MaxLost \in Nat
  BY SessionsAssumption DEF IInv
<1>2. lost' \in 0 .. MaxLost
  BY <1>1
<1> QED
  BY <1>2 DEF IInv, CountersTyped

LEMMA SyncLeaves ==
  ASSUME IInv, ServerInv', NamesStay, UNCHANGED user, DesktopTypeOK', CountersTyped, sync' = Off
  PROVE  IInv'
<1>1. /\ sync'.pc = "off" /\ SyncTypeOK'
  BY DEF Off, SyncTypeOK, SyncPc
<1>2. UserTypeOK'
  BY DEF IInv, UserTypeOK, NamesStay
<1>3. ControlInv' /\ AwaitInv'
  BY <1>1 DEF IInv, ControlInv, AwaitInv, NamesStay
<1> QED
  BY <1>1, <1>2, <1>3 DEF IInv, CountersTyped

LEMMA SyncMoves ==
  ASSUME IInv, ServerInv', NamesStay, UNCHANGED user, DesktopTypeOK', CountersTyped, SyncTypeOK',
         AwaitInv',
         sync'.pc \notin {"off", "token"} =>
           /\ sync.pc \notin {"off", "token"}
           /\ sync'.account = sync.account /\ sync'.device = sync.device,
         sync'.token = sync.token, sync'.refresh = sync.refresh,
         sync'.pc \in {"refresh", "await", "store", "adopt", "invalidate"} =>
           sync.pc \in {"refresh", "await", "store", "adopt", "invalidate"}
  PROVE  IInv'
<1>1. UserTypeOK'
  BY DEF IInv, UserTypeOK, NamesStay
<1>2. ControlInv'
  BY DEF IInv, ControlInv, NamesStay
<1> QED
  BY <1>1, <1>2 DEF IInv, CountersTyped

LEMMA SyncBeginKeeps ==
  ASSUME IInv, SyncBegin
  PROVE  IInv'
<1>1. ServerStays /\ UNCHANGED user /\ DesktopTypeOK' /\ CountersTyped
  BY DEF IInv, DesktopTypeOK, SyncBegin, ServerStays, CountersTyped, server, tables, desktop
<1>2. sync'.pc = "token" /\ SyncTypeOK'
  BY DEF SyncBegin, SyncTypeOK, SyncPc, Off
<1>3. ServerInv' /\ UserTypeOK'
  BY <1>1, ServerSame DEF IInv, UserTypeOK, NamesStay
<1>4. ControlInv' /\ AwaitInv'
  BY <1>1, <1>2 DEF IInv, ControlInv, AwaitInv, ServerStays, server, tables
<1> QED
  BY <1>1, <1>2, <1>3, <1>4 DEF IInv, CountersTyped

LEMMA AccessTokenKeeps ==
  ASSUME IInv, AccessToken
  PROVE  IInv'
<1>1. ServerStays /\ UNCHANGED user /\ DesktopTypeOK' /\ CountersTyped
  BY DEF IInv, DesktopTypeOK, AccessToken, ServerStays, CountersTyped, server, tables, desktop
<1>2. CASE sync' = Off
  BY <1>1, <1>2, ServerSame, SyncLeaves
<1>3. ASSUME session # None, NEW p \in {"credential", "send"},
             sync' = [sync EXCEPT !.pc = p, !.account = session.account,
                                  !.device = session.device, !.token = session.access]
      PROVE  IInv'
  <2>1. /\ session.account \in users /\ session.device \in DOMAIN device
        /\ session.access \in DOMAIN issued
    BY <1>3 DEF IInv, DesktopTypeOK
  <2>2. UNCHANGED <<users, device, issued>>
    BY <1>1 DEF ServerStays, server, tables
  <2>3. /\ SyncTypeOK' /\ sync'.pc = p
        /\ sync'.account = session.account /\ sync'.device = session.device
        /\ sync'.token = session.access
    BY <1>3, <2>1, <2>2 DEF IInv, SyncTypeOK, SyncPc
  <2>4. ServerInv' /\ UserTypeOK'
    BY <1>1, ServerSame DEF IInv, UserTypeOK, NamesStay
  <2>5. ControlInv' /\ AwaitInv'
    BY <1>1, <2>1, <2>3 DEF IInv, ControlInv, AwaitInv, ServerStays, server, tables
  <2> QED
    BY <1>1, <2>3, <2>4, <2>5 DEF IInv, CountersTyped
<1> QED
  BY <1>2, <1>3 DEF AccessToken, SyncEnds

LEMMA ReadCredentialKeeps ==
  ASSUME IInv, ReadCredential
  PROVE  IInv'
<1>1. ServerStays /\ UNCHANGED user /\ DesktopTypeOK' /\ CountersTyped
  BY DEF IInv, DesktopTypeOK, ReadCredential, ServerStays, CountersTyped, server, tables, desktop
<1>2. CASE sync' = Off
  BY <1>1, <1>2, ServerSame, SyncLeaves
<1>3. CASE /\ credential[sync.account] # None
           /\ sync' = [sync EXCEPT !.pc = "refresh", !.refresh = credential[sync.account]]
  <2>1. /\ sync.pc = "credential" /\ sync.account \in users
        /\ credential[sync.account] \in DOMAIN issued
    BY <1>3 DEF IInv, ServerInv, ServerTypeOK, DesktopTypeOK, ControlInv, ReadCredential
  <2>2. UNCHANGED <<users, device, issued>>
    BY <1>1 DEF ServerStays, server, tables
  <2>3. /\ SyncTypeOK' /\ sync'.pc = "refresh" /\ sync'.refresh = credential[sync.account]
        /\ sync'.account = sync.account /\ sync'.device = sync.device
        /\ sync'.token = sync.token
    BY <1>3, <2>1, <2>2 DEF IInv, SyncTypeOK, SyncPc
  <2>4. ServerInv' /\ UserTypeOK'
    BY <1>1, ServerSame DEF IInv, UserTypeOK, NamesStay
  <2>5. ControlInv' /\ AwaitInv'
    BY <1>1, <2>1, <2>3 DEF IInv, ControlInv, AwaitInv, ServerStays, server, tables
  <2> QED
    BY <1>1, <2>3, <2>4, <2>5 DEF IInv, CountersTyped
<1> QED
  BY <1>2, <1>3 DEF ReadCredential, SyncEnds

LEMMA StoreRefreshedKeeps ==
  ASSUME IInv, StoreRefreshed
  PROVE  IInv'
<1>1. sync.pc = "store" /\ sync.token \in DOMAIN issued
  BY DEF IInv, ControlInv, StoreRefreshed
<1>2. ServerStays /\ UNCHANGED user /\ DesktopTypeOK' /\ CountersTyped
  BY <1>1 DEF IInv, DesktopTypeOK, StoreRefreshed, Refreshed, ServerStays, CountersTyped,
              server, tables
<1>3. ASSUME NEW p \in {"adopt", "invalidate"}, sync' = [sync EXCEPT !.pc = p]
      PROVE  IInv'
  <2>1. /\ SyncTypeOK' /\ sync'.pc = p /\ sync'.account = sync.account
        /\ sync'.device = sync.device /\ sync'.token = sync.token /\ sync'.refresh = sync.refresh
    BY <1>2, <1>3 DEF IInv, SyncTypeOK, SyncPc, ServerStays, server, tables
  <2> QED
    BY <1>1, <1>2, <2>1, ServerSame, SyncMoves DEF AwaitInv
<1> QED
  BY <1>3 DEF StoreRefreshed, SyncGoto

LEMMA AdoptKeeps ==
  ASSUME IInv, Adopt
  PROVE  IInv'
<1>1. sync.pc = "adopt" /\ sync.token \in DOMAIN issued
  BY DEF IInv, ControlInv, Adopt
<1>2. ServerStays /\ UNCHANGED user /\ CountersTyped
  BY DEF IInv, Adopt, ServerStays, CountersTyped, server, tables
<1>3. DesktopTypeOK'
  BY <1>1 DEF IInv, DesktopTypeOK, Adopt, server, tables
<1>4. CASE sync' = Off
  BY <1>2, <1>3, <1>4, ServerSame, SyncLeaves
<1>5. CASE sync' = [sync EXCEPT !.pc = "send"]
  <2>1. /\ SyncTypeOK' /\ sync'.pc = "send" /\ sync'.account = sync.account
        /\ sync'.device = sync.device /\ sync'.token = sync.token /\ sync'.refresh = sync.refresh
    BY <1>2, <1>5 DEF IInv, SyncTypeOK, SyncPc, ServerStays, server, tables
  <2> QED
    BY <1>1, <1>2, <1>3, <2>1, ServerSame, SyncMoves DEF AwaitInv
<1> QED
  BY <1>4, <1>5 DEF Adopt, SyncGoto, SyncEnds

LEMMA InvalidateKeeps ==
  ASSUME IInv, Invalidate
  PROVE  IInv'
<1>1. ServerStays /\ UNCHANGED user /\ CountersTyped
  BY DEF IInv, Invalidate, ServerStays, CountersTyped, server, tables
<1>2. DesktopTypeOK'
  BY DEF IInv, DesktopTypeOK, Invalidate, server, tables
<1>3. CASE sync' = Off
  BY <1>1, <1>2, <1>3, ServerSame, SyncLeaves
<1>4. CASE sync.pc = "invalidate" /\ sync' = [sync EXCEPT !.pc = "clear"]
  <2>1. /\ SyncTypeOK' /\ sync'.pc = "clear" /\ sync'.account = sync.account
        /\ sync'.device = sync.device /\ sync'.token = sync.token /\ sync'.refresh = sync.refresh
    BY <1>1, <1>4 DEF IInv, SyncTypeOK, SyncPc, ServerStays, server, tables
  <2> QED
    BY <1>1, <1>2, <1>4, <2>1, ServerSame, SyncMoves DEF AwaitInv
<1> QED
  BY <1>3, <1>4 DEF Invalidate, SyncGoto, SyncEnds

LEMMA SendKeeps ==
  ASSUME IInv, Send
  PROVE  IInv'
<1>1. ServerStays /\ UNCHANGED user /\ DesktopTypeOK' /\ CountersTyped
  BY DEF IInv, DesktopTypeOK, Send, ServerStays, CountersTyped, server, tables, desktop
<1>2. CASE sync' = Off
  BY <1>1, <1>2, ServerSame, SyncLeaves
<1>3. ASSUME NEW n \in {1, 2}, sync' = [sync EXCEPT !.pc = "token", !.attempt = n]
      PROVE  IInv'
  <2>1. /\ SyncTypeOK' /\ sync'.pc = "token"
        /\ sync'.token = sync.token /\ sync'.refresh = sync.refresh
    BY <1>1, <1>3 DEF IInv, SyncTypeOK, SyncPc, ServerStays, server, tables
  <2> QED
    BY <1>1, <2>1, ServerSame, SyncMoves DEF AwaitInv
<1> QED
  BY <1>2, <1>3 DEF Send, SyncEnds
-----------------------------------------------------------------------------
(* The steps of one handler of refresh that leave the tables as they are.  *)
HandlerRecord == [pc : {"free", "select", "lock", "rotate"},
                  token : DOMAIN issued \union {None}, active : BOOLEAN]

LEMMA HandlerMoves ==
  ASSUME IInv, UNCHANGED <<tables, expired>>, NEW h \in Handlers, NEW r \in HandlerRecord,
         serving' = [serving EXCEPT ![h] = r],
         r.pc # "free" => r.token \in DOMAIN issued,
         r.active => r.pc \in {"lock", "rotate"},
         r.pc = "lock" /\ ~r.active => issued[r.token] \in revoked,
         r.pc = "rotate" => r.active /\ r.token \notin ended /\ r.token \notin RefreshLocks,
         r.active /\ issued[r.token] \in granted => r.token \in ended
  PROVE  /\ ServerInv' /\ NamesStay
         /\ serving'[h] = r /\ \A g \in Handlers \ {h} : serving'[g] = serving[g]
<1>1. UNCHANGED <<users, device, revoked, issued, ended, revoking, granted, expired>>
  BY DEF tables
<1>2. /\ serving'[h] = r /\ \A g \in Handlers \ {h} : serving'[g] = serving[g]
      /\ ServingTypeOK'
  BY <1>1 DEF IInv, ServerInv, ServingTypeOK, HandlerRecord
<1>3. ServerTypeOK' /\ NumberInv' /\ LiveInv' /\ SeenInv'
  BY <1>1 DEF IInv, ServerInv, ServerTypeOK, NumberInv, Count, LiveInv, SeenInv
<1>4. \A g \in Handlers : serving[g].pc = "rotate" => serving[g].token \in RefreshLocks
  BY DEF RefreshLocks
<1>5. ServingInv'
  BY <1>1, <1>2, <1>4 DEF IInv, ServerInv, ServingInv
<1>6. GrantedInv'
  BY <1>1, <1>2 DEF IInv, ServerInv, GrantedInv
<1> QED
  BY <1>1, <1>2, <1>3, <1>5, <1>6 DEF ServerInv, NamesStay

LEMMA FreeIsRecord == Free \in HandlerRecord /\ Free.pc = "free" /\ ~Free.active
BY DEF Free, HandlerRecord

(* sync_now goes on as it is, while a handler that it does not wait for    *)
(* moves.                                                                  *)
LEMMA SyncStays ==
  ASSUME IInv, ServerInv', NamesStay, UNCHANGED <<sync, user, credential, session>>,
         CountersTyped, NEW h \in Handlers,
         \A g \in Handlers \ {h} : serving'[g] = serving[g],
         Awaited(h) => serving'[h].pc # "free" /\ serving'[h].token = serving[h].token
  PROVE  IInv'
<1>1. DesktopTypeOK' /\ SyncTypeOK' /\ UserTypeOK'
  BY DEF IInv, DesktopTypeOK, SyncTypeOK, UserTypeOK, NamesStay
<1>2. ControlInv' /\ AwaitInv'
  BY DEF IInv, ControlInv, AwaitInv, Awaited, NamesStay
<1> QED
  BY <1>1, <1>2 DEF IInv, CountersTyped

LEMMA FreeHandlerFacts ==
  ASSUME NEW h \in FreeHandler
  PROVE  h \in Handlers /\ serving[h].pc = "free"
BY DEF FreeHandler

LEMMA RefreshKeeps ==
  ASSUME IInv, Refresh
  PROVE  IInv'
<1>1. UNCHANGED <<tables, expired, credential, session, user, excuses>> /\ sync.pc = "refresh"
  BY DEF Refresh, desktop
<1>2. CountersTyped
  BY CountersStay DEF Refresh
<1>3. CASE UNCHANGED serving /\ sync' = Off
  <2>1. ServerStays
    BY <1>1, <1>3 DEF ServerStays, server
  <2>2. DesktopTypeOK'
    BY <1>1, <2>1, ServerSame DEF IInv, DesktopTypeOK, NamesStay
  <2> QED
    BY <1>1, <1>2, <1>3, <2>1, <2>2, ServerSame, SyncLeaves
<1>4. ASSUME NEW h \in FreeHandler,
             serving' = [serving EXCEPT ![h] =
                          [pc |-> "select", token |-> sync.refresh, active |-> FALSE]],
             sync' = [sync EXCEPT !.pc = "await", !.handler = h]
      PROVE  IInv'
  <2> DEFINE r == [pc |-> "select", token |-> sync.refresh, active |-> FALSE]
  <2>1. sync.refresh \in DOMAIN issued /\ h \in Handlers
    BY <1>1, <1>4, FreeHandlerFacts DEF IInv, ControlInv
  <2>2. /\ r \in HandlerRecord /\ r.pc = "select" /\ r.token = sync.refresh /\ ~r.active
        /\ serving' = [serving EXCEPT ![h] = r]
    BY <1>4, <2>1 DEF HandlerRecord
  <2> HIDE DEF r
  <2>3. ServerInv' /\ NamesStay /\ serving'[h] = r
    BY <1>1, <2>1, <2>2, HandlerMoves
  <2>4. /\ SyncTypeOK' /\ sync'.pc = "await" /\ sync'.handler = h
        /\ sync'.account = sync.account /\ sync'.device = sync.device
        /\ sync'.token = sync.token /\ sync'.refresh = sync.refresh
    BY <1>4, <2>1, <2>3 DEF IInv, SyncTypeOK, SyncPc, NamesStay
  <2>5. AwaitInv'
    BY <2>1, <2>2, <2>3, <2>4 DEF AwaitInv
  <2>6. DesktopTypeOK'
    BY <1>1, <2>3 DEF IInv, DesktopTypeOK, NamesStay
  <2> QED
    BY <1>1, <1>2, <2>3, <2>4, <2>5, <2>6, SyncMoves
<1> QED
  BY <1>3, <1>4 DEF Refresh, SyncEnds

LEMMA RefreshSelectKeeps ==
  ASSUME IInv, NEW h \in Handlers, RefreshSelect(h)
  PROVE  IInv'
<1> DEFINE t == serving[h].token
           r == [serving[h] EXCEPT !.pc = "lock", !.active = issued[t] \notin revoked]
<1>1. /\ UNCHANGED <<tables, expired, credential, session, sync, user, lost, excuses>>
      /\ serving[h].pc = "select" /\ serving' = [serving EXCEPT ![h] = r]
  BY DEF RefreshSelect, desktop
<1>2. /\ serving[h] \in HandlerRecord /\ t \in DOMAIN issued
  BY <1>1 DEF IInv, ServerInv, ServingTypeOK, ServingInv, HandlerRecord
<1>3. /\ r \in HandlerRecord /\ r.pc = "lock" /\ r.token = t
      /\ r.active = (issued[t] \notin revoked)
  BY <1>2 DEF HandlerRecord
<1> HIDE DEF r
<1>4. granted \subseteq revoked
  BY DEF IInv, ServerInv, ServerTypeOK
<1>5. /\ ServerInv' /\ NamesStay
      /\ serving'[h] = r /\ \A g \in Handlers \ {h} : serving'[g] = serving[g]
  BY <1>1, <1>2, <1>3, <1>4, HandlerMoves
<1>6. CountersTyped
  BY <1>1, CountersStay
<1> QED
  BY <1>1, <1>3, <1>5, <1>6, SyncStays

LEMMA RefreshLockKeeps ==
  ASSUME IInv, NEW h \in Handlers, RefreshLock(h)
  PROVE  IInv'
<1>1. /\ UNCHANGED <<tables, expired, credential, session, user, lost, excuses>>
      /\ serving[h].pc = "lock" /\ serving[h].token \notin RefreshLocks
  BY DEF RefreshLock, desktop
<1>2. /\ serving[h] \in HandlerRecord /\ serving[h].token \in DOMAIN issued
  BY <1>1 DEF IInv, ServerInv, ServingTypeOK, ServingInv, HandlerRecord
<1>3. CountersTyped
  BY <1>1, CountersStay
<1>4. CASE MayRotate(h)
  <2> DEFINE r == [serving[h] EXCEPT !.pc = "rotate"]
  <2>1. serving' = [serving EXCEPT ![h] = r] /\ UNCHANGED sync
    BY <1>4 DEF RefreshLock
  <2>2. /\ r \in HandlerRecord /\ r.pc = "rotate" /\ r.token = serving[h].token /\ r.active
        /\ r.token \notin ended
    BY <1>2, <1>4 DEF HandlerRecord, MayRotate
  <2>3. issued[r.token] \in granted => r.token \in ended
    BY <1>4, <2>2 DEF IInv, ServerInv, GrantedInv, MayRotate
  <2> HIDE DEF r
  <2>4. /\ ServerInv' /\ NamesStay
        /\ serving'[h] = r /\ \A g \in Handlers \ {h} : serving'[g] = serving[g]
    BY <1>1, <1>2, <2>1, <2>2, <2>3, HandlerMoves
  <2> QED
    BY <1>1, <1>3, <2>1, <2>2, <2>4, SyncStays
<1>5. CASE ~MayRotate(h)
  <2>1. /\ serving' = [serving EXCEPT ![h] = Free]
        /\ IF Awaited(h) THEN sync' = [sync EXCEPT !.pc = "invalidate", !.handler = None]
           ELSE UNCHANGED sync
    BY <1>5 DEF RefreshLock, Refused
  <2>2. /\ ServerInv' /\ NamesStay
        /\ \A g \in Handlers \ {h} : serving'[g] = serving[g]
    BY <1>1, <2>1, FreeIsRecord, HandlerMoves
  <2>3. CASE ~Awaited(h)
    BY <1>1, <1>3, <2>1, <2>2, <2>3, SyncStays
  <2>4. CASE Awaited(h)
    <3>1. /\ SyncTypeOK' /\ sync'.pc = "invalidate" /\ sync.pc = "await"
          /\ sync'.account = sync.account /\ sync'.device = sync.device
          /\ sync'.token = sync.token /\ sync'.refresh = sync.refresh
      <4>1. sync' = [sync EXCEPT !.pc = "invalidate", !.handler = None] /\ sync.pc = "await"
        BY <2>1, <2>4 DEF Awaited
      <4>2. /\ sync'.pc = "invalidate"
            /\ sync'.account = sync.account /\ sync'.device = sync.device
            /\ sync'.token = sync.token /\ sync'.refresh = sync.refresh
        BY <4>1 DEF IInv, SyncTypeOK
      <4>3. SyncTypeOK'
        BY <2>2, <4>1 DEF IInv, SyncTypeOK, SyncPc, NamesStay
      <4> QED
        BY <4>1, <4>2, <4>3
    <3>2. DesktopTypeOK' /\ AwaitInv'
      BY <1>1, <2>2, <3>1 DEF IInv, DesktopTypeOK, NamesStay, AwaitInv
    <3> QED
      BY <1>1, <1>3, <2>2, <3>1, <3>2, SyncMoves
  <2> QED
    BY <2>3, <2>4
<1> QED
  BY <1>4, <1>5

LEMMA RefreshFailsKeeps ==
  ASSUME IInv, NEW h \in Handlers, RefreshFails(h)
  PROVE  IInv'
<1>1. /\ UNCHANGED <<tables, expired, credential, session, user, excuses>>
      /\ serving' = [serving EXCEPT ![h] = Free]
      /\ IF Awaited(h) THEN sync' = Off ELSE UNCHANGED sync
  BY DEF RefreshFails, desktop, SyncEnds
<1>2. CountersTyped
  BY CountersStay DEF RefreshFails
<1>3. /\ ServerInv' /\ NamesStay
      /\ \A g \in Handlers \ {h} : serving'[g] = serving[g]
  BY <1>1, FreeIsRecord, HandlerMoves
<1>4. CASE ~Awaited(h)
  BY <1>1, <1>2, <1>3, <1>4, SyncStays
<1>5. CASE Awaited(h)
  <2>1. DesktopTypeOK'
    BY <1>1, <1>3 DEF IInv, DesktopTypeOK, NamesStay
  <2> QED
    BY <1>1, <1>2, <1>3, <1>5, <2>1, SyncLeaves
<1> QED
  BY <1>4, <1>5

LEMMA UnansweredKeeps ==
  ASSUME IInv, Unanswered
  PROVE  IInv'
<1>1. ServerStays /\ UNCHANGED <<user, credential, session>> /\ sync' = Off
  BY DEF Unanswered, ServerStays, desktop, SyncEnds
<1>2. CountersTyped
  BY CountersStay DEF Unanswered
<1>3. DesktopTypeOK'
  BY <1>1, ServerSame DEF IInv, DesktopTypeOK, NamesStay
<1> QED
  BY <1>1, <1>2, <1>3, ServerSame, SyncLeaves
-----------------------------------------------------------------------------
(* The steps of the user that leave the server as it is.                   *)
LEMMA UserMoves ==
  ASSUME IInv, ServerStays, UNCHANGED sync, DesktopTypeOK', UserTypeOK', CountersTyped,
         user'.pc # "idle" => user'.account \in users,
         user'.pc \in {"unlock credential", "unlock state"} => user'.token \in DOMAIN issued
  PROVE  IInv'
<1>1. ServerInv' /\ SyncTypeOK'
  BY ServerSame DEF IInv, SyncTypeOK, NamesStay
<1>2. ControlInv' /\ AwaitInv'
  BY ServerSame DEF IInv, ControlInv, AwaitInv, NamesStay
<1> QED
  BY <1>1, <1>2 DEF IInv, CountersTyped

LEMMA IdleTyped ==
  ASSUME user' = Idle
  PROVE  UserTypeOK' /\ user'.pc = "idle"
BY DEF UserTypeOK, UserPc, Idle

LEMMA UserStays ==
  ASSUME IInv, ServerStays, NEW p \in UserPc, user' = [user EXCEPT !.pc = p]
  PROVE  /\ UserTypeOK' /\ user'.pc = p
         /\ user'.account = user.account /\ user'.token = user.token
BY DEF IInv, UserTypeOK, UserPc, ServerStays, server, tables

LEMMA UnlockKeeps ==
  ASSUME IInv, Unlock
  PROVE  IInv'
<1>1. ServerStays /\ UNCHANGED sync /\ CountersTyped
  BY DEF IInv, Unlock, ServerStays, CountersTyped
<1>2. user.account \in users /\ user.account \in Accounts /\ user.token \in DOMAIN issued
  BY DEF IInv, ServerInv, ServerTypeOK, ControlInv, Unlock
<1>3. UNCHANGED <<users, device, issued>>
  BY <1>1 DEF ServerStays, server, tables
<1>4. CASE /\ credential' = [credential EXCEPT ![user.account] = user.token]
           /\ user' = [user EXCEPT !.pc = "unlock state"] /\ UNCHANGED session
  <2>1. DesktopTypeOK'
    BY <1>2, <1>3, <1>4 DEF IInv, DesktopTypeOK
  <2>2. "unlock state" \in UserPc
    BY DEF UserPc
  <2>3. /\ UserTypeOK' /\ user'.account = user.account /\ user'.token = user.token
    BY <1>1, <1>4, <2>2, UserStays
  <2> QED
    BY <1>1, <1>2, <2>1, <2>3, UserMoves
<1>5. CASE /\ session' = [account |-> user.account, device |-> issued[user.token],
                          access |-> user.token]
           /\ user' = Idle /\ UNCHANGED credential
  <2>1. issued[user.token] \in DOMAIN device
    BY <1>2 DEF IInv, ServerInv, ServerTypeOK
  <2>2. DesktopTypeOK'
    BY <1>2, <1>3, <1>5, <2>1 DEF IInv, DesktopTypeOK
  <2> QED
    BY <1>1, <1>5, <2>2, IdleTyped, UserMoves
<1> QED
  BY <1>4, <1>5 DEF Unlock

LEMMA LogoutBeginKeeps ==
  ASSUME IInv, LogoutBegin
  PROVE  IInv'
<1>1. ServerStays /\ UNCHANGED <<sync, credential, session>>
  BY DEF LogoutBegin, ServerStays, desktop
<1>2. CountersTyped
  BY DEF IInv, LogoutBegin, Crossed, CountersTyped
<1>3. /\ session.account \in users /\ session.account \in Accounts
      /\ credential[session.account] \in DOMAIN issued \union {None}
  BY DEF IInv, ServerInv, ServerTypeOK, DesktopTypeOK, LogoutBegin
<1>4. DesktopTypeOK'
  BY <1>1 DEF IInv, DesktopTypeOK, ServerStays, server, tables
<1>5. UserTypeOK' /\ user'.pc = "logout" /\ user'.account = session.account
  BY <1>1, <1>3 DEF LogoutBegin, UserTypeOK, UserPc, ServerStays, server, tables
<1> QED
  BY <1>1, <1>2, <1>3, <1>4, <1>5, UserMoves

LEMMA LogoutLocalKeeps ==
  ASSUME IInv, LogoutLocal
  PROVE  IInv'
<1>1. ServerStays /\ UNCHANGED sync /\ CountersTyped
  BY DEF IInv, LogoutLocal, ServerStays, CountersTyped
<1>2. DesktopTypeOK'
  BY DEF IInv, DesktopTypeOK, LogoutLocal, server, tables
<1>3. CASE user' = Idle
  BY <1>1, <1>2, <1>3, IdleTyped, UserMoves
<1>4. CASE user.pc = "logout credential" /\ user' = [user EXCEPT !.pc = "logout state"]
  <2>1. "logout state" \in UserPc
    BY DEF UserPc
  <2>2. /\ UserTypeOK' /\ user'.pc = "logout state" /\ user'.account = user.account
    BY <1>1, <1>4, <2>1, UserStays
  <2>3. user.account \in users
    BY <1>4 DEF IInv, ControlInv
  <2> QED
    BY <1>1, <1>2, <2>2, <2>3, UserMoves
<1> QED
  BY <1>3, <1>4 DEF LogoutLocal
-----------------------------------------------------------------------------
(* The steps that change the server. What was issued stays, so that what   *)
(* names a device or a session goes on to do so.                           *)
LEMMA RestStays ==
  ASSUME IInv, NamesStay, UNCHANGED <<serving, credential, session, sync, user>>
  PROVE  DesktopTypeOK' /\ SyncTypeOK' /\ UserTypeOK' /\ ControlInv' /\ AwaitInv'
<1>1. DesktopTypeOK' /\ SyncTypeOK' /\ UserTypeOK'
  BY DEF IInv, DesktopTypeOK, SyncTypeOK, UserTypeOK, NamesStay
<1>2. ControlInv' /\ AwaitInv'
  BY DEF IInv, ControlInv, AwaitInv, NamesStay
<1> QED
  BY <1>1, <1>2

LEMMA RevokeBeginKeeps ==
  ASSUME IInv, RevokeBegin
  PROVE  IInv'
<1>1. UNCHANGED <<users, device, revoked, issued, ended, granted, serving, expired, credential,
                  session, sync, user, lost, excuses>>
  BY DEF RevokeBegin, desktop
<1>2. PICK d \in DOMAIN device :
        revoking' = [device |-> d, seen |-> {t \in DOMAIN issued : issued[t] = d}]
  BY DEF RevokeBegin
<1>3. ServerTypeOK' /\ SeenInv'
  BY <1>1, <1>2 DEF IInv, ServerInv, ServerTypeOK, SeenInv
<1>4. ServingTypeOK' /\ NumberInv' /\ LiveInv' /\ ServingInv' /\ GrantedInv'
  BY <1>1 DEF IInv, ServerInv, ServingTypeOK, NumberInv, Count, LiveInv, ServingInv, GrantedInv
<1>5. DesktopTypeOK' /\ SyncTypeOK' /\ UserTypeOK' /\ ControlInv' /\ AwaitInv'
  BY <1>1, RestStays DEF NamesStay
<1> QED
  BY <1>1, <1>3, <1>4, <1>5 DEF IInv, ServerInv

LEMMA RevokeCommitKeeps ==
  ASSUME IInv, RevokeCommit
  PROVE  IInv'
<1>1. UNCHANGED <<users, device, issued, granted, serving, expired, credential, session, sync,
                  user, lost, excuses>>
  BY DEF RevokeCommit, desktop
<1>2. /\ revoking.device \in DOMAIN device /\ revoking.seen \subseteq DOMAIN issued
      /\ revoked' = revoked \union {revoking.device} /\ ended' = ended \union revoking.seen
      /\ revoking' = None
  BY DEF IInv, ServerInv, ServerTypeOK, RevokeCommit
<1>3. ServerTypeOK' /\ SeenInv'
  BY <1>1, <1>2 DEF IInv, ServerInv, ServerTypeOK, SeenInv
<1>4. ServingTypeOK' /\ NumberInv' /\ LiveInv'
  BY <1>1, <1>2 DEF IInv, ServerInv, ServingTypeOK, NumberInv, Count, LiveInv
<1>5. \A h \in Handlers : serving[h].pc = "rotate" => serving[h].token \notin revoking.seen
  BY DEF RevokeCommit, RefreshLocks
<1>6. ServingInv' /\ GrantedInv'
  BY <1>1, <1>2, <1>5 DEF IInv, ServerInv, ServingInv, GrantedInv
<1>7. DesktopTypeOK' /\ SyncTypeOK' /\ UserTypeOK' /\ ControlInv' /\ AwaitInv'
  BY <1>1, RestStays DEF NamesStay
<1> QED
  BY <1>1, <1>3, <1>4, <1>6, <1>7 DEF IInv, ServerInv

LEMMA ExpireKeeps ==
  ASSUME IInv, Expire
  PROVE  IInv'
<1>1. UNCHANGED <<users, device, revoked, issued, ended, revoking, granted, serving, credential,
                  session, sync, user, lost, excuses>>
  BY DEF Expire, server, tables, desktop
<1>2. expired' \subseteq DOMAIN issued
  BY DEF IInv, ServerInv, ServerTypeOK, Expire
<1>3. ServerTypeOK' /\ SeenInv'
  BY <1>1, <1>2 DEF IInv, ServerInv, ServerTypeOK, SeenInv
<1>4. ServingTypeOK' /\ NumberInv' /\ LiveInv' /\ ServingInv' /\ GrantedInv'
  BY <1>1 DEF IInv, ServerInv, ServingTypeOK, NumberInv, Count, LiveInv, ServingInv, GrantedInv
<1>5. DesktopTypeOK' /\ SyncTypeOK' /\ UserTypeOK' /\ ControlInv' /\ AwaitInv'
  BY <1>1, RestStays DEF NamesStay
<1> QED
  BY <1>1, <1>3, <1>4, <1>5 DEF IInv, ServerInv

LEMMA LogoutServerKeeps ==
  ASSUME IInv, LogoutServer
  PROVE  IInv'
<1>1. UNCHANGED <<users, device, revoked, issued, revoking, granted, serving, expired, credential,
                  session, sync>>
  BY DEF LogoutServer, desktop
<1>2. /\ ended \subseteq ended' /\ ended' \subseteq DOMAIN issued
      /\ \A h \in Handlers : serving[h].pc = "rotate" =>
           (serving[h].token \in ended' => serving[h].token \in ended)
  BY DEF IInv, ServerInv, ServerTypeOK, UserTypeOK, LogoutServer, LoggedOut, RefreshLocks
<1>3. CountersTyped
  BY CountersStay DEF LogoutServer
<1>4. /\ UserTypeOK' /\ user'.pc = "logout credential" /\ user'.account = user.account
      /\ user.account \in users
  BY <1>1 DEF IInv, UserTypeOK, UserPc, ControlInv, LogoutServer
<1>5. ServerTypeOK' /\ SeenInv'
  BY <1>1, <1>2 DEF IInv, ServerInv, ServerTypeOK, SeenInv
<1>6. ServingTypeOK' /\ NumberInv' /\ LiveInv' /\ ServingInv' /\ GrantedInv'
  BY <1>1, <1>2
     DEF IInv, ServerInv, ServingTypeOK, NumberInv, Count, LiveInv, ServingInv, GrantedInv
<1>7. DesktopTypeOK' /\ SyncTypeOK'
  BY <1>1 DEF IInv, DesktopTypeOK, SyncTypeOK
<1>8. ControlInv' /\ AwaitInv'
  BY <1>1, <1>4 DEF IInv, ControlInv, AwaitInv
<1> QED
  BY <1>3, <1>4, <1>5, <1>6, <1>7, <1>8 DEF IInv, ServerInv, CountersTyped

LEMMA RestartKeeps ==
  ASSUME IInv, Restart
  PROVE  IInv'
<1>1. ServerStays /\ UNCHANGED credential
  BY DEF Restart, ServerStays
<1>2. /\ session' = None /\ sync' = Off /\ user' = Idle
  BY DEF Restart
<1>3. CountersTyped
  BY CountersStay DEF Restart
<1>4. SyncTypeOK' /\ sync'.pc = "off" /\ UserTypeOK' /\ user'.pc = "idle"
  BY <1>2 DEF SyncTypeOK, SyncPc, Off, UserTypeOK, UserPc, Idle
<1>5. ServerInv' /\ DesktopTypeOK'
  BY <1>1, <1>2, ServerSame DEF IInv, DesktopTypeOK, NamesStay
<1>6. ControlInv' /\ AwaitInv'
  BY <1>4 DEF ControlInv, AwaitInv
<1> QED
  BY <1>3, <1>4, <1>5, <1>6 DEF IInv, CountersTyped

(* A session is added: n, of the device of the token t.                    *)
LEMMA RotateKeeps ==
  ASSUME IInv, NEW h \in Handlers, Rotate(h)
  PROVE  IInv'
<1> DEFINE n == NewToken
           t == serving[h].token
<1>1. /\ UNCHANGED <<users, device, revoked, revoking, expired, credential, session, user, lost,
                     excuses>>
      /\ serving[h].pc = "rotate" /\ serving' = [serving EXCEPT ![h] = Free]
      /\ ended' = ended \union {t} /\ issued' = Appended(issued, issued[t])
      /\ granted' = granted \union ({issued[t]} \intersect revoked)
      /\ IF Awaited(h) THEN sync' = [sync EXCEPT !.pc = "store", !.token = n, !.handler = None]
         ELSE UNCHANGED sync
  BY DEF Rotate, IssueSession, desktop
<1>2. t \in DOMAIN issued /\ t \notin ended
  BY <1>1 DEF IInv, ServerInv, ServingInv
<1>3. issued[t] \in DOMAIN device
  BY <1>2 DEF IInv, ServerInv, ServerTypeOK
<1>4. /\ DOMAIN issued' = 1 .. Count(issued) + 1
      /\ Count(issued') = Count(issued) + 1
      /\ \A u \in DOMAIN issued : u \in DOMAIN issued' /\ issued'[u] = issued[u]
      /\ n \notin DOMAIN issued /\ n \in DOMAIN issued'
      /\ issued'[n] = issued[t]
      /\ \A u \in DOMAIN issued' : u \in DOMAIN issued \/ u = n
  <2> DEFINE d == issued[t]
  <2>1. issued' = Appended(issued, d)
    BY <1>1
  <2> HIDE DEF d
  <2>2. issued'[Count(issued) + 1] = d
    BY <2>1, AppendedFacts DEF IInv, ServerInv, NumberInv
  <2> QED
    BY <2>1, <2>2, AppendedFacts DEF IInv, ServerInv, NumberInv, NewToken, d
<1>5. n \in Tokens
  BY DEF IInv, ServerInv, NumberInv, NewToken, Tokens
<1> HIDE DEF n, t
<1>6. /\ serving'[h].pc = "free" /\ ~serving'[h].active
      /\ \A g \in Handlers \ {h} : serving'[g] = serving[g]
  BY <1>1, FreeIsRecord DEF IInv, ServerInv, ServingTypeOK
<1>7. ServerTypeOK' /\ NumberInv'
  BY <1>1, <1>2, <1>3, <1>4, <1>5 DEF IInv, ServerInv, ServerTypeOK, NumberInv, Count
<1>8. ServingTypeOK'
  BY <1>1, <1>4, FreeIsRecord DEF IInv, ServerInv, ServingTypeOK, HandlerRecord
<1>9. LiveInv' /\ SeenInv'
  BY <1>1, <1>2, <1>4 DEF IInv, ServerInv, ServerTypeOK, LiveInv, SeenInv
<1>10. ServingInv'
  BY <1>1, <1>2, <1>4, <1>6 DEF IInv, ServerInv, ServingInv, t
<1>11. GrantedInv'
  <2> SUFFICES ASSUME NEW g \in Handlers, serving'[g].active,
                      issued'[serving'[g].token] \in granted'
               PROVE  serving'[g].token \in ended'
    BY DEF GrantedInv
  <2>1. serving'[g] = serving[g]
    BY <1>6
  <2> DEFINE u == serving[g].token
  <2>2. serving[g].active /\ u \in DOMAIN issued /\ issued[u] \in granted'
    BY <1>4, <2>1 DEF IInv, ServerInv, ServingInv
  <2>3. CASE issued[u] \in granted
    BY <1>1, <2>1, <2>2, <2>3 DEF IInv, ServerInv, GrantedInv
  <2>4. CASE issued[u] = issued[t]
    BY <1>1, <1>2, <2>1, <2>2, <2>4 DEF IInv, ServerInv, LiveInv
  <2> QED
    BY <1>1, <2>2, <2>3, <2>4
<1>12. ServerInv'
  BY <1>7, <1>8, <1>9, <1>10, <1>11 DEF ServerInv
<1>13. DesktopTypeOK' /\ UserTypeOK'
  BY <1>1, <1>4 DEF IInv, DesktopTypeOK, UserTypeOK
<1>14. SyncTypeOK' /\ ControlInv' /\ AwaitInv'
  <2>1. CASE Awaited(h)
    <3>1. /\ SyncTypeOK' /\ sync'.pc = "store" /\ sync.pc = "await"
          /\ sync'.account = sync.account /\ sync'.device = sync.device
          /\ sync'.token = n /\ sync'.refresh = sync.refresh
      <4>1. /\ sync' = [sync EXCEPT !.pc = "store", !.token = n, !.handler = None]
            /\ sync.pc = "await"
        BY <1>1, <2>1 DEF Awaited
      <4>2. /\ sync'.pc = "store"
            /\ sync'.account = sync.account /\ sync'.device = sync.device
            /\ sync'.token = n /\ sync'.refresh = sync.refresh
        BY <4>1 DEF IInv, SyncTypeOK
      <4>3. SyncTypeOK'
        BY <1>1, <1>4, <4>1 DEF IInv, SyncTypeOK, SyncPc
      <4> QED
        BY <4>1, <4>2, <4>3
    <3> QED
      BY <1>1, <1>4, <3>1 DEF IInv, ControlInv, AwaitInv
  <2>2. CASE ~Awaited(h)
    <3>1. UNCHANGED sync
      BY <1>1, <2>2
    <3>2. SyncTypeOK' /\ ControlInv'
      BY <1>1, <1>4, <3>1 DEF IInv, SyncTypeOK, ControlInv
    <3>3. AwaitInv'
      BY <1>6, <2>2, <3>1 DEF IInv, AwaitInv, Awaited
    <3> QED
      BY <3>2, <3>3
  <2> QED
    BY <2>1, <2>2
<1> QED
  BY <1>1, <1>12, <1>13, <1>14 DEF IInv

LEMMA SignInKeeps ==
  ASSUME IInv, SignIn
  PROVE  IInv'
<1> DEFINE n == NewToken
           d == Count(device) + 1
<1>1. PICK a \in Accounts :
        /\ users' = users \union {a}
        /\ device' = Appended(device, a)
        /\ issued' = Appended(issued, d)
        /\ user' = [pc |-> "unlock credential", account |-> a, token |-> n]
  BY DEF SignIn, IssueSession
<1>2. UNCHANGED <<revoked, ended, revoking, granted, serving, expired, credential, session, sync, lost>>
  BY DEF SignIn, desktop
<1>3. /\ DOMAIN issued' = 1 .. Count(issued) + 1
      /\ Count(issued') = Count(issued) + 1
      /\ \A t \in DOMAIN issued : t \in DOMAIN issued' /\ issued'[t] = issued[t]
      /\ n \notin DOMAIN issued /\ n \in DOMAIN issued'
      /\ issued'[n] = d
      /\ \A t \in DOMAIN issued' : t \in DOMAIN issued \/ t = n
  BY <1>1, AppendedFacts DEF IInv, ServerInv, NumberInv, NewToken
<1>4. /\ DOMAIN device' = 1 .. Count(device) + 1
      /\ Count(device') = Count(device) + 1
      /\ \A e \in DOMAIN device : e \in DOMAIN device' /\ device'[e] = device[e]
      /\ d \notin DOMAIN device /\ d \in DOMAIN device'
      /\ device'[d] = a
      /\ \A e \in DOMAIN device' : e \in DOMAIN device \/ e = d
  BY <1>1, AppendedFacts DEF IInv, ServerInv, NumberInv
<1>5. n \in Tokens
  BY DEF IInv, ServerInv, NumberInv, NewToken, Tokens
<1>6. DOMAIN device' \subseteq Devices
  <2>1. Count(device) < MaxDevices
    BY DEF SignIn
  <2>2. Count(device) \in Nat /\ MaxDevices \in Nat
    BY SessionsAssumption DEF IInv, ServerInv, NumberInv
  <2> DEFINE c == Count(device)
  <2>3. c < MaxDevices /\ c \in Nat /\ MaxDevices \in Nat /\ DOMAIN device' = 1 .. c + 1
    BY <1>4, <2>1, <2>2
  <2> HIDE DEF c
  <2> QED
    BY <2>3 DEF Devices
<1>7. excuses' \subseteq {"lost", "crossed"} /\ excuses \subseteq excuses'
  BY DEF IInv, SignIn, Crossed
<1> HIDE DEF n, d
<1>8. ServerTypeOK'
  BY <1>1, <1>2, <1>3, <1>4, <1>5, <1>6 DEF IInv, ServerInv, ServerTypeOK
<1>9. DesktopTypeOK'
  BY <1>1, <1>2, <1>3, <1>4 DEF IInv, DesktopTypeOK
<1>10. SyncTypeOK'
  BY <1>1, <1>2, <1>3, <1>4 DEF IInv, SyncTypeOK
<1>11. /\ UserTypeOK' /\ user'.pc = "unlock credential" /\ user'.account = a /\ user'.token = n
  BY <1>1, <1>3 DEF UserTypeOK, UserPc
<1>12. NumberInv'
  BY <1>3, <1>4 DEF IInv, ServerInv, NumberInv, Count
<1>13. ControlInv'
  BY <1>1, <1>2, <1>3, <1>4, <1>11 DEF IInv, ControlInv
<1>14. LiveInv'
  <2>1. \A t \in DOMAIN issued : issued[t] # d
    BY <1>4 DEF IInv, ServerInv, ServerTypeOK
  <2> QED
    BY <1>2, <1>3, <2>1 DEF IInv, ServerInv, LiveInv
<1>15. ServingTypeOK' /\ AwaitInv'
  BY <1>2, <1>3 DEF IInv, ServerInv, ServingTypeOK, AwaitInv
<1>16. SeenInv'
  BY <1>2, <1>3 DEF IInv, ServerInv, ServerTypeOK, SeenInv
<1>17. ServingInv'
  BY <1>2, <1>3 DEF IInv, ServerInv, ServingInv
<1>18. GrantedInv'
  BY <1>2, <1>3 DEF IInv, ServerInv, ServingInv, GrantedInv
<1> QED
  BY <1>2, <1>7, <1>8, <1>9, <1>10, <1>11, <1>12, <1>13, <1>14, <1>15, <1>16, <1>17, <1>18
     DEF IInv, ServerInv
-----------------------------------------------------------------------------
LEMMA InitInv ==
  ASSUME Init
  PROVE  IInv
<1>1. DOMAIN device = {} /\ DOMAIN issued = {}
  BY DEF Init
<1>2. Count(device) = 0 /\ Count(issued) = 0
  BY <1>1, FS_EmptySet DEF Count
<1>3. 1 .. 0 = {}
  OBVIOUS
<1>4. NumberInv
  BY <1>1, <1>2, <1>3 DEF NumberInv
<1>5. sync.pc = "off" /\ user.pc = "idle" /\ SyncTypeOK /\ UserTypeOK
  BY DEF Init, SyncTypeOK, SyncPc, Off, UserTypeOK, UserPc, Idle
<1>6. ServerTypeOK /\ DesktopTypeOK /\ SeenInv
  BY <1>1, SessionsAssumption DEF Init, ServerTypeOK, DesktopTypeOK, SeenInv
<1>7. /\ ServingTypeOK
      /\ \A h \in Handlers : serving[h].pc = "free" /\ ~serving[h].active
  BY DEF Init, ServingTypeOK, Free
<1>8. lost \in 0 .. MaxLost /\ excuses \subseteq {"lost", "crossed"}
  BY SessionsAssumption DEF Init
<1>9. ControlInv /\ AwaitInv
  BY <1>5 DEF ControlInv, AwaitInv
<1>10. LiveInv /\ ServingInv /\ GrantedInv
  BY <1>1, <1>7 DEF LiveInv, ServingInv, GrantedInv
<1> QED
  BY <1>4, <1>5, <1>6, <1>7, <1>8, <1>9, <1>10 DEF IInv, ServerInv

LEMMA StepKeeps ==
  ASSUME IInv, Next
  PROVE  IInv'
<1>1. CASE SyncStep
  BY <1>1, SyncBeginKeeps, AccessTokenKeeps, ReadCredentialKeeps, RefreshKeeps,
     StoreRefreshedKeeps, AdoptKeeps, InvalidateKeeps, SendKeeps DEF SyncStep
<1>2. CASE UserStep
  BY <1>2, SignInKeeps, UnlockKeeps, LogoutBeginKeeps, LogoutServerKeeps, LogoutLocalKeeps
     DEF UserStep
<1>3. CASE \E h \in Handlers : RefreshStep(h) \/ RefreshFails(h)
  BY <1>3, RefreshSelectKeeps, RefreshLockKeeps, RotateKeeps, RefreshFailsKeeps DEF RefreshStep
<1> QED
  BY <1>1, <1>2, <1>3, UnansweredKeeps, RestartKeeps, RevokeBeginKeeps, RevokeCommitKeeps,
     ExpireKeeps DEF Next

LEMMA StutterKeeps ==
  ASSUME IInv, UNCHANGED vars
  PROVE  IInv'
<1>1. ServerStays /\ UNCHANGED <<credential, session, sync, user, lost, excuses>>
  BY DEF vars, desktop, ServerStays
<1> QED
  BY <1>1, ServerSame, RestStays DEF IInv

(* The inductive invariant holds in every reachable state.                 *)
THEOREM Invariance == Spec => []IInv
<1>1. IInv /\ [Next]_vars => IInv'
  BY StepKeeps, StutterKeeps
<1> QED
  BY InitInv, <1>1, PTL DEF Spec

(* Every reachable state has the declared types.                           *)
THEOREM Typing == Spec => []TypeOK
<1>1. IInv => TypeOK
  BY DEF IInv, ServerInv, TypeOK
<1> QED
  BY Invariance, <1>1, PTL

(* Whatever refreshes, logins, logouts, revocations and losses there are,  *)
(* no device has two live sessions.                                        *)
THEOREM OneSession == Spec => []OneLiveSession
<1>1. ASSUME IInv
      PROVE  OneLiveSession
  <2> SUFFICES ASSUME NEW d \in DOMAIN device
               PROVE  Cardinality({t \in DOMAIN issued \ ended : issued[t] = d}) <= 1
    BY DEF OneLiveSession
  <2> DEFINE live == {t \in DOMAIN issued \ ended : issued[t] = d}
  <2>1. CASE live = {}
    <3>1. Cardinality(live) = 0
      BY <2>1, FS_EmptySet
    <3> QED
      BY <3>1
  <2>2. CASE live # {}
    <3>1. PICK t : t \in live
      BY <2>2
    <3>2. live = {t}
      BY <1>1, <3>1 DEF IInv, ServerInv, LiveInv
    <3>3. Cardinality(live) = 1
      BY <3>2, FS_Singleton
    <3> QED
      BY <3>3
  <2> QED
    BY <2>1, <2>2
<1> QED
  BY Invariance, <1>1, PTL

(* A revoked device gets one more session at most, from a refresh that had *)
(* read the device before the revocation committed.                        *)
THEOREM RevokedForGood == Spec => RevokedGetsNoSession
<1> DEFINE A == \A d \in revoked, t \in DOMAIN issued' \ DOMAIN issued :
                  issued'[t] = d =>
                    /\ d \notin granted
                    /\ \E h \in Handlers : Late(h) /\ issued[serving[h].token] = d
<1>1. ASSUME IInv, Next
      PROVE  A
  <2>1. CASE UNCHANGED issued
    BY <2>1
  <2>2. ASSUME NEW h \in Handlers, Rotate(h)
        PROVE  A
    <3> DEFINE u == serving[h].token
               d == issued[u]
    <3>1. serving[h].pc = "rotate" /\ issued' = Appended(issued, d)
      BY <2>2 DEF Rotate, IssueSession
    <3>2. serving[h].active /\ u \notin ended
      BY <1>1, <3>1 DEF IInv, ServerInv, ServingInv
    <3>3. d \notin granted
      BY <1>1, <3>2 DEF IInv, ServerInv, GrantedInv
    <3>4. d \in revoked => Late(h)
      BY <3>2 DEF Late
    <3>5. \A t \in DOMAIN issued' \ DOMAIN issued : issued'[t] = d
      <4> HIDE DEF d
      <4> QED
        BY <1>1, <3>1, AppendedFacts DEF IInv, ServerInv, NumberInv
    <3> QED
      BY <3>3, <3>4, <3>5
  <2>3. CASE SignIn
    <3>1. issued' = Appended(issued, Count(device) + 1)
      BY <2>3 DEF SignIn, IssueSession
    <3>2. \A t \in DOMAIN issued' \ DOMAIN issued : issued'[t] = Count(device) + 1
      BY <1>1, <3>1, AppendedFacts DEF IInv, ServerInv, NumberInv
    <3>3. Count(device) + 1 \notin DOMAIN device
      BY <1>1 DEF IInv, ServerInv, NumberInv
    <3> QED
      BY <1>1, <3>2, <3>3 DEF IInv, ServerInv, ServerTypeOK
  <2>4. UNCHANGED issued \/ SignIn \/ \E h \in Handlers : Rotate(h)
    BY <1>1
       DEF Next, SyncStep, SyncBegin, AccessToken, ReadCredential, Refresh, StoreRefreshed, Adopt,
           Invalidate, Send, UserStep, Unlock, LogoutBegin, LogoutServer, LogoutLocal, Restart,
           RefreshStep, RefreshSelect, RefreshLock, RefreshFails, Unanswered,
           RevokeBegin, RevokeCommit, Expire, server, tables
  <2> QED
    BY <2>1, <2>2, <2>3, <2>4
<1>2. IInv /\ [Next]_vars => [A]_vars
  BY <1>1
<1> HIDE DEF A
<1>3. Spec => [][A]_vars
  BY Invariance, <1>2, PTL DEF Spec
<1> QED
  BY <1>3 DEF RevokedGetsNoSession, A
-----------------------------------------------------------------------------
(* What holds as long as no answer was lost and no login or logout crossed *)
(* a sync: the token that the desktop, wherever it stands, goes on from is *)
(* the only one of a live session, and is the token it is taken for.       *)
Unlocking == user.pc \in {"unlock credential", "unlock state"}

Current ==
  IF Unlocking THEN user.token
  ELSE IF sync.pc = "store" THEN sync.token
  ELSE IF session # None /\ user.pc \in {"idle", "logout"} THEN credential[session.account]
  ELSE None

Kept == IF user.pc # "idle" THEN {user.account}
        ELSE IF session # None THEN {session.account} ELSE {}

Good(t, d) == t \in DOMAIN issued /\ issued[t] = d /\ (t \notin ended \/ d \in revoked)

(* One thing at a time, also at the server, and of the account that is     *)
(* signed in.                                                              *)
OneAtATime ==
  /\ \A h \in Handlers : serving[h].pc # "free" => Awaited(h)
  /\ sync.pc = "off" \/ user.pc = "idle"
  /\ sync.pc # "off" => session # None
  /\ sync.pc \notin {"off", "token"} =>
       sync.account = session.account /\ sync.device = session.device
  /\ Unlocking => session = None
  /\ user.pc = "logout" => session # None /\ user.account = session.account

(* No credential but the one in use.                                       *)
NoneElse ==
  /\ \A a \in Accounts \ Kept : credential[a] = None
  /\ (user.pc \in {"unlock credential", "logout state"} \/ sync.pc = "clear") =>
       \A a \in Accounts : credential[a] = None

(* The tokens that are carried from one step to another.                   *)
Carried ==
  /\ user.pc = "logout" => user.token = credential[user.account]
  /\ user.pc = "unlock state" => credential[user.account] = user.token
  /\ sync.pc \in {"refresh", "await", "invalidate"} =>
       sync.refresh = credential[sync.account]
  /\ sync.pc = "adopt" => sync.token = credential[sync.account]
  /\ sync.pc = "invalidate" => issued[sync.refresh] \in revoked

AllGood ==
  /\ Unlocking => Good(user.token, issued[user.token])
  /\ sync.pc = "store" => Good(sync.token, sync.device)
  /\ session # None /\ user.pc \in {"idle", "logout"}
      /\ sync.pc \notin {"store", "invalidate", "clear"} =>
        Good(credential[session.account], session.device)

OneLive == \A t \in DOMAIN issued \ ended : issued[t] \in revoked \/ t = Current

Calm == OneAtATime /\ NoneElse /\ Carried /\ AllGood /\ OneLive
CalmInv == Undisturbed => Calm

LEMMA SyncBeginCalm ==
  ASSUME IInv, CalmInv, SyncBegin, Undisturbed'
  PROVE  Calm'
<1>1. Undisturbed /\ Calm
  BY DEF CalmInv, Undisturbed, SyncBegin
<1>2. UNCHANGED <<device, serving, revoked, issued, ended, credential, session, user>>
  BY DEF SyncBegin, server, tables, desktop
<1>3. sync.pc = "off" /\ sync'.pc = "token" /\ session # None
  BY DEF SyncBegin, Off
<1>4. user.pc = "idle"
  BY DEF SyncBegin, Undisturbed
<1>5. OneAtATime'
  BY <1>1, <1>2, <1>3, <1>4 DEF Calm, OneAtATime, Unlocking, Awaited
<1>6. NoneElse'
  BY <1>1, <1>2, <1>3, <1>4 DEF Calm, NoneElse, Kept
<1>7. Carried'
  BY <1>1, <1>2, <1>3, <1>4 DEF Calm, Carried
<1>8. AllGood'
  BY <1>1, <1>2, <1>3, <1>4 DEF Calm, AllGood, Unlocking, Good
<1>9. OneLive'
  BY <1>1, <1>2, <1>3, <1>4 DEF Calm, OneLive, Current, Unlocking
<1> QED
  BY <1>5, <1>6, <1>7, <1>8, <1>9 DEF Calm

LEMMA AccessTokenCalm ==
  ASSUME IInv, CalmInv, AccessToken, Undisturbed'
  PROVE  Calm'
<1>1. Undisturbed /\ Calm
  BY DEF CalmInv, Undisturbed, AccessToken
<1>2. UNCHANGED <<device, serving, revoked, issued, ended, credential, session, user>>
  BY DEF AccessToken, server, tables, desktop
<1>3. sync.pc = "token" /\ session # None
  BY <1>1 DEF Calm, OneAtATime, AccessToken
<1>4. /\ sync'.pc \in {"credential", "send"}
      /\ sync'.account = session.account /\ sync'.device = session.device
  BY <1>3 DEF IInv, SyncTypeOK, AccessToken
<1>5. OneAtATime'
  BY <1>1, <1>2, <1>3, <1>4 DEF Calm, OneAtATime, Unlocking, Awaited
<1>6. NoneElse'
  BY <1>1, <1>2, <1>3, <1>4 DEF Calm, NoneElse, Kept
<1>7. Carried'
  BY <1>1, <1>2, <1>3, <1>4 DEF Calm, Carried
<1>8. AllGood'
  BY <1>1, <1>2, <1>3, <1>4 DEF Calm, AllGood, Unlocking, Good
<1>9. OneLive'
  BY <1>1, <1>2, <1>3, <1>4 DEF Calm, OneLive, Current, Unlocking
<1> QED
  BY <1>5, <1>6, <1>7, <1>8, <1>9 DEF Calm

LEMMA ReadCredentialCalm ==
  ASSUME IInv, CalmInv, ReadCredential, Undisturbed'
  PROVE  Calm'
<1>1. Undisturbed /\ Calm
  BY DEF CalmInv, Undisturbed, ReadCredential
<1>2. UNCHANGED <<device, serving, revoked, issued, ended, credential, session, user>>
  BY DEF ReadCredential, server, tables, desktop
<1>3. sync.pc = "credential"
  BY DEF ReadCredential
<1>4. \/ sync'.pc = "off"
      \/ /\ sync'.pc = "refresh" /\ sync'.refresh = credential[sync.account]
         /\ sync'.account = sync.account /\ sync'.device = sync.device
  <2>1. CASE sync' = Off
    BY <2>1 DEF Off
  <2>2. CASE sync' = [sync EXCEPT !.pc = "refresh", !.refresh = credential[sync.account]]
    BY <2>2 DEF IInv, SyncTypeOK
  <2> QED
    BY <2>1, <2>2 DEF ReadCredential, SyncEnds
<1>5. OneAtATime'
  BY <1>1, <1>2, <1>3, <1>4 DEF Calm, OneAtATime, Unlocking, Awaited
<1>6. NoneElse'
  BY <1>1, <1>2, <1>3, <1>4 DEF Calm, NoneElse, Kept
<1>7. Carried'
  BY <1>1, <1>2, <1>3, <1>4 DEF Calm, Carried
<1>8. AllGood'
  BY <1>1, <1>2, <1>3, <1>4 DEF Calm, AllGood, Unlocking, Good
<1>9. OneLive'
  BY <1>1, <1>2, <1>3, <1>4 DEF Calm, OneLive, Current, Unlocking
<1> QED
  BY <1>5, <1>6, <1>7, <1>8, <1>9 DEF Calm

LEMMA RefreshCalm ==
  ASSUME IInv, CalmInv, Refresh, Undisturbed'
  PROVE  Calm'
<1>1. Undisturbed /\ Calm
  BY DEF CalmInv, Undisturbed, Refresh
<1>2. UNCHANGED <<device, revoked, issued, ended, credential, session, user>>
  BY DEF Refresh, tables, desktop
<1>3. sync.pc = "refresh"
  BY DEF Refresh
<1>4. \A h \in Handlers : serving[h].pc = "free"
  BY <1>1, <1>3 DEF Calm, OneAtATime, Awaited
<1>5. \/ sync'.pc = "off" /\ UNCHANGED serving
      \/ /\ sync'.pc = "await" /\ sync'.account = sync.account /\ sync'.device = sync.device
         /\ sync'.refresh = sync.refresh
         /\ \A g \in Handlers : serving'[g].pc # "free" => sync'.handler = g
  <2>1. CASE sync' = Off /\ UNCHANGED serving
    BY <2>1 DEF Off
  <2>2. ASSUME NEW h \in FreeHandler,
               serving' = [serving EXCEPT ![h] =
                            [pc |-> "select", token |-> sync.refresh, active |-> FALSE]],
               sync' = [sync EXCEPT !.pc = "await", !.handler = h]
        PROVE  <1>5!2
    <3>1. h \in Handlers
      BY FreeHandlerFacts
    <3>2. /\ sync'.pc = "await" /\ sync'.account = sync.account /\ sync'.device = sync.device
          /\ sync'.refresh = sync.refresh /\ sync'.handler = h
      BY <2>2 DEF IInv, SyncTypeOK
    <3>3. \A g \in Handlers \ {h} : serving'[g] = serving[g]
      BY <2>2 DEF IInv, ServerInv, ServingTypeOK
    <3> QED
      BY <1>4, <3>2, <3>3
  <2> QED
    BY <2>1, <2>2 DEF Refresh, SyncEnds
<1>6. OneAtATime'
  BY <1>1, <1>2, <1>3, <1>4, <1>5 DEF Calm, OneAtATime, Unlocking, Awaited
<1>7. NoneElse'
  BY <1>1, <1>2, <1>3, <1>4, <1>5 DEF Calm, NoneElse, Kept
<1>8. Carried'
  BY <1>1, <1>2, <1>3, <1>4, <1>5 DEF Calm, Carried
<1>9. AllGood'
  BY <1>1, <1>2, <1>3, <1>4, <1>5 DEF Calm, AllGood, Unlocking, Good
<1>10. OneLive'
  BY <1>1, <1>2, <1>3, <1>4, <1>5 DEF Calm, OneLive, Current, Unlocking
<1> QED
  BY <1>6, <1>7, <1>8, <1>9, <1>10 DEF Calm

(* The handlers of refresh: the only one at work is the one that sync_now  *)
(* waits for, on the token kept for the account.                           *)
LEMMA WaitedFor ==
  ASSUME IInv, Calm, NEW h \in Handlers, serving[h].pc # "free"
  PROVE  /\ Awaited(h) /\ sync.pc = "await" /\ user.pc = "idle" /\ session # None
         /\ sync.account = session.account /\ sync.device = session.device
         /\ serving[h].token = sync.refresh /\ sync.refresh = credential[session.account]
         /\ Good(sync.refresh, session.device)
         /\ \A g \in Handlers \ {h} : serving[g].pc = "free"
<1>1. Awaited(h) /\ sync.pc = "await" /\ sync.handler = h
  BY DEF Calm, OneAtATime, Awaited
<1>2. /\ user.pc = "idle" /\ session # None
      /\ sync.account = session.account /\ sync.device = session.device
      /\ sync.refresh = credential[session.account]
      /\ \A g \in Handlers \ {h} : serving[g].pc = "free"
  BY <1>1 DEF Calm, OneAtATime, Carried, Awaited
<1>3. serving[h].token = sync.refresh
  BY <1>1 DEF IInv, AwaitInv
<1>4. Good(sync.refresh, session.device)
  BY <1>1, <1>2 DEF Calm, AllGood
<1> QED
  BY <1>1, <1>2, <1>3, <1>4

LEMMA RefreshSelectCalm ==
  ASSUME IInv, CalmInv, NEW h \in Handlers, RefreshSelect(h), Undisturbed'
  PROVE  Calm'
<1>1. Undisturbed /\ Calm
  BY DEF CalmInv, Undisturbed, RefreshSelect
<1>2. UNCHANGED <<device, revoked, issued, ended, credential, session, sync, user>>
  BY DEF RefreshSelect, tables, desktop
<1>3. \A g \in Handlers : serving'[g].pc # "free" => serving[g].pc # "free"
  BY DEF IInv, ServerInv, ServingTypeOK, RefreshSelect
<1>4. OneAtATime'
  BY <1>1, <1>2, <1>3 DEF Calm, OneAtATime, Unlocking, Awaited
<1>5. NoneElse'
  BY <1>1, <1>2, <1>3 DEF Calm, NoneElse, Kept
<1>6. Carried'
  BY <1>1, <1>2, <1>3 DEF Calm, Carried
<1>7. AllGood'
  BY <1>1, <1>2, <1>3 DEF Calm, AllGood, Unlocking, Good
<1>8. OneLive'
  BY <1>1, <1>2, <1>3 DEF Calm, OneLive, Current, Unlocking
<1> QED
  BY <1>4, <1>5, <1>6, <1>7, <1>8 DEF Calm

LEMMA RefreshLockCalm ==
  ASSUME IInv, CalmInv, NEW h \in Handlers, RefreshLock(h), Undisturbed'
  PROVE  Calm'
<1>1. Undisturbed /\ Calm
  BY DEF CalmInv, Undisturbed, RefreshLock
<1>2. UNCHANGED <<device, revoked, issued, ended, credential, session, user>>
  BY DEF RefreshLock, tables, desktop
<1>3. serving[h].pc = "lock"
  BY DEF RefreshLock
<1>4. /\ Awaited(h) /\ sync.pc = "await" /\ user.pc = "idle" /\ session # None
      /\ sync.account = session.account /\ sync.device = session.device
      /\ serving[h].token = sync.refresh /\ sync.refresh = credential[session.account]
      /\ Good(sync.refresh, session.device)
      /\ \A g \in Handlers \ {h} : serving[g].pc = "free"
  BY <1>1, <1>3, WaitedFor
<1>5. \/ /\ UNCHANGED sync
         /\ \A g \in Handlers : serving'[g].pc # "free" => g = h
      \/ /\ sync'.pc = "invalidate" /\ sync'.account = sync.account
         /\ sync'.device = sync.device /\ sync'.refresh = sync.refresh
         /\ issued[sync.refresh] \in revoked
         /\ \A g \in Handlers : serving'[g].pc = "free"
  <2>1. CASE MayRotate(h)
    BY <1>4, <2>1 DEF IInv, ServerInv, ServingTypeOK, RefreshLock
  <2>2. CASE ~MayRotate(h)
    <3>1. /\ serving' = [serving EXCEPT ![h] = Free]
          /\ sync' = [sync EXCEPT !.pc = "invalidate", !.handler = None]
      BY <1>4, <2>2 DEF RefreshLock, Refused
    <3>2. /\ sync'.pc = "invalidate" /\ sync'.account = sync.account
          /\ sync'.device = sync.device /\ sync'.refresh = sync.refresh
      BY <3>1 DEF IInv, SyncTypeOK
    <3>3. \A g \in Handlers : serving'[g].pc = "free"
      BY <1>4, <3>1, FreeIsRecord DEF IInv, ServerInv, ServingTypeOK
    <3>4. issued[sync.refresh] \in revoked
      BY <1>3, <1>4, <2>2 DEF IInv, ServerInv, ServingInv, MayRotate, Good
    <3> QED
      BY <3>2, <3>3, <3>4
  <2> QED
    BY <2>1, <2>2
<1>6. OneAtATime'
  BY <1>1, <1>2, <1>3, <1>4, <1>5 DEF Calm, OneAtATime, Unlocking, Awaited
<1>7. NoneElse'
  BY <1>1, <1>2, <1>3, <1>4, <1>5 DEF Calm, NoneElse, Kept
<1>8. Carried'
  BY <1>1, <1>2, <1>3, <1>4, <1>5 DEF Calm, Carried
<1>9. AllGood'
  BY <1>1, <1>2, <1>3, <1>4, <1>5 DEF Calm, AllGood, Unlocking, Good
<1>10. OneLive'
  BY <1>1, <1>2, <1>3, <1>4, <1>5 DEF Calm, OneLive, Current, Unlocking
<1> QED
  BY <1>6, <1>7, <1>8, <1>9, <1>10 DEF Calm

LEMMA RefreshFailsCalm ==
  ASSUME IInv, CalmInv, NEW h \in Handlers, RefreshFails(h), Undisturbed'
  PROVE  Calm'
<1>1. Undisturbed /\ Calm
  BY DEF CalmInv, Undisturbed, RefreshFails
<1>2. UNCHANGED <<device, revoked, issued, ended, credential, session, user>>
  BY DEF RefreshFails, tables, desktop
<1>3. /\ Awaited(h) /\ sync.pc = "await" /\ user.pc = "idle" /\ session # None
      /\ \A g \in Handlers \ {h} : serving[g].pc = "free"
  BY <1>1, WaitedFor DEF RefreshFails
<1>4. sync'.pc = "off" /\ \A g \in Handlers : serving'[g].pc = "free"
  <2>1. sync' = Off /\ serving' = [serving EXCEPT ![h] = Free]
    BY <1>3 DEF RefreshFails, SyncEnds
  <2> QED
    BY <1>3, <2>1, FreeIsRecord DEF IInv, ServerInv, ServingTypeOK, Off
<1>5. OneAtATime'
  BY <1>1, <1>2, <1>3, <1>4 DEF Calm, OneAtATime, Unlocking, Awaited
<1>6. NoneElse'
  BY <1>1, <1>2, <1>3, <1>4 DEF Calm, NoneElse, Kept
<1>7. Carried'
  BY <1>1, <1>2, <1>3, <1>4 DEF Calm, Carried
<1>8. AllGood'
  BY <1>1, <1>2, <1>3, <1>4 DEF Calm, AllGood, Unlocking, Good
<1>9. OneLive'
  BY <1>1, <1>2, <1>3, <1>4 DEF Calm, OneLive, Current, Unlocking
<1> QED
  BY <1>5, <1>6, <1>7, <1>8, <1>9 DEF Calm

LEMMA StoreRefreshedCalm ==
  ASSUME IInv, CalmInv, StoreRefreshed, Undisturbed'
  PROVE  Calm'
<1>1. Undisturbed /\ Calm
  BY DEF CalmInv, Undisturbed, StoreRefreshed
<1>2. UNCHANGED <<device, serving, revoked, issued, ended, session, user>>
  BY DEF StoreRefreshed, server, tables
<1>3. sync.pc = "store" /\ Good(sync.token, sync.device)
  BY <1>1 DEF Calm, AllGood, StoreRefreshed
<1>4. /\ sync.account \in Accounts
  BY <1>3 DEF IInv, ServerInv, ServerTypeOK, ControlInv
<1>5. /\ sync'.pc = "adopt" /\ sync'.account = sync.account /\ sync'.device = sync.device
      /\ sync'.token = sync.token
      /\ credential' = [credential EXCEPT ![sync.account] = sync.token]
  BY <1>3 DEF IInv, SyncTypeOK, StoreRefreshed, SyncGoto, Good, Refreshed
<1>6. /\ credential'[sync.account] = sync.token
      /\ \A a \in Accounts \ {sync.account} : credential'[a] = credential[a]
  BY <1>4, <1>5 DEF IInv, DesktopTypeOK
<1>7. user.pc = "idle" /\ session # None /\ sync.account = session.account
      /\ sync.device = session.device
  BY <1>1, <1>3 DEF Calm, OneAtATime
<1>8. OneAtATime'
  BY <1>1, <1>2, <1>3, <1>4, <1>5, <1>6, <1>7 DEF Calm, OneAtATime, Unlocking, Awaited
<1>9. NoneElse'
  BY <1>1, <1>2, <1>3, <1>4, <1>5, <1>6, <1>7 DEF Calm, NoneElse, Kept
<1>10. Carried'
  BY <1>1, <1>2, <1>3, <1>4, <1>5, <1>6, <1>7 DEF Calm, Carried
<1>11. AllGood'
  BY <1>1, <1>2, <1>3, <1>4, <1>5, <1>6, <1>7 DEF Calm, AllGood, Unlocking, Good
<1>12. OneLive'
  BY <1>1, <1>2, <1>3, <1>4, <1>5, <1>6, <1>7 DEF Calm, OneLive, Current, Unlocking
<1> QED
  BY <1>8, <1>9, <1>10, <1>11, <1>12 DEF Calm

LEMMA AdoptCalm ==
  ASSUME IInv, CalmInv, Adopt, Undisturbed'
  PROVE  Calm'
<1>1. Undisturbed /\ Calm
  BY DEF CalmInv, Undisturbed, Adopt
<1>2. UNCHANGED <<device, serving, revoked, issued, ended, credential, user>>
  BY DEF Adopt, server, tables
<1>3. sync.pc = "adopt" /\ session # None
  BY <1>1 DEF Calm, OneAtATime, Adopt
<1>4. /\ sync'.pc = "send" /\ sync'.account = sync.account /\ sync'.device = sync.device
  BY <1>3 DEF IInv, SyncTypeOK, Adopt, SyncGoto
<1>5. session' # None /\ session'.account = session.account /\ session'.device = session.device
  <2>1. /\ session' = [session EXCEPT !.access = sync.token]
        /\ session \in [account : users, device : DOMAIN device, access : DOMAIN issued]
    BY <1>3 DEF IInv, DesktopTypeOK, Adopt
  <2>2. session'.account = session.account /\ session'.device = session.device
    BY <2>1
  <2>3. DOMAIN device \subseteq Nat /\ DOMAIN issued \subseteq Nat /\ users \subseteq Accounts
    BY SessionsAssumption DEF IInv, ServerInv, ServerTypeOK, Devices, Tokens
  <2>4. sync.token \in DOMAIN issued
    BY <1>3 DEF IInv, ControlInv
  <2>5. session' \in [account : Accounts, device : Nat, access : Nat]
    BY <2>1, <2>3, <2>4
  <2> QED
    BY <2>2, <2>5, SessionsAssumption
<1>6. OneAtATime'
  BY <1>1, <1>2, <1>3, <1>4, <1>5 DEF Calm, OneAtATime, Unlocking, Awaited
<1>7. NoneElse'
  BY <1>1, <1>2, <1>3, <1>4, <1>5 DEF Calm, NoneElse, Kept
<1>8. Carried'
  BY <1>1, <1>2, <1>3, <1>4, <1>5 DEF Calm, Carried
<1>9. AllGood'
  BY <1>1, <1>2, <1>3, <1>4, <1>5 DEF Calm, AllGood, Unlocking, Good
<1>10. OneLive'
  BY <1>1, <1>2, <1>3, <1>4, <1>5 DEF Calm, OneLive, Current, Unlocking
<1> QED
  BY <1>6, <1>7, <1>8, <1>9, <1>10 DEF Calm

LEMMA InvalidateCalm ==
  ASSUME IInv, CalmInv, Invalidate, Undisturbed'
  PROVE  Calm'
<1>1. Undisturbed /\ Calm
  BY DEF CalmInv, Undisturbed, Invalidate
<1>2. UNCHANGED <<device, serving, revoked, issued, ended, user>>
  BY DEF Invalidate, server, tables
<1>3. sync.pc \in {"invalidate", "clear"} /\ session # None /\ user.pc = "idle"
  BY <1>1 DEF Calm, OneAtATime, Invalidate
<1>4. sync.account \in Accounts /\ session.account = sync.account
  BY <1>1, <1>3 DEF IInv, ServerInv, ServerTypeOK, ControlInv, Calm, OneAtATime
<1>5. \/ /\ sync.pc = "invalidate" /\ sync'.pc = "clear" /\ UNCHANGED session
         /\ sync'.account = sync.account /\ sync'.device = sync.device
         /\ \A a \in Accounts : credential'[a] = None
      \/ sync.pc = "clear" /\ sync'.pc = "off" /\ session' = None /\ UNCHANGED credential
  BY <1>1, <1>3, <1>4
     DEF IInv, SyncTypeOK, DesktopTypeOK, Invalidate, SyncGoto, SyncEnds, Off, Calm,
         NoneElse, Kept
<1>6. \A t \in DOMAIN issued \ ended : issued[t] \in revoked
  BY <1>1, <1>3, <1>4, SessionsAssumption
     DEF IInv, ServerInv, ServerTypeOK, Tokens, Calm, OneLive, Current, Unlocking, Carried, NoneElse
<1>7. OneAtATime'
  BY <1>1, <1>2, <1>3, <1>4, <1>5, <1>6 DEF Calm, OneAtATime, Unlocking, Awaited
<1>8. NoneElse'
  BY <1>1, <1>2, <1>3, <1>4, <1>5, <1>6 DEF Calm, NoneElse, Kept
<1>9. Carried'
  BY <1>1, <1>2, <1>3, <1>4, <1>5, <1>6 DEF Calm, Carried
<1>10. AllGood'
  BY <1>1, <1>2, <1>3, <1>4, <1>5, <1>6 DEF Calm, AllGood, Unlocking, Good
<1>11. OneLive'
  BY <1>1, <1>2, <1>3, <1>4, <1>5, <1>6 DEF Calm, OneLive, Current, Unlocking
<1> QED
  BY <1>7, <1>8, <1>9, <1>10, <1>11 DEF Calm

LEMMA SendCalm ==
  ASSUME IInv, CalmInv, Send, Undisturbed'
  PROVE  Calm'
<1>1. Undisturbed /\ Calm
  BY DEF CalmInv, Undisturbed, Send
<1>2. UNCHANGED <<device, serving, revoked, issued, ended, credential, session, user>>
  BY DEF Send, server, tables, desktop
<1>3. sync.pc = "send" /\ sync'.pc \in {"off", "token"}
  <2>1. CASE sync' = Off
    BY <2>1 DEF Off, Send
  <2>2. CASE sync' # Off
    BY <2>2 DEF IInv, SyncTypeOK, Send, SyncEnds
  <2> QED
    BY <2>1, <2>2
<1>4. OneAtATime'
  BY <1>1, <1>2, <1>3 DEF Calm, OneAtATime, Unlocking, Awaited
<1>5. NoneElse'
  BY <1>1, <1>2, <1>3 DEF Calm, NoneElse, Kept
<1>6. Carried'
  BY <1>1, <1>2, <1>3 DEF Calm, Carried
<1>7. AllGood'
  BY <1>1, <1>2, <1>3 DEF Calm, AllGood, Unlocking, Good
<1>8. OneLive'
  BY <1>1, <1>2, <1>3 DEF Calm, OneLive, Current, Unlocking
<1> QED
  BY <1>4, <1>5, <1>6, <1>7, <1>8 DEF Calm

-----------------------------------------------------------------------------
LEMMA UnlockCalm ==
  ASSUME IInv, CalmInv, Unlock, Undisturbed'
  PROVE  Calm'
<1>1. Undisturbed /\ Calm
  BY DEF CalmInv, Undisturbed, Unlock
<1>2. UNCHANGED <<device, serving, revoked, issued, ended, sync>>
  BY DEF Unlock, server, tables
<1>3. Unlocking /\ sync.pc = "off" /\ session = None /\ Good(user.token, issued[user.token])
  BY <1>1 DEF Calm, OneAtATime, AllGood, Unlock, Unlocking
<1>4. user.account \in Accounts
  BY <1>3 DEF IInv, ServerInv, ServerTypeOK, ControlInv, Unlocking
<1>5. \/ /\ user.pc = "unlock credential" /\ user'.pc = "unlock state" /\ UNCHANGED session
         /\ user'.account = user.account /\ user'.token = user.token
         /\ credential'[user.account] = user.token
         /\ \A a \in Accounts \ {user.account} : credential'[a] = None
      \/ /\ user.pc = "unlock state" /\ user'.pc = "idle" /\ UNCHANGED credential
         /\ session'.account = user.account /\ session'.device = issued[user.token]
         /\ session' # None
  <2>1. CASE user.pc = "unlock credential"
    BY <1>1, <1>4, <2>1
       DEF IInv, DesktopTypeOK, UserTypeOK, Unlock, Calm, NoneElse
  <2>2. CASE user.pc = "unlock state"
    <3>1. session' = [account |-> user.account, device |-> issued[user.token],
                      access |-> user.token]
      BY <2>2 DEF Unlock
    <3>2. issued[user.token] \in Nat /\ user.token \in Nat
      BY <1>3, SessionsAssumption DEF IInv, ServerInv, ServerTypeOK, Good, Devices, Tokens
    <3>3. session' \in [account : Accounts, device : Nat, access : Nat]
      BY <1>4, <3>1, <3>2
    <3>4. session' # None
      BY <3>3, SessionsAssumption
    <3>5. user' = Idle /\ UNCHANGED credential
      BY <2>2 DEF Unlock
    <3>6. /\ user'.pc = "idle" /\ session'.account = user.account
          /\ session'.device = issued[user.token]
      BY <3>1, <3>5 DEF Idle
    <3> QED
      BY <2>2, <3>4, <3>5, <3>6
  <2> QED
    BY <1>3, <2>1, <2>2 DEF Unlocking
<1>6. OneAtATime'
  BY <1>1, <1>2, <1>3, <1>4, <1>5 DEF Calm, OneAtATime, Unlocking, Awaited
<1>7. NoneElse'
  BY <1>1, <1>2, <1>3, <1>4, <1>5 DEF Calm, NoneElse, Kept
<1>8. Carried'
  BY <1>1, <1>2, <1>3, <1>4, <1>5 DEF Calm, Carried
<1>9. AllGood'
  BY <1>1, <1>2, <1>3, <1>4, <1>5 DEF Calm, AllGood, Unlocking, Good, OneAtATime, Carried
<1>10. OneLive'
  BY <1>1, <1>2, <1>3, <1>4, <1>5 DEF Calm, OneLive, Current, Unlocking, OneAtATime, Carried
<1> QED
  BY <1>6, <1>7, <1>8, <1>9, <1>10 DEF Calm

LEMMA LogoutBeginCalm ==
  ASSUME IInv, CalmInv, LogoutBegin, Undisturbed'
  PROVE  Calm'
<1>1. Undisturbed /\ Calm
  BY DEF CalmInv, Undisturbed, LogoutBegin
<1>2. UNCHANGED <<device, serving, revoked, issued, ended, credential, session, sync>>
  BY DEF LogoutBegin, server, tables, desktop
<1>3. user.pc = "idle" /\ session # None /\ sync.pc = "off"
  BY DEF LogoutBegin, Undisturbed, Crossed
<1>4. /\ user'.pc = "logout" /\ user'.account = session.account
      /\ user'.token = credential[session.account]
  BY DEF LogoutBegin
<1>5. OneAtATime'
  BY <1>1, <1>2, <1>3, <1>4 DEF Calm, OneAtATime, Unlocking, Awaited
<1>6. NoneElse'
  BY <1>1, <1>2, <1>3, <1>4 DEF Calm, NoneElse, Kept
<1>7. Carried'
  BY <1>1, <1>2, <1>3, <1>4 DEF Calm, Carried
<1>8. AllGood'
  BY <1>1, <1>2, <1>3, <1>4 DEF Calm, AllGood, Unlocking, Good
<1>9. OneLive'
  BY <1>1, <1>2, <1>3, <1>4 DEF Calm, OneLive, Current, Unlocking
<1> QED
  BY <1>5, <1>6, <1>7, <1>8, <1>9 DEF Calm

LEMMA LogoutServerCalm ==
  ASSUME IInv, CalmInv, LogoutServer, Undisturbed'
  PROVE  Calm'
<1>1. Undisturbed /\ Calm
  BY DEF CalmInv, Undisturbed, LogoutServer
<1>2. UNCHANGED <<device, serving, revoked, issued, credential, session, sync>>
  BY DEF LogoutServer, desktop
<1>3. user.pc = "logout" /\ sync.pc = "off" /\ session # None
      /\ user.account = session.account /\ user.token = credential[session.account]
  BY <1>1 DEF Calm, OneAtATime, Carried, LogoutServer
<1>4. user'.pc = "logout credential" /\ user'.account = user.account
  BY DEF IInv, UserTypeOK, LogoutServer
<1>5. Good(user.token, session.device)
  BY <1>1, <1>3 DEF Calm, AllGood
<1>6. ended' = ended \union {user.token}
  BY <1>5, SessionsAssumption
     DEF IInv, ServerInv, ServerTypeOK, Tokens, LogoutServer, LoggedOut, Undisturbed, Good
<1>7. \A t \in DOMAIN issued' \ ended' : issued[t] \in revoked
  BY <1>1, <1>2, <1>3, <1>6 DEF Calm, OneLive, Current, Unlocking
<1>8. OneAtATime'
  BY <1>1, <1>2, <1>3, <1>4, <1>5, <1>6, <1>7 DEF Calm, OneAtATime, Unlocking, Awaited
<1>9. NoneElse'
  BY <1>1, <1>2, <1>3, <1>4, <1>5, <1>6, <1>7 DEF Calm, NoneElse, Kept
<1>10. Carried'
  BY <1>1, <1>2, <1>3, <1>4, <1>5, <1>6, <1>7 DEF Calm, Carried
<1>11. AllGood'
  BY <1>1, <1>2, <1>3, <1>4, <1>5, <1>6, <1>7 DEF Calm, AllGood, Unlocking, Good
<1>12. OneLive'
  BY <1>1, <1>2, <1>3, <1>4, <1>5, <1>6, <1>7 DEF Calm, OneLive, Current, Unlocking
<1> QED
  BY <1>8, <1>9, <1>10, <1>11, <1>12 DEF Calm

LEMMA LogoutLocalCalm ==
  ASSUME IInv, CalmInv, LogoutLocal, Undisturbed'
  PROVE  Calm'
<1>1. Undisturbed /\ Calm
  BY DEF CalmInv, Undisturbed, LogoutLocal
<1>2. UNCHANGED <<device, serving, revoked, issued, ended, sync>>
  BY DEF LogoutLocal, server, tables
<1>3. user.pc \in {"logout credential", "logout state"} /\ sync.pc = "off"
  BY <1>1 DEF Calm, OneAtATime, LogoutLocal
<1>4. user.account \in Accounts
  BY <1>3 DEF IInv, ServerInv, ServerTypeOK, ControlInv
<1>5. /\ \A a \in Accounts : credential'[a] = None
      /\ \/ user'.pc = "logout state" /\ user'.account = user.account
         \/ user'.pc = "idle" /\ session' = None
  <2>1. CASE user.pc = "logout credential"
    <3>1. /\ user' = [user EXCEPT !.pc = "logout state"]
          /\ credential' = [credential EXCEPT ![user.account] = None]
      BY <2>1 DEF LogoutLocal
    <3>2. user'.pc = "logout state" /\ user'.account = user.account
      BY <3>1 DEF IInv, UserTypeOK
    <3>3. \A a \in Accounts \ {user.account} : credential[a] = None
      BY <1>1, <2>1 DEF Calm, NoneElse, Kept
    <3>4. \A a \in Accounts : credential'[a] = None
      BY <1>4, <3>1, <3>3 DEF IInv, DesktopTypeOK
    <3> QED
      BY <3>2, <3>4
  <2>2. CASE user.pc = "logout state"
    <3>1. user' = Idle /\ session' = None /\ UNCHANGED credential
      BY <2>2 DEF LogoutLocal
    <3>2. user'.pc = "idle"
      BY <3>1 DEF Idle
    <3>3. \A a \in Accounts : credential[a] = None
      BY <1>1, <2>2 DEF Calm, NoneElse
    <3> QED
      BY <3>1, <3>2, <3>3
  <2> QED
    BY <1>3, <2>1, <2>2
<1>6. \A t \in DOMAIN issued \ ended : issued[t] \in revoked
  BY <1>1, <1>3, SessionsAssumption
     DEF IInv, ServerInv, ServerTypeOK, Tokens, Calm, OneLive, Current, Unlocking
<1>7. OneAtATime'
  BY <1>1, <1>2, <1>3, <1>4, <1>5, <1>6 DEF Calm, OneAtATime, Unlocking, Awaited
<1>8. NoneElse'
  BY <1>1, <1>2, <1>3, <1>4, <1>5, <1>6 DEF Calm, NoneElse, Kept
<1>9. Carried'
  BY <1>1, <1>2, <1>3, <1>4, <1>5, <1>6 DEF Calm, Carried
<1>10. AllGood'
  BY <1>1, <1>2, <1>3, <1>4, <1>5, <1>6 DEF Calm, AllGood, Unlocking, Good
<1>11. OneLive'
  BY <1>1, <1>2, <1>3, <1>4, <1>5, <1>6 DEF Calm, OneLive, Current, Unlocking
<1> QED
  BY <1>7, <1>8, <1>9, <1>10, <1>11 DEF Calm

LEMMA RevokeBeginCalm ==
  ASSUME IInv, CalmInv, RevokeBegin, Undisturbed'
  PROVE  Calm'
<1>1. Undisturbed /\ Calm
  BY DEF CalmInv, Undisturbed, RevokeBegin
<1>2. UNCHANGED <<device, serving, revoked, issued, ended, credential, session, sync, user>>
  BY DEF RevokeBegin, desktop
<1>3. OneAtATime'
  BY <1>1, <1>2 DEF Calm, OneAtATime, Unlocking, Awaited
<1>4. NoneElse'
  BY <1>1, <1>2 DEF Calm, NoneElse, Kept
<1>5. Carried'
  BY <1>1, <1>2 DEF Calm, Carried
<1>6. AllGood'
  BY <1>1, <1>2 DEF Calm, AllGood, Unlocking, Good
<1>7. OneLive'
  BY <1>1, <1>2 DEF Calm, OneLive, Current, Unlocking
<1> QED
  BY <1>3, <1>4, <1>5, <1>6, <1>7 DEF Calm

LEMMA RevokeCommitCalm ==
  ASSUME IInv, CalmInv, RevokeCommit, Undisturbed'
  PROVE  Calm'
<1>1. Undisturbed /\ Calm
  BY DEF IInv, CalmInv, Undisturbed, RevokeCommit
<1>2. UNCHANGED <<device, serving, issued, credential, session, sync, user>>
  BY DEF RevokeCommit, desktop
<1>3. /\ revoked \subseteq revoked' /\ revoking.device \in revoked'
      /\ ended' = ended \union revoking.seen
      /\ \A t \in revoking.seen : issued[t] = revoking.device
  BY DEF IInv, ServerInv, SeenInv, RevokeCommit
<1>4. OneAtATime'
  BY <1>1, <1>2, <1>3 DEF Calm, OneAtATime, Unlocking, Awaited
<1>5. NoneElse'
  BY <1>1, <1>2, <1>3 DEF Calm, NoneElse, Kept
<1>6. Carried'
  BY <1>1, <1>2, <1>3 DEF Calm, Carried
<1>7. AllGood'
  BY <1>1, <1>2, <1>3 DEF Calm, AllGood, Unlocking, Good
<1>8. OneLive'
  BY <1>1, <1>2, <1>3 DEF Calm, OneLive, Current, Unlocking
<1> QED
  BY <1>4, <1>5, <1>6, <1>7, <1>8 DEF Calm

LEMMA ExpireCalm ==
  ASSUME IInv, CalmInv, Expire, Undisturbed'
  PROVE  Calm'
<1>1. Undisturbed /\ Calm
  BY DEF CalmInv, Undisturbed, Expire
<1>2. UNCHANGED <<device, serving, revoked, issued, ended, credential, session, sync, user>>
  BY DEF Expire, server, tables, desktop
<1>3. OneAtATime'
  BY <1>1, <1>2 DEF Calm, OneAtATime, Unlocking, Awaited
<1>4. NoneElse'
  BY <1>1, <1>2 DEF Calm, NoneElse, Kept
<1>5. Carried'
  BY <1>1, <1>2 DEF Calm, Carried
<1>6. AllGood'
  BY <1>1, <1>2 DEF Calm, AllGood, Unlocking, Good
<1>7. OneLive'
  BY <1>1, <1>2 DEF Calm, OneLive, Current, Unlocking
<1> QED
  BY <1>3, <1>4, <1>5, <1>6, <1>7 DEF Calm

LEMMA LossDisturbs ==
  ASSUME Restart \/ Unanswered
  PROVE  ~Undisturbed'
BY DEF Restart, Unanswered, Undisturbed

LEMMA RotateCalm ==
  ASSUME IInv, CalmInv, NEW h \in Handlers, Rotate(h), Undisturbed'
  PROVE  Calm'
<1>1. Undisturbed /\ Calm
  BY DEF CalmInv, Undisturbed, Rotate
<1>2. UNCHANGED <<device, revoked, credential, session, user>>
  BY DEF Rotate, desktop
<1>3. /\ Awaited(h) /\ sync.pc = "await" /\ user.pc = "idle" /\ session # None
      /\ sync.account = session.account /\ sync.device = session.device
      /\ serving[h].token = sync.refresh /\ sync.refresh = credential[session.account]
      /\ sync.refresh \in DOMAIN issued /\ Good(sync.refresh, session.device)
      /\ \A g \in Handlers \ {h} : serving[g].pc = "free"
  BY <1>1, WaitedFor DEF Good, Rotate
<1>4. /\ ended' = ended \union {sync.refresh}
      /\ issued' = Appended(issued, issued[sync.refresh])
      /\ serving' = [serving EXCEPT ![h] = Free]
      /\ sync' = [sync EXCEPT !.pc = "store", !.token = NewToken, !.handler = None]
  BY <1>3 DEF Rotate, IssueSession
<1>5. /\ \A t \in DOMAIN issued : t \in DOMAIN issued' /\ issued'[t] = issued[t]
      /\ NewToken \notin DOMAIN issued /\ NewToken \in DOMAIN issued'
      /\ issued'[NewToken] = issued[sync.refresh]
      /\ \A t \in DOMAIN issued' : t \in DOMAIN issued \/ t = NewToken
  BY <1>4, AppendedFacts DEF IInv, ServerInv, NumberInv, NewToken
<1>6. NewToken \notin ended'
  BY <1>3, <1>4, <1>5 DEF IInv, ServerInv, ServerTypeOK
<1>7. /\ sync'.pc = "store" /\ sync'.token = NewToken
      /\ sync'.account = sync.account /\ sync'.device = sync.device
  BY <1>4 DEF IInv, SyncTypeOK
<1>8. \A g \in Handlers : serving'[g].pc = "free"
  BY <1>3, <1>4, FreeIsRecord DEF IInv, ServerInv, ServingTypeOK
<1>9. OneAtATime'
  BY <1>1, <1>2, <1>3, <1>4, <1>5, <1>6, <1>7, <1>8 DEF Calm, OneAtATime, Unlocking, Awaited
<1>10. NoneElse'
  BY <1>1, <1>2, <1>3, <1>4, <1>5, <1>6, <1>7, <1>8 DEF Calm, NoneElse, Kept
<1>11. Carried'
  BY <1>1, <1>2, <1>3, <1>4, <1>5, <1>6, <1>7, <1>8 DEF Calm, Carried
<1>12. AllGood'
  BY <1>1, <1>2, <1>3, <1>4, <1>5, <1>6, <1>7, <1>8 DEF Calm, AllGood, Unlocking, Good
<1>13. OneLive'
  BY <1>1, <1>2, <1>3, <1>4, <1>5, <1>6, <1>7, <1>8 DEF Calm, OneLive, Current, Unlocking
<1> QED
  BY <1>9, <1>10, <1>11, <1>12, <1>13 DEF Calm

LEMMA SignInCalm ==
  ASSUME IInv, CalmInv, SignIn, Undisturbed'
  PROVE  Calm'
<1>1. Undisturbed /\ Calm
  BY DEF CalmInv, Undisturbed, SignIn
<1>2. UNCHANGED <<serving, revoked, ended, credential, session, sync>>
  BY DEF SignIn, desktop
<1>3. user.pc = "idle" /\ session = None /\ sync.pc = "off"
  BY DEF SignIn, Undisturbed, Crossed
<1>4. /\ issued' = Appended(issued, Count(device) + 1)
      /\ user'.pc = "unlock credential" /\ user'.token = NewToken
  <2>1. PICK a \in Accounts :
          /\ issued' = Appended(issued, Count(device) + 1)
          /\ user' = [pc |-> "unlock credential", account |-> a, token |-> NewToken]
    BY DEF SignIn, IssueSession
  <2> QED
    BY <2>1
<1>5. /\ \A t \in DOMAIN issued : t \in DOMAIN issued' /\ issued'[t] = issued[t]
      /\ NewToken \notin DOMAIN issued /\ NewToken \in DOMAIN issued'
      /\ \A t \in DOMAIN issued' : t \in DOMAIN issued \/ t = NewToken
  <2> DEFINE d == Count(device) + 1
  <2>1. issued' = Appended(issued, d)
    BY <1>4
  <2> HIDE DEF d
  <2> QED
    BY <2>1, AppendedFacts DEF IInv, ServerInv, NumberInv, NewToken
<1>6. NewToken \notin ended'
  BY <1>2, <1>5 DEF IInv, ServerInv, ServerTypeOK
<1>7. /\ \A a \in Accounts : credential[a] = None
      /\ \A t \in DOMAIN issued \ ended : issued[t] \in revoked
  BY <1>1, <1>3, SessionsAssumption
     DEF IInv, ServerInv, ServerTypeOK, Tokens, Calm, NoneElse, Kept, OneLive, Current, Unlocking
<1>8. OneAtATime'
  BY <1>1, <1>2, <1>3, <1>4, <1>5, <1>6, <1>7 DEF Calm, OneAtATime, Unlocking, Awaited
<1>9. NoneElse'
  BY <1>1, <1>2, <1>3, <1>4, <1>5, <1>6, <1>7 DEF Calm, NoneElse, Kept
<1>10. Carried'
  BY <1>1, <1>2, <1>3, <1>4, <1>5, <1>6, <1>7 DEF Calm, Carried
<1>11. AllGood'
  BY <1>1, <1>2, <1>3, <1>4, <1>5, <1>6, <1>7 DEF Calm, AllGood, Unlocking, Good
<1>12. OneLive'
  BY <1>1, <1>2, <1>3, <1>4, <1>5, <1>6, <1>7 DEF Calm, OneLive, Current, Unlocking
<1> QED
  BY <1>8, <1>9, <1>10, <1>11, <1>12 DEF Calm

-----------------------------------------------------------------------------
(* While nothing disturbs it, the desktop holds the one live session.      *)
THEOREM Calmness == Spec => []CalmInv
<1>1. Init => CalmInv
  <2> SUFFICES ASSUME Init PROVE Calm
    BY DEF CalmInv
  <2>1. /\ sync.pc = "off" /\ user.pc = "idle" /\ session = None /\ DOMAIN issued = {}
        /\ \A a \in Accounts : credential[a] = None
        /\ \A h \in Handlers : serving[h].pc = "free"
    BY DEF Init, Off, Idle, Free
  <2> QED
    BY <2>1 DEF Calm, OneAtATime, NoneElse, Carried, AllGood, OneLive, Unlocking
<1>2. IInv /\ CalmInv /\ Next => CalmInv'
  <2> SUFFICES ASSUME IInv, CalmInv, Next, Undisturbed' PROVE Calm'
    BY DEF CalmInv
  <2>1. CASE SyncStep
    BY <2>1, SyncBeginCalm, AccessTokenCalm, ReadCredentialCalm, RefreshCalm,
       StoreRefreshedCalm, AdoptCalm, InvalidateCalm, SendCalm DEF SyncStep
  <2>2. CASE UserStep
    BY <2>2, SignInCalm, UnlockCalm, LogoutBeginCalm, LogoutServerCalm, LogoutLocalCalm
       DEF UserStep
  <2>3. CASE \E h \in Handlers : RefreshStep(h) \/ RefreshFails(h)
    BY <2>3, RefreshSelectCalm, RefreshLockCalm, RotateCalm, RefreshFailsCalm DEF RefreshStep
  <2> QED
    BY <2>1, <2>2, <2>3, LossDisturbs, RevokeBeginCalm, RevokeCommitCalm, ExpireCalm DEF Next
<1>3. CalmInv /\ UNCHANGED vars => CalmInv'
  <2> SUFFICES ASSUME Undisturbed, Calm, UNCHANGED vars PROVE Calm'
    BY DEF CalmInv, Undisturbed, vars
  <2>1. UNCHANGED <<serving, revoked, issued, ended, credential, session, sync, user>>
    BY DEF vars, server, tables, desktop
  <2>2. OneAtATime' /\ NoneElse' /\ Carried'
    BY <2>1 DEF Calm, OneAtATime, NoneElse, Carried, Unlocking, Kept, Awaited
  <2>3. AllGood' /\ OneLive'
    BY <2>1 DEF Calm, AllGood, OneLive, Unlocking, Good, Current
  <2> QED
    BY <2>2, <2>3 DEF Calm
<1> QED
  BY Invariance, <1>1, <1>2, <1>3, PTL DEF Spec

(* The desktop gives a session up only for a revoked device, unless an     *)
(* answer was lost or a login or logout crossed a sync.                    *)
THEOREM NeverSignedOutInVain == Spec => []SignedOutForCause
<1>1. CalmInv => SignedOutForCause
  BY DEF CalmInv, Calm, Carried, SignedOutForCause
<1> QED
  BY Calmness, <1>1, PTL

(* At rest and undisturbed, the credential that is kept can be used.       *)
THEOREM Usable == Spec => []CredentialUsable
<1>1. IInv /\ CalmInv => CredentialUsable
  <2> SUFFICES ASSUME IInv, session # None, sync.pc = "off", user.pc = "idle", Calm
               PROVE  LET t == credential[session.account]
                      IN  /\ t # None /\ issued[t] = session.device
                          /\ t \notin ended \/ session.device \in revoked
    BY DEF CalmInv, CredentialUsable
  <2>1. Good(credential[session.account], session.device)
    BY DEF Calm, AllGood
  <2> QED
    BY <2>1, SessionsAssumption DEF IInv, ServerInv, ServerTypeOK, Tokens, Good
<1> QED
  BY Invariance, Calmness, <1>1, PTL

(* After an undisturbed logout nothing is left to sign in with.            *)
THEOREM SignedOutIsOut == Spec => []NothingLeftSignedIn
<1>1. IInv /\ CalmInv => NothingLeftSignedIn
  <2> SUFFICES ASSUME IInv, session = None, sync.pc = "off", user.pc = "idle", Calm
               PROVE  /\ \A a \in Accounts : credential[a] = None
                      /\ \A t \in DOMAIN issued \ ended : issued[t] \in revoked
    BY DEF CalmInv, NothingLeftSignedIn
  <2>1. \A a \in Accounts : credential[a] = None
    BY DEF Calm, NoneElse, Kept
  <2>2. Current = None
    BY DEF Current, Unlocking
  <2> QED
    BY <2>1, <2>2, SessionsAssumption DEF IInv, ServerInv, ServerTypeOK, Tokens, Calm, OneLive
<1> QED
  BY Invariance, Calmness, <1>1, PTL
=============================================================================
