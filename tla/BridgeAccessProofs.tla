------------------------- MODULE BridgeAccessProofs -------------------------
(***************************************************************************)
(* Proofs about BridgeAccess, for any clients, requests, grants,           *)
(* confirmations and alerts, any number of concurrent calls and any        *)
(* lifetimes of codes and tokens.  The inductive invariant has a part for  *)
(* each group of variables that the actions change together: tokens,       *)
(* calls and confirmations, alerts, and the confirmed writes that were     *)
(* made.                                                                   *)
(***************************************************************************)
EXTENDS BridgeAccess, TLAPS

USE BridgeAssumption

(* A request belongs to a client, and has a code only when it is approved.  *)
RequestOK(r) ==
    /\ r.status # "absent" => r.client \in Clients
    /\ r.code # "none" => r.status = "approved"

(* A grant came of a code that was redeemed in time.                        *)
GrantOK(g, requests) ==
    g.status # "absent" =>
        /\ g.request \in Requests
        /\ requests[g.request].code = "consumed"
        /\ g.access <= g.refresh
        /\ g.refresh < requests[g.request].codeExpires + RefreshTTL

TokenInv ==
    /\ client \in [Clients -> ClientStatus]
    /\ request \in [Requests -> Request]
    /\ grant \in [Grants -> Grant]
    /\ \A q \in Requests : RequestOK(request[q])
    /\ \A g \in Grants : GrantOK(grant[g], request)
    /\ OneLiveGrant

(* What a call works on is a record of the table its step goes to, and a    *)
(* call that is about to acknowledge has consumed its confirmation.         *)
CallOK(s, table) ==
    /\ s.step \in {"begin", "revoke"} => s.subject \in Clients
    /\ s.step \in {"consent", "decide", "code", "redeem"} => s.subject \in Requests
    /\ s.step \in {"refresh", "rotate"} => s.subject \in Grants
    /\ s.step = "prepare" => s.alert \in Alerts
    /\ s.step \in {"consume", "acknowledge"} => s.subject \in Confirmations
    /\ s.step = "consume" => table[s.subject].status # "absent"
    /\ s.step = "acknowledge" => table[s.subject].status = "consumed"

CallInv ==
    /\ confirmation \in [Confirmations -> Confirmation]
    /\ \A k \in Confirmations :
           confirmation[k].status # "absent" => confirmation[k].alert \in Alerts
    /\ call \in [Callers -> Call]
    /\ \A u \in Callers : CallOK(call[u], confirmation)

(* What a revocation found is still there when it commits. *)
FoundInv == \A u \in Callers : \A g \in call[u].grants : grant[g].status # "absent"

(* Grants are never deleted. *)
GrantsStay == \A g \in Grants : grant[g].status # "absent" => grant'[g].status # "absent"

AlertInv ==
    /\ alert \in [Alerts -> Alert]
    /\ history \in [Alerts -> Seq(Entry)]
    /\ \A a \in Alerts : /\ Len(history[a]) = alert[a].revision
                         /\ alert[a].status = "absent" => alert[a].revision = 0

ActedInv == acted \subseteq Confirmations \X Nat /\ ConfirmedAsPrepared

BridgeInv == clock \in Nat /\ TokenInv /\ CallInv /\ FoundInv /\ AlertInv /\ ActedInv

-----------------------------------------------------------------------------
(* Tokens.                                                                 *)

LEMMA TokensUnchanged ==
    ASSUME TokenInv, UNCHANGED <<client, request, grant>>
    PROVE  TokenInv'
BY DEF TokenInv, OneLiveGrant

LEMMA ClientSteps ==
    ASSUME TokenInv, NEW c \in Clients,
           \/ CreateClient(c)
           \/ \E status \in {"active", "revoked"} : ImportExchangeClient(c, status)
    PROVE  TokenInv'
<1>1. client' \in [Clients -> ClientStatus] /\ UNCHANGED <<request, grant>>
  BY DEF CreateClient, ImportExchangeClient, TokenInv, ClientStatus
<1> QED BY <1>1 DEF TokenInv, OneLiveGrant

LEMMA RevocationStep ==
    ASSUME TokenInv, FoundInv, NEW u \in Callers, call[u] \in Call,
           CallOK(call[u], confirmation), CommitRevocation(u)
    PROVE  TokenInv' /\ GrantsStay
<1>1. /\ call[u].subject \in Clients /\ UNCHANGED request
      /\ client' = [client EXCEPT ![call[u].subject] = "revoked"]
      /\ \A g \in Grants :
             \/ g \in call[u].grants /\ grant'[g] = [grant[g] EXCEPT !.status = "revoked"]
             \/ grant'[g] = grant[g]
  BY DEF CommitRevocation, CallOK
<1>2. client' \in [Clients -> ClientStatus]
  BY <1>1 DEF TokenInv, ClientStatus
<1>3. ASSUME NEW g \in Grants
      PROVE  /\ grant'[g] \in Grant /\ GrantOK(grant'[g], request)
             /\ grant'[g].status = "live" => grant'[g] = grant[g]
             /\ grant[g].status # "absent" => grant'[g].status # "absent"
  <2>1. GrantOK(grant[g], request) /\ grant[g] \in Grant
    BY DEF TokenInv
  <2>2. CASE g \in call[u].grants /\ grant'[g] = [grant[g] EXCEPT !.status = "revoked"]
    <3>1. grant[g].status # "absent"
      BY <2>2 DEF FoundInv
    <3>2. /\ grant'[g] \in Grant /\ grant'[g].status = "revoked"
          /\ grant'[g].request = grant[g].request /\ grant'[g].access = grant[g].access
          /\ grant'[g].refresh = grant[g].refresh
      BY <2>1, <2>2 DEF Grant
    <3> QED BY <2>1, <3>1, <3>2 DEF GrantOK
  <2>3. CASE grant'[g] = grant[g]
    BY <2>1, <2>3
  <2> QED BY <1>1, <2>2, <2>3
<1>4. grant' \in [Grants -> Grant]
  BY <1>3 DEF CommitRevocation
<1>5. OneLiveGrant'
  BY <1>3 DEF TokenInv, OneLiveGrant
<1> QED BY <1>1, <1>2, <1>3, <1>4, <1>5 DEF TokenInv, GrantsStay

LEMMA RevokeGrantStep ==
    ASSUME TokenInv, NEW g \in Grants, RevokeGrant(g)
    PROVE  TokenInv'
<1>1. /\ UNCHANGED <<client, request>> /\ grant' = [grant EXCEPT ![g].status = "revoked"]
  BY DEF RevokeGrant
<1>2. /\ grant[g] \in Grant /\ grant' \in [Grants -> Grant]
      /\ grant'[g] = [grant[g] EXCEPT !.status = "revoked"]
      /\ \A h \in Grants : h # g => grant'[h] = grant[h]
  BY <1>1 DEF TokenInv, Grant
<1>3. /\ grant'[g].status = "revoked" /\ grant'[g].request = grant[g].request
      /\ grant'[g].access = grant[g].access /\ grant'[g].refresh = grant[g].refresh
  BY <1>2 DEF Grant
<1>4. \A h \in Grants : GrantOK(grant'[h], request)
  BY <1>2, <1>3 DEF TokenInv, GrantOK, RevokeGrant
<1>5. OneLiveGrant'
  BY <1>2, <1>3, ZenonT(60) DEF TokenInv, OneLiveGrant
<1> QED
  BY <1>1, <1>2, <1>4, <1>5 DEF TokenInv

LEMMA RequestSteps ==
    ASSUME TokenInv, clock \in Nat, NEW u \in Callers, call[u] \in Call,
           CallOK(call[u], confirmation),
           \/ \E q \in Requests : CreateAuthorizationRequest(u, q)
           \/ DecideConsent(u)
    PROVE  TokenInv'
<1>1. UNCHANGED <<client, grant>>
  BY DEF CreateAuthorizationRequest, DecideConsent
<1>2. ASSUME NEW q \in Requests, NEW new \in Request, RequestOK(new),
             request' = [request EXCEPT ![q] = new], request[q].code # "consumed"
      PROVE  TokenInv'
  <2>1. /\ request' \in [Requests -> Request]
        /\ request'[q] = new /\ \A p \in Requests : p # q => request'[p] = request[p]
    BY <1>2 DEF TokenInv
  <2>2. \A p \in Requests : RequestOK(request'[p])
    BY <1>2, <2>1 DEF TokenInv
  <2>3. \A g \in Grants : GrantOK(grant[g], request')
    BY <1>2, <2>1 DEF TokenInv, GrantOK
  <2> QED BY <1>1, <2>1, <2>2, <2>3 DEF TokenInv, OneLiveGrant
<1>3. ASSUME NEW q \in Requests, CreateAuthorizationRequest(u, q) PROVE TokenInv'
  <2> DEFINE new == [AbsentRequest EXCEPT !.status = "pending",
                       !.client = call[u].subject, !.expires = clock + AuthorizeTTL]
  <2>1. /\ call[u].subject \in Clients /\ clock + AuthorizeTTL \in Nat
        /\ request' = [request EXCEPT ![q] = new]
    BY <1>3 DEF CreateAuthorizationRequest, CallOK
  <2>2. new \in Request /\ RequestOK(new)
    BY <2>1 DEF AbsentRequest, Request, RequestOK
  <2>3. request[q].code # "consumed"
    BY <1>3 DEF CreateAuthorizationRequest, TokenInv, RequestOK
  <2> HIDE DEF new
  <2> QED BY <1>2, <2>1, <2>2, <2>3
<1>4. CASE DecideConsent(u)
  <2> DEFINE q == call[u].subject
             yes == [request[q] EXCEPT !.status = "approved", !.code = "issued",
                                       !.codeExpires = call[u].now + CodeTTL]
             no == [request[q] EXCEPT !.status = "denied"]
  <2>1. q \in Requests /\ request[q] \in Request /\ call[u].now + CodeTTL \in Nat
    BY <1>4 DEF DecideConsent, CallOK, TokenInv, Call
  <2>2. CASE UNCHANGED request
    BY <1>1, <2>2, TokensUnchanged
  <2>3. CASE Undecided(q) /\ request' = [request EXCEPT ![q] =
                                           IF call[u].approved THEN yes ELSE no]
    <3>1. RequestOK(request[q]) /\ request[q].status = "pending" /\ request[q].code = "none"
      BY <2>1, <2>3 DEF Undecided, TokenInv, RequestOK
    <3>2. yes \in Request /\ RequestOK(yes)
      BY <2>1, <3>1 DEF Request, RequestOK
    <3>3. no \in Request /\ RequestOK(no)
      BY <2>1, <3>1 DEF Request, RequestOK
    <3>4. request[q].code # "consumed"
      BY <3>1
    <3> HIDE DEF q, yes, no
    <3> QED BY <1>2, <2>1, <2>3, <3>2, <3>3, <3>4
  <2> QED BY <1>4, <2>2, <2>3 DEF DecideConsent
<1> QED
  BY <1>3, <1>4

LEMMA CodeStep ==
    ASSUME TokenInv, NEW u \in Callers, call[u] \in Call, CallOK(call[u], confirmation),
           NEW g \in Grants, ExchangeAuthorizationCode(u, g)
    PROVE  TokenInv'
<1> DEFINE q == call[u].subject
           now == call[u].now
           new == NewGrant(q, now)
<1>1. /\ q \in Requests /\ request[q] \in Request /\ now \in Nat /\ UNCHANGED client
      /\ grant[g].status = "absent"
  BY DEF ExchangeAuthorizationCode, CallOK, TokenInv, Call, IsNext
<1>2. CASE UNCHANGED <<request, grant>>
  BY <1>1, <1>2, TokensUnchanged
<1>3. CASE /\ Redeemable(q, now) /\ request' = [request EXCEPT ![q].code = "consumed"]
           /\ grant' = [grant EXCEPT ![g] = new]
  <2>1. /\ request[q].code = "issued" /\ request[q].codeExpires > now
    BY <1>3 DEF Redeemable
  <2>2. /\ request' \in [Requests -> Request]
        /\ request'[q] = [request[q] EXCEPT !.code = "consumed"]
        /\ \A p \in Requests : p # q => request'[p] = request[p]
    BY <1>1, <1>3 DEF TokenInv, Request
  <2>3. /\ request'[q].status = request[q].status /\ request'[q].code = "consumed"
        /\ request'[q].client = request[q].client
        /\ request'[q].codeExpires = request[q].codeExpires
    BY <1>1, <2>2 DEF Request
  <2>4. /\ new.status = "live" /\ new.request = q /\ new.access = now + AccessTTL
        /\ new.refresh = now + RefreshTTL
    BY DEF NewGrant
  <2>5. new \in Grant
    BY <1>1 DEF NewGrant, Grant
  <2>6. /\ grant' \in [Grants -> Grant] /\ grant'[g] = new
        /\ \A h \in Grants : h # g => grant'[h] = grant[h]
    BY <1>3, <2>5 DEF TokenInv
  <2>7. \A p \in Requests : RequestOK(request'[p])
    BY <1>1, <2>1, <2>2, <2>3 DEF TokenInv, RequestOK
  <2>8. ASSUME NEW h \in Grants, h # g
        PROVE  GrantOK(grant[h], request') /\ (grant[h].status = "live" => grant[h].request # q)
    <3>1. GrantOK(grant[h], request)
      BY DEF TokenInv
    <3> QED BY <2>1, <2>2, <3>1 DEF GrantOK
  <2> HIDE DEF q, now, new
  <2>9. GrantOK(new, request')
    <3>1. request[q].codeExpires \in Nat
      BY <1>1 DEF Request
    <3>2. new.access <= new.refresh /\ new.refresh < request[q].codeExpires + RefreshTTL
      BY <1>1, <2>1, <2>4, <3>1
    <3> QED BY <1>1, <2>1, <2>3, <2>4, <3>2 DEF GrantOK
  <2>10. OneLiveGrant'
    BY <2>4, <2>6, <2>8 DEF TokenInv, OneLiveGrant
  <2> QED BY <1>1, <2>2, <2>6, <2>7, <2>8, <2>9, <2>10 DEF TokenInv
<1> QED
  BY <1>2, <1>3 DEF ExchangeAuthorizationCode

LEMMA RotationStep ==
    ASSUME TokenInv, NEW u \in Callers, call[u] \in Call, CallOK(call[u], confirmation),
           NEW h \in Grants, RotateRefreshToken(u, h)
    PROVE  TokenInv'
<1> DEFINE g == call[u].subject
           now == call[u].now
           new == Replacement(grant[g], now)
<1>1. /\ g \in Grants /\ grant[g] \in Grant /\ now \in Nat /\ UNCHANGED <<client, request>>
      /\ grant[h].status = "absent"
  BY DEF RotateRefreshToken, CallOK, TokenInv, Call, IsNext
<1>2. CASE UNCHANGED grant
  BY <1>1, <1>2, TokensUnchanged
<1>3. CASE Rotatable(g, now) /\ grant' = [grant EXCEPT ![g].status = "revoked", ![h] = new]
  <2>1. /\ grant[g].status = "live" /\ g # h
        /\ grant[g].access \in Nat /\ grant[g].refresh \in Nat
        /\ grant[g].request \in Requests \cup {NoOne}
    BY <1>1, <1>3 DEF Rotatable, Grant
  <2>2. /\ new.status = "live" /\ new.request = grant[g].request
        /\ new.refresh = grant[g].refresh /\ new.access <= new.refresh /\ new.access \in Nat
    BY <1>1, <2>1 DEF Replacement
  <2>3. new \in Grant
    BY <1>1, <2>1 DEF Replacement, Grant
  <2>4. /\ grant' \in [Grants -> Grant] /\ grant'[h] = new
        /\ grant'[g] = [grant[g] EXCEPT !.status = "revoked"]
        /\ \A i \in Grants \ {g, h} : grant'[i] = grant[i]
    <3>1. [grant[g] EXCEPT !.status = "revoked"] \in Grant
      BY <1>1 DEF Grant
    <3> HIDE DEF g, new
    <3> QED BY <1>1, <1>3, <2>1, <2>3, <3>1 DEF TokenInv
  <2>5. /\ grant'[g].status = "revoked" /\ grant'[g].request = grant[g].request
        /\ grant'[g].access = grant[g].access /\ grant'[g].refresh = grant[g].refresh
    BY <1>1, <2>4 DEF Grant
  <2> HIDE DEF g, now, new
  <2>6. ASSUME NEW i \in Grants PROVE GrantOK(grant'[i], request)
    <3>1. GrantOK(grant[i], request) /\ GrantOK(grant[g], request)
      BY <1>1 DEF TokenInv
    <3> QED BY <2>1, <2>2, <2>4, <2>5, <3>1, ZenonT(60) DEF GrantOK
  <2>7. \A i \in Grants \ {g, h} :
            grant[i].status = "live" => grant[i].request # grant[g].request
    BY <1>1, <2>1 DEF TokenInv, OneLiveGrant
  <2>8. OneLiveGrant'
    <3>1. ASSUME NEW i \in Grants, grant'[i].status = "live",
                 grant'[i].request = grant[g].request
          PROVE  i = h
      BY <2>4, <2>5, <2>7, <3>1
    <3>2. ASSUME NEW i \in Grants, NEW j \in Grants, i # h, j # h,
                 grant'[i].status = "live", grant'[j].status = "live",
                 grant'[i].request = grant'[j].request
          PROVE  i = j
      BY <2>4, <2>5, <3>2 DEF TokenInv, OneLiveGrant
    <3> QED BY <2>2, <2>4, <3>1, <3>2 DEF OneLiveGrant
  <2> QED BY <1>1, <2>4, <2>6, <2>8 DEF TokenInv
<1> QED
  BY <1>2, <1>3 DEF RotateRefreshToken

-----------------------------------------------------------------------------
(* Calls and confirmations.                                                *)

LEMMA CallTyped ==
    ASSUME NEW s \in Call
    PROVE  /\ IdleCall \in Call /\ CallOK(IdleCall, confirmation)
           /\ \A step \in Steps : [s EXCEPT !.step = step] \in Call
           /\ \A step \in Steps, now \in Nat :
                  [s EXCEPT !.step = step, !.now = now] \in Call
           /\ \A step \in Steps, now \in Nat,
                 subject \in Clients \cup Requests \cup Grants \cup Confirmations :
                  [IdleCall EXCEPT !.step = step, !.subject = subject, !.now = now] \in Call
           /\ \A q \in Requests, approved \in BOOLEAN :
                  [IdleCall EXCEPT !.step = "consent", !.subject = q,
                                   !.approved = approved] \in Call
           /\ \A a \in Alerts, revision \in Nat :
                  [IdleCall EXCEPT !.step = "prepare", !.alert = a,
                                   !.revision = revision] \in Call
           /\ \A c \in Clients, found \in SUBSET Grants :
                  [IdleCall EXCEPT !.step = "revoke", !.subject = c,
                                   !.grants = found] \in Call
<1>1. IdleCall \in Call /\ CallOK(IdleCall, confirmation)
  BY DEF IdleCall, Call, Steps, CallOK
<1>2. \A step \in Steps : [s EXCEPT !.step = step] \in Call
  BY DEF Call
<1>3. \A step \in Steps, now \in Nat : [s EXCEPT !.step = step, !.now = now] \in Call
  BY DEF Call
<1>4. \A step \in Steps, now \in Nat,
         subject \in Clients \cup Requests \cup Grants \cup Confirmations :
          [IdleCall EXCEPT !.step = step, !.subject = subject, !.now = now] \in Call
  BY DEF IdleCall, Call
<1>5. \A q \in Requests, approved \in BOOLEAN :
          [IdleCall EXCEPT !.step = "consent", !.subject = q, !.approved = approved] \in Call
  BY DEF IdleCall, Call, Steps
<1>6. \A a \in Alerts, revision \in Nat :
          [IdleCall EXCEPT !.step = "prepare", !.alert = a, !.revision = revision] \in Call
  BY DEF IdleCall, Call, Steps
<1>7. \A c \in Clients, found \in SUBSET Grants :
          [IdleCall EXCEPT !.step = "revoke", !.subject = c, !.grants = found] \in Call
  BY DEF IdleCall, Call, Steps
<1> QED
  BY <1>1, <1>2, <1>3, <1>4, <1>5, <1>6, <1>7

(* A step of one call that changes no confirmation. *)
LEMMA CallMoves ==
    ASSUME CallInv, NEW u \in Callers, NEW s \in Call, CallOK(s, confirmation),
           call' = [call EXCEPT ![u] = s], UNCHANGED confirmation
    PROVE  CallInv'
BY DEF CallInv

LEMMA CallReturns ==
    ASSUME CallInv, NEW u \in Callers, Return(u), UNCHANGED confirmation
    PROVE  CallInv'
<1>1. call[u] \in Call
  BY DEF CallInv
<1> QED BY <1>1, CallTyped, CallMoves DEF Return

LEMMA CallGoes ==
    ASSUME CallInv, UNCHANGED confirmation, NEW u \in Callers, NEW step \in Steps,
           NEW subject \in Clients \cup Requests \cup Grants \cup Confirmations,
           NEW now \in Nat, Goto(u, step, subject, now),
           CallOK([IdleCall EXCEPT !.step = step, !.subject = subject, !.now = now],
                  confirmation)
    PROVE  CallInv'
<1>1. call[u] \in Call
  BY DEF CallInv
<1>2. [IdleCall EXCEPT !.step = step, !.subject = subject, !.now = now] \in Call
  BY <1>1, CallTyped
<1> QED BY <1>2, CallMoves DEF Goto

(* The steps that only read, and the ones that end a call. *)
LEMMA ReadSteps ==
    ASSUME CallInv, AlertInv, clock \in Nat, NEW u \in Callers,
           \/ \E c \in Clients : RevokeClient(u, c) \/ BeginAuthorization(u, c)
           \/ \E q \in Requests :
                  \/ \E approved \in BOOLEAN : LoadRequest(u, q, approved)
                  \/ BeginCode(u, q)
           \/ LoadClient(u)
           \/ FindClient(u)
           \/ \E g \in Grants :
                  \/ BeginRefresh(u, g)
                  \/ \E a \in Alerts : PrepareAcknowledge(u, g, a)
                  \/ \E k \in Confirmations : ConfirmAcknowledge(u, g, k)
           \/ Abort(u)
    PROVE  CallInv'
<1>1. call[u] \in Call /\ CallOK(call[u], confirmation) /\ 0 \in Nat
  BY DEF CallInv
<1>2. ASSUME NEW c \in Clients, BeginAuthorization(u, c) PROVE CallInv'
  <2>1. CallOK([IdleCall EXCEPT !.step = "begin", !.subject = c, !.now = 0], confirmation)
    BY DEF IdleCall, CallOK
  <2> QED BY <1>1, <1>2, <2>1, CallGoes DEF BeginAuthorization, Steps
<1>3. ASSUME NEW q \in Requests, NEW approved \in BOOLEAN, LoadRequest(u, q, approved)
      PROVE  CallInv'
  <2> DEFINE s == [IdleCall EXCEPT !.step = "consent", !.subject = q, !.approved = approved]
  <2>1. s \in Call
    BY <1>1, CallTyped
  <2>2. CallOK(s, confirmation)
    BY DEF IdleCall, CallOK
  <2>3. call' = [call EXCEPT ![u] = s] /\ UNCHANGED confirmation
    BY <1>3 DEF LoadRequest
  <2> HIDE DEF s
  <2> QED BY <2>1, <2>2, <2>3, CallMoves
<1>4. ASSUME NEW q \in Requests, BeginCode(u, q) PROVE CallInv'
  <2>1. CallOK([IdleCall EXCEPT !.step = "code", !.subject = q, !.now = clock], confirmation)
    BY DEF IdleCall, CallOK
  <2> QED BY <1>4, <2>1, CallGoes DEF BeginCode, Steps
<1>5. CASE LoadClient(u)
  <2> DEFINE s == [call[u] EXCEPT !.step = "decide", !.now = clock]
  <2>1. CASE Return(u)
    BY <1>5, <2>1, CallReturns DEF LoadClient
  <2>2. CASE call' = [call EXCEPT ![u].step = "decide", ![u].now = clock]
    <3>1. s \in Call
      BY <1>1, CallTyped DEF Steps
    <3>2. s.step = "decide" /\ s.subject = call[u].subject
      BY <1>1 DEF Call
    <3>3. call' = [call EXCEPT ![u] = s] /\ UNCHANGED confirmation
      BY <1>5, <2>2 DEF LoadClient, CallInv
    <3> HIDE DEF s
    <3>4. CallOK(s, confirmation)
      BY <1>1, <1>5, <3>2 DEF CallOK, LoadClient
    <3> QED BY <3>1, <3>3, <3>4, CallMoves
  <2> QED BY <1>5, <2>1, <2>2 DEF LoadClient
<1>6. ASSUME NEW g \in Grants, BeginRefresh(u, g) PROVE CallInv'
  <2>1. CallOK([IdleCall EXCEPT !.step = "refresh", !.subject = g, !.now = clock],
               confirmation)
    BY DEF IdleCall, CallOK
  <2> QED BY <1>6, <2>1, CallGoes DEF BeginRefresh, Steps
<1>7. ASSUME NEW g \in Grants, NEW a \in Alerts, PrepareAcknowledge(u, g, a) PROVE CallInv'
  <2> DEFINE s == [IdleCall EXCEPT !.step = "prepare", !.alert = a,
                                   !.revision = alert[a].revision]
  <2>1. alert[a].revision \in Nat
    BY DEF AlertInv, Alert
  <2>2. s \in Call
    BY <1>1, <2>1, CallTyped
  <2>3. CallOK(s, confirmation)
    BY DEF IdleCall, CallOK
  <2>4. call' = [call EXCEPT ![u] = s] /\ UNCHANGED confirmation
    BY <1>7 DEF PrepareAcknowledge
  <2> HIDE DEF s
  <2> QED BY <2>2, <2>3, <2>4, CallMoves
<1>8. ASSUME NEW g \in Grants, NEW k \in Confirmations, ConfirmAcknowledge(u, g, k)
      PROVE  CallInv'
  <2>1. CallOK([IdleCall EXCEPT !.step = "consume", !.subject = k, !.now = 0], confirmation)
    BY <1>8 DEF ConfirmAcknowledge, IdleCall, CallOK
  <2> QED BY <1>1, <1>8, <2>1, CallGoes DEF ConfirmAcknowledge, Steps
<1>9. CASE Abort(u)
  BY <1>9, CallReturns DEF Abort
<1>10. ASSUME NEW c \in Clients, RevokeClient(u, c) PROVE CallInv'
  <2> DEFINE found == {g \in Grants : /\ grant[g].status # "absent"
                                      /\ request[grant[g].request].client = c}
             s == [IdleCall EXCEPT !.step = "revoke", !.subject = c, !.grants = found]
  <2>1. s \in Call
    BY <1>1, CallTyped
  <2>2. CallOK(s, confirmation)
    BY DEF IdleCall, CallOK
  <2>3. call' = [call EXCEPT ![u] = s] /\ UNCHANGED confirmation
    BY <1>10 DEF RevokeClient
  <2> HIDE DEF s
  <2> QED BY <2>1, <2>2, <2>3, CallMoves
<1>11. CASE FindClient(u)
  <2>1. CASE Return(u)
    BY <1>11, <2>1, CallReturns DEF FindClient
  <2>2. ASSUME NEW step \in {"redeem", "rotate"},
               step = "redeem" => call[u].step = "code",
               step = "rotate" => call[u].step = "refresh",
               call' = [call EXCEPT ![u].step = step]
        PROVE  CallInv'
    <3> DEFINE s == [call[u] EXCEPT !.step = step]
    <3>1. s \in Call
      BY <1>1, <2>2, CallTyped DEF Steps
    <3>2. s.step = step /\ s.subject = call[u].subject
      BY <1>1 DEF Call
    <3>3. call' = [call EXCEPT ![u] = s] /\ UNCHANGED confirmation
      BY <1>11, <2>2 DEF FindClient, CallInv
    <3> HIDE DEF s
    <3>4. CallOK(s, confirmation)
      BY <1>1, <2>2, <3>2 DEF CallOK
    <3> QED BY <3>1, <3>3, <3>4, CallMoves
  <2>3. \/ Return(u)
        \/ /\ call[u].step = "code" /\ call' = [call EXCEPT ![u].step = "redeem"]
        \/ /\ call[u].step = "refresh" /\ call' = [call EXCEPT ![u].step = "rotate"]
    BY <1>11 DEF FindClient, CallInv
  <2> QED BY <2>1, <2>2, <2>3
<1> QED
  BY <1>2, <1>3, <1>4, <1>5, <1>6, <1>7, <1>8, <1>9, <1>10, <1>11

-----------------------------------------------------------------------------
(* What a revocation found.                                                *)

LEMMA Stays ==
    ASSUME TokenInv,
           \/ UNCHANGED grant
           \/ \E g \in Grants : RevokeGrant(g)
           \/ \E u \in Callers, g \in Grants :
                  ExchangeAuthorizationCode(u, g) \/ RotateRefreshToken(u, g)
    PROVE  GrantsStay
<1>1. CASE UNCHANGED grant
  BY <1>1 DEF GrantsStay
<1>2. ASSUME NEW g \in Grants, RevokeGrant(g) PROVE GrantsStay
  BY <1>2 DEF GrantsStay, RevokeGrant, TokenInv, Grant
<1>3. ASSUME NEW u \in Callers, NEW g \in Grants, ExchangeAuthorizationCode(u, g)
      PROVE  GrantsStay
  BY <1>3 DEF GrantsStay, ExchangeAuthorizationCode, TokenInv, IsNext
<1>4. ASSUME NEW u \in Callers, NEW g \in Grants, RotateRefreshToken(u, g)
      PROVE  GrantsStay
  <2> DEFINE old == call[u].subject
  <2>1. ASSUME NEW h \in Grants, grant[h].status # "absent" PROVE grant'[h].status # "absent"
    <3>1. h # g
      BY <1>4, <2>1 DEF RotateRefreshToken, IsNext
    <3>2. grant[h] \in Grant /\ (grant'[h] = grant[h] \/ grant'[h] = [grant[h] EXCEPT !.status = "revoked"])
      BY <1>4, <3>1 DEF RotateRefreshToken, TokenInv
    <3> QED BY <2>1, <3>2 DEF Grant
  <2> QED BY <2>1 DEF GrantsStay
<1> QED BY <1>1, <1>2, <1>3, <1>4

LEMMA FoundKept ==
    ASSUME CallInv, FoundInv, GrantsStay,
           \A u \in Callers : call'[u].grants \subseteq call[u].grants
    PROVE  FoundInv'
<1>1. \A u \in Callers : call[u].grants \subseteq Grants
  BY DEF CallInv, Call
<1> QED BY <1>1 DEF FoundInv, GrantsStay

LEMMA FoundOfCall ==
    ASSUME CallInv, FoundInv, GrantsStay, NEW u \in Callers,
           \/ Return(u)
           \/ \E step, subject, now : Goto(u, step, subject, now)
           \/ \E step : call' = [call EXCEPT ![u].step = step]
           \/ \E step, now : call' = [call EXCEPT ![u].step = step, ![u].now = now]
           \/ \E q, approved :
                  call' = [call EXCEPT ![u] = [IdleCall EXCEPT
                             !.step = "consent", !.subject = q, !.approved = approved]]
           \/ \E a, revision :
                  call' = [call EXCEPT ![u] = [IdleCall EXCEPT
                             !.step = "prepare", !.alert = a, !.revision = revision]]
    PROVE  FoundInv'
<1>1. call \in [Callers -> Call] /\ call[u] \in Call
  BY DEF CallInv
<1>2. ASSUME NEW v \in Callers PROVE call'[v].grants \subseteq call[v].grants
  <2>1. CASE v # u
    BY <1>1, <2>1 DEF Return, Goto
  <2>2. CASE v = u
    <3>1. ASSUME NEW step, call' = [call EXCEPT ![u].step = step]
          PROVE  call'[u].grants = call[u].grants
      BY <1>1, <3>1 DEF Call
    <3>2. ASSUME NEW step, NEW now, call' = [call EXCEPT ![u].step = step, ![u].now = now]
          PROVE  call'[u].grants = call[u].grants
      BY <1>1, <3>2 DEF Call
    <3>3. ASSUME Return(u) PROVE call'[u].grants = {}
      BY <1>1, <3>3 DEF Return, IdleCall
    <3>4. ASSUME NEW step, NEW subject, NEW now, Goto(u, step, subject, now)
          PROVE  call'[u].grants = {}
      BY <1>1, <3>4 DEF Goto, IdleCall
    <3>5. CASE \E q, approved :
                 call' = [call EXCEPT ![u] = [IdleCall EXCEPT
                            !.step = "consent", !.subject = q, !.approved = approved]]
      <4>1. call'[u].grants = {}
        BY <1>1, <3>5 DEF IdleCall
      <4> QED BY <2>2, <4>1
    <3>6. CASE \E a, revision :
                 call' = [call EXCEPT ![u] = [IdleCall EXCEPT
                            !.step = "prepare", !.alert = a, !.revision = revision]]
      <4>1. call'[u].grants = {}
        BY <1>1, <3>6 DEF IdleCall
      <4> QED BY <2>2, <4>1
    <3> QED BY <2>2, <3>1, <3>2, <3>3, <3>4, <3>5, <3>6
  <2> QED BY <2>1, <2>2
<1> QED BY <1>2, FoundKept

LEMMA FoundStep ==
    ASSUME TokenInv, CallInv, FoundInv, NEW u \in Callers, NEW c \in Clients,
           RevokeClient(u, c)
    PROVE  FoundInv'
<1>1. /\ UNCHANGED grant /\ call \in [Callers -> Call]
      /\ \A v \in Callers : v # u => call'[v] = call[v]
      /\ call'[u].grants = {g \in Grants : /\ grant[g].status # "absent"
                                           /\ request[grant[g].request].client = c}
  BY DEF RevokeClient, CallInv, IdleCall
<1> QED BY <1>1 DEF FoundInv

(* A confirmation moves on, and the call that moves it with it. *)
LEMMA ConfirmationMoves ==
    ASSUME CallInv, NEW u \in Callers, NEW s \in Call, NEW k \in Confirmations,
           NEW new \in Confirmation, new.alert \in Alerts,
           call' = [call EXCEPT ![u] = s],
           confirmation' = [confirmation EXCEPT ![k] = new],
           confirmation[k].status # "consumed", new.status # "absent",
           CallOK(s, confirmation')
    PROVE  CallInv'
<1>1. /\ confirmation' \in [Confirmations -> Confirmation] /\ confirmation'[k] = new
      /\ \A i \in Confirmations : i # k => confirmation'[i] = confirmation[i]
      /\ call' \in [Callers -> Call] /\ call'[u] = s
      /\ \A v \in Callers : v # u => call'[v] = call[v]
  BY DEF CallInv
<1>2. \A i \in Confirmations :
          confirmation'[i].status # "absent" => confirmation'[i].alert \in Alerts
  BY <1>1 DEF CallInv
<1>3. ASSUME NEW v \in Callers PROVE CallOK(call'[v], confirmation')
  <2>1. CallOK(call[v], confirmation)
    BY DEF CallInv
  <2> QED BY <1>1, <2>1 DEF CallOK
<1> QED
  BY <1>1, <1>2, <1>3 DEF CallInv

LEMMA PrepareStep ==
    ASSUME CallInv, clock \in Nat, NEW u \in Callers, NEW k \in Confirmations,
           PrepareConfirmation(u, k)
    PROVE  /\ CallInv'
           /\ \A i \in Confirmations :
                  confirmation[i].status = "consumed" => confirmation'[i] = confirmation[i]
<1> DEFINE new == [status |-> "prepared", alert |-> call[u].alert,
                   revision |-> call[u].revision, expires |-> clock + ConfirmationTTL]
<1>1. /\ call[u] \in Call /\ CallOK(call[u], confirmation) /\ call[u].step = "prepare"
      /\ confirmation[k].status = "absent" /\ Return(u)
      /\ confirmation' = [confirmation EXCEPT ![k] = new]
  BY DEF CallInv, PrepareConfirmation, IsNext
<1>2. /\ call[u].alert \in Alerts /\ call[u].revision \in Nat
      /\ clock + ConfirmationTTL \in Nat
  BY <1>1 DEF CallOK, Call
<1>3. new \in Confirmation /\ new.alert \in Alerts /\ new.status = "prepared"
  BY <1>2 DEF Confirmation
<1> HIDE DEF new
<1>4. IdleCall \in Call /\ CallOK(IdleCall, confirmation')
  BY <1>1, CallTyped DEF IdleCall, CallOK
<1>5. CallInv'
  BY <1>1, <1>3, <1>4, ConfirmationMoves DEF Return
<1> QED
  BY <1>1, <1>5 DEF CallInv

LEMMA ConsumeStep ==
    ASSUME CallInv, NEW u \in Callers, ConsumeConfirmation(u)
    PROVE  /\ CallInv'
           /\ \A i \in Confirmations :
                  confirmation[i].status = "consumed" => confirmation'[i] = confirmation[i]
<1> DEFINE k == call[u].subject
           s == [call[u] EXCEPT !.step = "acknowledge"]
           new == [confirmation[k] EXCEPT !.status = "consumed"]
<1>1. call[u] \in Call /\ CallOK(call[u], confirmation) /\ call[u].step = "consume"
  BY DEF CallInv, ConsumeConfirmation
<1>2. /\ k \in Confirmations /\ confirmation[k] \in Confirmation
      /\ confirmation[k].alert \in Alerts
  BY <1>1 DEF CallOK, CallInv
<1>3. CASE Return(u) /\ UNCHANGED confirmation
  BY <1>3, CallReturns
<1>4. CASE /\ confirmation[k].status = "prepared"
           /\ confirmation' = [confirmation EXCEPT ![k].status = "consumed"]
           /\ call' = [call EXCEPT ![u].step = "acknowledge"]
  <2>1. new \in Confirmation /\ new.alert \in Alerts /\ new.status = "consumed"
    BY <1>2 DEF Confirmation
  <2>2. s \in Call
    BY <1>1, CallTyped DEF Steps
  <2>3. s.step = "acknowledge" /\ s.subject = k
    BY <1>1 DEF Call
  <2>4. /\ confirmation' = [confirmation EXCEPT ![k] = new]
        /\ call' = [call EXCEPT ![u] = s]
    BY <1>2, <1>4 DEF CallInv
  <2> HIDE DEF k, s, new
  <2>5. CallOK(s, confirmation')
    <3>1. confirmation'[k] = new
      BY <1>2, <2>4 DEF CallInv
    <3> QED BY <1>2, <2>1, <2>3, <3>1 DEF CallOK
  <2>6. CallInv'
    BY <1>2, <1>4, <2>1, <2>2, <2>4, <2>5, ConfirmationMoves
  <2> QED BY <1>2, <1>4, <2>4, <2>6 DEF CallInv
<1> QED
  BY <1>3, <1>4 DEF ConsumeConfirmation

-----------------------------------------------------------------------------
(* Alerts.                                                                 *)

(* A step that adds one revision to one alert, and its entry. *)
Revises(a, row, action) ==
    /\ row \in Alert
    /\ row.status # "absent"
    /\ row.revision = alert[a].revision + 1
    /\ action \in Actions
    /\ alert' = [alert EXCEPT ![a] = row]
    /\ history' = [history EXCEPT ![a] = Append(@, [action |-> action,
                                                    revision |-> row.revision])]

(* Nothing that stands in a history is changed or lost. *)
HistoryGrows ==
    \A a \in Alerts :
        \A i \in DOMAIN history[a] :
            i \in DOMAIN history'[a] /\ history'[a][i] = history[a][i]

LEMMA RevisionKeeps ==
    ASSUME AlertInv, NEW a \in Alerts, NEW row, NEW action, Revises(a, row, action)
    PROVE  /\ AlertInv' /\ HistoryGrows
           /\ Len(history'[a]) = alert[a].revision + 1
           /\ history'[a][alert[a].revision + 1].action = action
<1> DEFINE entry == [action |-> action, revision |-> row.revision]
<1>1. /\ row \in Alert /\ row.status # "absent" /\ row.revision = alert[a].revision + 1
      /\ alert' = [alert EXCEPT ![a] = row]
      /\ history' = [history EXCEPT ![a] = Append(@, entry)]
      /\ alert[a].revision \in Nat
  BY DEF Revises, AlertInv, Alert
<1>2. entry \in Entry /\ entry.action = action
  BY <1>1 DEF Revises, Entry
<1> HIDE DEF entry
<1>3. /\ history[a] \in Seq(Entry) /\ history'[a] = Append(history[a], entry)
      /\ Len(history[a]) = alert[a].revision
      /\ \A b \in Alerts : b # a => history'[b] = history[b] /\ alert'[b] = alert[b]
      /\ alert'[a] = row
  BY <1>1 DEF AlertInv
<1>4. /\ Len(history'[a]) = alert[a].revision + 1
      /\ history'[a][alert[a].revision + 1] = entry
      /\ \A i \in DOMAIN history[a] :
             i \in DOMAIN history'[a] /\ history'[a][i] = history[a][i]
  BY <1>1, <1>2, <1>3
<1>5. alert' \in [Alerts -> Alert] /\ history' \in [Alerts -> Seq(Entry)]
  BY <1>1, <1>2 DEF AlertInv
<1>6. AlertInv'
  BY <1>1, <1>3, <1>4, <1>5 DEF AlertInv
<1>7. HistoryGrows
  BY <1>3, <1>4 DEF HistoryGrows
<1> QED
  BY <1>2, <1>4, <1>6, <1>7

LEMMA AcknowledgeRevises ==
    ASSUME AlertInv, NEW a \in Alerts, Life!Acknowledge(a)
    PROVE  Revises(a, Life!Acknowledged(alert[a]), "acknowledged")
<1>1. alert[a] \in Alert /\ alert[a].revision + 1 \in Nat
  BY DEF AlertInv, Alert
<1>2. /\ Life!Acknowledged(alert[a]) \in Alert
      /\ Life!Acknowledged(alert[a]).status = "acknowledged"
      /\ Life!Acknowledged(alert[a]).revision = alert[a].revision + 1
  BY <1>1 DEF Life!Acknowledged, Alert, OpenStatus
<1> QED
  BY <1>2 DEF Life!Acknowledge, Life!Store, Life!HistoryEntry, Revises, Actions

LEMMA LifeRevises ==
    ASSUME AlertInv, Life!Next
    PROVE  \E a \in Alerts, row \in Alert, action \in Actions : Revises(a, row, action)
<1>1. ASSUME NEW a \in Alerts
      PROVE  /\ alert[a] \in Alert /\ alert[a].revision + 1 \in Nat
             /\ alert[a].status = "absent" => alert[a].revision = 0
  BY DEF AlertInv, Alert
<1>2. ASSUME NEW a \in Alerts, Life!Create(a) PROVE Revises(a, Life!NewAlert, "created")
  <2>1. Life!NewAlert \in Alert /\ Life!NewAlert.status = "active" /\ Life!NewAlert.revision = 1
    BY DEF Life!NewAlert, Life!AbsentAlert, Alert, OpenStatus
  <2> QED
    BY <1>1, <1>2, <2>1 DEF Life!Create, Life!Store, Life!HistoryEntry, Revises, Actions
<1>3. ASSUME NEW a \in Alerts, Life!Observe(a)
      PROVE  Revises(a, Life!Observed(alert[a]), Life!ObservedAction(alert[a]))
  <2>1. /\ Life!Observed(alert[a]) \in Alert
        /\ Life!Observed(alert[a]).status # "absent"
        /\ Life!Observed(alert[a]).revision = alert[a].revision + 1
        /\ Life!ObservedAction(alert[a]) \in Actions
    BY <1>1, <1>3 DEF Life!Observe, Life!Observed, Life!ObservedAction, Alert, OpenStatus,
                      Actions
  <2> QED BY <1>3, <2>1 DEF Life!Observe, Life!Store, Life!HistoryEntry, Revises
<1>4. ASSUME NEW a \in Alerts, NEW who \in Assignees, Life!Assign(a, who)
      PROVE  Revises(a, Life!AssignedTo(alert[a], who), "assigned")
  <2>1. /\ Life!AssignedTo(alert[a], who) \in Alert
        /\ Life!AssignedTo(alert[a], who).status = alert[a].status
        /\ Life!AssignedTo(alert[a], who).revision = alert[a].revision + 1
    BY <1>1 DEF Life!AssignedTo, Alert
  <2> QED
    BY <1>4, <2>1 DEF Life!Assign, Life!Store, Life!HistoryEntry, Life!OpenStatus, Revises,
                      Actions
<1>5. ASSUME NEW a \in Alerts, Life!Resolve(a)
      PROVE  Revises(a, Life!Resolved(alert[a]), "resolved")
  <2>1. /\ Life!Resolved(alert[a]) \in Alert
        /\ Life!Resolved(alert[a]).status = "resolved"
        /\ Life!Resolved(alert[a]).revision = alert[a].revision + 1
    BY <1>1 DEF Life!Resolved, Alert
  <2> QED BY <1>5, <2>1 DEF Life!Resolve, Life!Store, Life!HistoryEntry, Revises, Actions
<1>6. \A a, row, action : Revises(a, row, action) => row \in Alert /\ action \in Actions
  BY DEF Revises
<1> QED
  BY <1>2, <1>3, <1>4, <1>5, <1>6, AcknowledgeRevises DEF Life!Next

-----------------------------------------------------------------------------
(* The confirmed writes.                                                   *)

(* What ConfirmedAsPrepared says of one write. *)
WrittenOK(p, table, hist) ==
    /\ table[p[1]].status = "consumed"
    /\ p[2] = table[p[1]].revision
    /\ table[p[1]].revision + 1 \in DOMAIN hist[table[p[1]].alert]
    /\ hist[table[p[1]].alert][table[p[1]].revision + 1].action = "acknowledged"

LEMMA ActedParts ==
    ConfirmedAsPrepared <=>
        /\ \A p \in acted : WrittenOK(p, confirmation, history)
        /\ \A p, r \in acted :
               /\ confirmation[r[1]].alert = confirmation[p[1]].alert
               /\ r[2] = p[2]
               => r = p
BY DEF ConfirmedAsPrepared, WrittenOK

(* A step that makes no confirmed write. *)
LEMMA ActedKept ==
    ASSUME CallInv, ActedInv, UNCHANGED acted, HistoryGrows,
           \A i \in Confirmations :
               confirmation[i].status = "consumed" => confirmation'[i] = confirmation[i]
    PROVE  ActedInv'
<1>1. ASSUME NEW p \in acted
      PROVE  /\ p[1] \in Confirmations /\ confirmation'[p[1]] = confirmation[p[1]]
             /\ confirmation[p[1]].alert \in Alerts /\ WrittenOK(p, confirmation, history)
  BY ActedParts DEF ActedInv, CallInv, WrittenOK
<1>2. \A p \in acted : WrittenOK(p, confirmation', history')
  BY <1>1 DEF WrittenOK, HistoryGrows
<1>3. \A p, r \in acted :
          /\ confirmation'[r[1]].alert = confirmation'[p[1]].alert
          /\ r[2] = p[2]
          => r = p
  BY <1>1, ActedParts DEF ActedInv
<1>4. ConfirmedAsPrepared'
  BY <1>2, <1>3 DEF ConfirmedAsPrepared, WrittenOK
<1> QED
  BY <1>4 DEF ActedInv

LEMMA AcknowledgeStep ==
    ASSUME CallInv, AlertInv, ActedInv, NEW u \in Callers, AcknowledgeConfirmed(u)
    PROVE  CallInv' /\ AlertInv' /\ ActedInv'
<1> DEFINE k == call[u].subject
           a == confirmation[k].alert
<1>1. CallInv' /\ UNCHANGED confirmation
  BY CallReturns DEF AcknowledgeConfirmed
<1>2. /\ k \in Confirmations /\ confirmation[k].status = "consumed" /\ a \in Alerts
      /\ confirmation[k] \in Confirmation
  BY DEF AcknowledgeConfirmed, CallInv, CallOK
<1>3. CASE UNCHANGED <<alert, history, acted>>
  <2>1. AlertInv' /\ HistoryGrows
    BY <1>3 DEF AlertInv, HistoryGrows
  <2> QED BY <1>1, <1>3, <2>1, ActedKept
<1>4. CASE /\ AtRevision(k) /\ Life!Acknowledge(a)
           /\ acted' = acted \cup {<<k, alert[a].revision>>}
  <2> DEFINE w == <<k, alert[a].revision>>
  <2>1. alert[a].revision = confirmation[k].revision /\ alert[a].revision \in Nat
    BY <1>2, <1>4 DEF AtRevision, AlertInv, Alert
  <2>2. /\ AlertInv' /\ HistoryGrows /\ Len(history'[a]) = alert[a].revision + 1
        /\ history'[a][alert[a].revision + 1].action = "acknowledged"
    <3>1. a \in Alerts /\ Life!Acknowledge(a)
      BY <1>2, <1>4
    <3> HIDE DEF k, a
    <3>2. Revises(a, Life!Acknowledged(alert[a]), "acknowledged")
      BY <3>1, AcknowledgeRevises
    <3> QED BY <3>1, <3>2, RevisionKeeps
  <2>3. w[1] = k /\ w[2] = alert[a].revision /\ w \in Confirmations \X Nat
    BY <1>2, <2>1
  <2>4. WrittenOK(w, confirmation, history')
    <3>1. DOMAIN history'[a] = 1..(alert[a].revision + 1)
      BY <1>2, <2>2 DEF AlertInv
    <3>2. alert[a].revision + 1 \in DOMAIN history'[a]
      BY <2>1, <3>1
    <3> QED BY <1>2, <2>1, <2>2, <2>3, <3>2 DEF WrittenOK
  <2> HIDE DEF k, w
  <2>5. ASSUME NEW p \in acted
        PROVE  /\ WrittenOK(p, confirmation, history')
               /\ confirmation[p[1]].alert = a => p[2] # w[2]
    <3>1. /\ p[1] \in Confirmations /\ WrittenOK(p, confirmation, history)
          /\ confirmation[p[1]].alert \in Alerts /\ p[2] \in Nat
      BY ActedParts DEF ActedInv, CallInv, WrittenOK
    <3>2. WrittenOK(p, confirmation, history')
      BY <2>2, <3>1 DEF WrittenOK, HistoryGrows
    <3>3. ASSUME confirmation[p[1]].alert = a PROVE p[2] # w[2]
      <4>1. p[2] + 1 \in DOMAIN history[a]
        BY <3>1, <3>3 DEF WrittenOK
      <4>2. DOMAIN history[a] = 1..alert[a].revision
        BY <1>2 DEF AlertInv
      <4> QED BY <2>1, <2>3, <3>1, <4>1, <4>2
    <3> QED BY <3>2, <3>3
  <2>6. \A p \in acted' : WrittenOK(p, confirmation, history')
    BY <1>4, <2>4, <2>5 DEF w
  <2>7. \A p, r \in acted' :
            /\ confirmation[r[1]].alert = confirmation[p[1]].alert
            /\ r[2] = p[2]
            => r = p
    <3>1. acted' = acted \cup {w}
      BY <1>4 DEF w
    <3>2. \A p, r \in acted :
              /\ confirmation[r[1]].alert = confirmation[p[1]].alert
              /\ r[2] = p[2]
              => r = p
      BY ActedParts DEF ActedInv
    <3> QED BY <2>3, <2>5, <3>1, <3>2
  <2>8. ConfirmedAsPrepared'
    <3>1. confirmation' = confirmation
      BY <1>1
    <3>2. \A p \in acted' : WrittenOK(p, confirmation', history')
      BY <2>6, <3>1
    <3>3. \A p, r \in acted' :
              /\ confirmation'[r[1]].alert = confirmation'[p[1]].alert
              /\ r[2] = p[2]
              => r = p
      BY <2>7, <3>1
    <3> QED BY <3>2, <3>3 DEF ConfirmedAsPrepared, WrittenOK
  <2>9. acted' \subseteq Confirmations \X Nat
    BY <1>4, <2>3 DEF ActedInv, w
  <2> QED BY <1>1, <2>2, <2>8, <2>9 DEF ActedInv
<1> QED
  BY <1>3, <1>4 DEF AcknowledgeConfirmed, lifeVars

-----------------------------------------------------------------------------
(* The invariant, and what follows from it.                                *)

LEMMA InitEstablishes ==
    ASSUME Init
    PROVE  BridgeInv
<1>1. TokenInv
  <2>1. AbsentRequest \in Request /\ RequestOK(AbsentRequest)
    BY DEF AbsentRequest, Request, RequestOK
  <2>2. AbsentGrant \in Grant /\ AbsentGrant.status = "absent"
    BY DEF AbsentGrant, Grant
  <2> QED BY <2>1, <2>2 DEF Init, TokenInv, ClientStatus, GrantOK, OneLiveGrant
<1>2. CallInv
  <2>1. AbsentConfirmation \in Confirmation /\ AbsentConfirmation.status = "absent"
    BY DEF AbsentConfirmation, Confirmation
  <2>2. IdleCall \in Call /\ CallOK(IdleCall, confirmation)
    BY DEF IdleCall, Call, Steps, CallOK
  <2> QED BY <2>1, <2>2 DEF Init, CallInv
<1>3. AlertInv
  <2>1. /\ Life!AbsentAlert \in Alert /\ Life!AbsentAlert.revision = 0
        /\ <<>> \in Seq(Entry) /\ Len(<<>>) = 0
    BY DEF Life!AbsentAlert, Alert
  <2> QED BY <2>1 DEF Init, Life!Init, AlertInv
<1>4. ActedInv
  BY DEF Init, ActedInv, ConfirmedAsPrepared
<1>5. FoundInv
  BY DEF Init, FoundInv, IdleCall
<1> QED
  BY <1>1, <1>2, <1>3, <1>4, <1>5 DEF Init, BridgeInv

(* A step that touches neither alerts nor confirmations. *)
LEMMA RestUnchanged ==
    ASSUME BridgeInv, UNCHANGED <<confirmation, lifeVars, acted>>
    PROVE  AlertInv' /\ ActedInv'
<1>1. AlertInv' /\ HistoryGrows
  BY DEF BridgeInv, AlertInv, HistoryGrows, lifeVars
<1> QED
  BY <1>1, ActedKept DEF BridgeInv

LEMMA CallsUnchanged ==
    ASSUME BridgeInv, UNCHANGED <<confirmation, call>>
    PROVE  CallInv'
BY DEF BridgeInv, CallInv

LEMMA StepPreserves ==
    ASSUME BridgeInv, [Next]_vars
    PROVE  BridgeInv'
<1> USE DEF BridgeInv
<1>1. CASE UNCHANGED vars
  BY <1>1, TokensUnchanged, CallsUnchanged, RestUnchanged, Stays, FoundKept DEF vars, lifeVars
<1>2. ASSUME NEW c \in Clients,
             \/ CreateClient(c)
             \/ \E status \in {"active", "revoked"} : ImportExchangeClient(c, status)
      PROVE  BridgeInv'
  <2>1. UNCHANGED <<clock, grant, confirmation, call, lifeVars, acted>>
    BY <1>2 DEF CreateClient, ImportExchangeClient
  <2> QED BY <1>2, <2>1, ClientSteps, CallsUnchanged, RestUnchanged, Stays, FoundKept
<1>3. ASSUME NEW g \in Grants, RevokeGrant(g) \/ RevokeToken(g) PROVE BridgeInv'
  <2>1. RevokeGrant(g) /\ UNCHANGED <<clock, confirmation, call, lifeVars, acted>>
    BY <1>3 DEF RevokeGrant, RevokeToken
  <2> QED BY <2>1, RevokeGrantStep, CallsUnchanged, RestUnchanged, Stays, FoundKept
<1>4. ASSUME NEW u \in Callers,
             \/ \E c \in Clients : RevokeClient(u, c) \/ BeginAuthorization(u, c)
             \/ \E q \in Requests :
                    \/ \E approved \in BOOLEAN : LoadRequest(u, q, approved)
                    \/ BeginCode(u, q)
             \/ LoadClient(u)
             \/ FindClient(u)
             \/ \E g \in Grants :
                    \/ BeginRefresh(u, g)
                    \/ \E a \in Alerts : PrepareAcknowledge(u, g, a)
                    \/ \E k \in Confirmations : ConfirmAcknowledge(u, g, k)
             \/ Abort(u)
      PROVE  BridgeInv'
  <2>1. UNCHANGED <<clock, client, request, grant, confirmation, lifeVars, acted>>
    BY <1>4 DEF RevokeClient, BeginAuthorization, LoadRequest, BeginCode, LoadClient,
                FindClient, BeginRefresh, PrepareAcknowledge, ConfirmAcknowledge, Abort
  <2>2. GrantsStay
    BY <2>1, Stays
  <2>3. ASSUME NEW c \in Clients, RevokeClient(u, c) PROVE FoundInv'
    BY <2>3, FoundStep
  <2>4. \/ \E c \in Clients : RevokeClient(u, c)
        \/ Return(u)
        \/ \E step, subject, now : Goto(u, step, subject, now)
        \/ \E step : call' = [call EXCEPT ![u].step = step]
        \/ \E step, now : call' = [call EXCEPT ![u].step = step, ![u].now = now]
        \/ \E q, approved :
               call' = [call EXCEPT ![u] = [IdleCall EXCEPT
                          !.step = "consent", !.subject = q, !.approved = approved]]
        \/ \E a, revision :
               call' = [call EXCEPT ![u] = [IdleCall EXCEPT
                          !.step = "prepare", !.alert = a, !.revision = revision]]
    BY <1>4 DEF BeginAuthorization, LoadRequest, BeginCode, LoadClient,
                FindClient, BeginRefresh, PrepareAcknowledge, ConfirmAcknowledge, Abort
  <2>5. FoundInv'
    BY <2>2, <2>3, <2>4, FoundOfCall
  <2> QED BY <1>4, <2>1, <2>5, TokensUnchanged, ReadSteps, RestUnchanged
<1>5. ASSUME NEW u \in Callers,
             \/ \E q \in Requests : CreateAuthorizationRequest(u, q)
             \/ DecideConsent(u)
             \/ \E g \in Grants :
                    ExchangeAuthorizationCode(u, g) \/ RotateRefreshToken(u, g)
             \/ CommitRevocation(u)
      PROVE  BridgeInv'
  <2>1. Return(u) /\ UNCHANGED <<clock, confirmation, lifeVars, acted>>
    BY <1>5 DEF CreateAuthorizationRequest, DecideConsent, ExchangeAuthorizationCode,
                RotateRefreshToken, CommitRevocation
  <2>2. call[u] \in Call /\ CallOK(call[u], confirmation)
    BY DEF CallInv
  <2>3. TokenInv'
    BY <1>5, <2>2, RequestSteps, CodeStep, RotationStep, RevocationStep
  <2>4. GrantsStay
    <3>1. CASE \/ \E q \in Requests : CreateAuthorizationRequest(u, q)
               \/ DecideConsent(u)
      BY <3>1, Stays DEF CreateAuthorizationRequest, DecideConsent
    <3> QED BY <1>5, <2>2, <3>1, Stays, RevocationStep
  <2>5. FoundInv'
    BY <2>1, <2>4, FoundOfCall
  <2> QED BY <2>1, <2>3, <2>5, CallReturns, RestUnchanged
<1>6. ASSUME NEW u \in Callers,
             (\E k \in Confirmations : PrepareConfirmation(u, k)) \/ ConsumeConfirmation(u)
      PROVE  BridgeInv'
  <2>1. UNCHANGED <<clock, client, request, grant, lifeVars, acted>>
    BY <1>6 DEF PrepareConfirmation, ConsumeConfirmation
  <2>2. AlertInv' /\ HistoryGrows
    BY <2>1 DEF AlertInv, HistoryGrows, lifeVars
  <2>3. CallInv' /\ ActedInv'
    BY <1>6, <2>1, <2>2, PrepareStep, ConsumeStep, ActedKept
  <2>4. \/ Return(u)
        \/ \E step : call' = [call EXCEPT ![u].step = step]
    BY <1>6 DEF PrepareConfirmation, ConsumeConfirmation
  <2>5. FoundInv'
    BY <2>1, <2>4, Stays, FoundOfCall
  <2> QED BY <2>1, <2>2, <2>3, <2>5, TokensUnchanged
<1>7. ASSUME NEW u \in Callers, AcknowledgeConfirmed(u) PROVE BridgeInv'
  <2>1. Return(u) /\ UNCHANGED <<clock, client, request, grant>>
    BY <1>7 DEF AcknowledgeConfirmed
  <2>2. FoundInv'
    BY <2>1, Stays, FoundOfCall
  <2> QED BY <1>7, <2>1, <2>2, AcknowledgeStep, TokensUnchanged
<1>8. CASE Tick
  <2>1. clock' \in Nat /\ UNCHANGED <<client, request, grant, confirmation, call, lifeVars, acted>>
    BY <1>8 DEF Tick
  <2> QED BY <2>1, TokensUnchanged, CallsUnchanged, RestUnchanged, Stays, FoundKept
<1>9. CASE OthersWork
  <2>1. UNCHANGED <<clock, client, request, grant, confirmation, call, acted>>
    BY <1>9 DEF OthersWork
  <2>2. AlertInv' /\ HistoryGrows
    BY <1>9, LifeRevises, RevisionKeeps DEF OthersWork
  <2> QED BY <2>1, <2>2, TokensUnchanged, CallsUnchanged, ActedKept, Stays, FoundKept
<1> QED
  BY <1>1, <1>2, <1>3, <1>4, <1>5, <1>6, <1>7, <1>8, <1>9 DEF Next

(* Every reachable state satisfies the inductive invariant. *)
LEMMA Invariance == Spec => []BridgeInv
BY InitEstablishes, StepPreserves, PTL DEF Spec

(* The records of bridge/service.go and of its store keep their shapes.     *)
THEOREM BridgeTypeCorrect == Spec => []TypeOK
<1>1. BridgeInv => TypeOK
  BY DEF BridgeInv, TokenInv, CallInv, AlertInv, ActedInv, TypeOK
<1> QED
  BY <1>1, Invariance, PTL

(* Nobody holds a grant that the person did not consent to, whatever calls  *)
(* decide one request at the same time.                                     *)
THEOREM ConsentPrecedesGrant == Spec => []GrantsHaveConsent
<1>1. BridgeInv => GrantsHaveConsent
  BY DEF BridgeInv, TokenInv, GrantOK, RequestOK, GrantsHaveConsent
<1> QED
  BY <1>1, Invariance, PTL

(* One consent yields one live grant at a time, however codes and refresh   *)
(* tokens are presented again by concurrent calls.                          *)
THEOREM TokensAreUsedOnce == Spec => []OneLiveGrant
<1>1. BridgeInv => OneLiveGrant
  BY DEF BridgeInv, TokenInv
<1> QED
  BY <1>1, Invariance, PTL

(* No number of rotations extends a session past the refresh period that    *)
(* began with its code.                                                     *)
THEOREM RotationsDoNotExtend == Spec => []SessionIsBounded
<1>1. BridgeInv => SessionIsBounded
  BY DEF BridgeInv, TokenInv, GrantOK, SessionIsBounded
<1> QED
  BY <1>1, Invariance, PTL

(* A confirmed acknowledgment is made at most once, and of the revision the *)
(* person was shown.                                                        *)
THEOREM ConfirmedWriteIsExact == Spec => []ConfirmedAsPrepared
<1>1. BridgeInv => ConfirmedAsPrepared
  BY DEF BridgeInv, ActedInv
<1> QED
  BY <1>1, Invariance, PTL
=============================================================================
