---------------------------- MODULE BridgeAccess ----------------------------
(***************************************************************************)
(* Bridge lets an outside client act for a signed-in person: a registered  *)
(* client asks for authorization, the person consents, a code is exchanged *)
(* for a grant with an access and a refresh token, and the refresh token   *)
(* is rotated.  A write through Bridge (the acknowledgment of an alert) is *)
(* prepared and confirmed in two calls.  This module models                *)
(* bridge/service.go, the confirmed write of bridge/mcp.go and its stores  *)
(* (repository/memory_bridge.go, repository/postgres/bridge.go), composed  *)
(* with the alerts of Signals, which others work on at the same time.      *)
(* Signals is taken at its word: its part is AlertLifecycle, which         *)
(* SignalsAlerts implements.                                               *)
(*                                                                         *)
(* Each store operation is one step; what a call does before it (reading   *)
(* another record, reading the clock) is a step of its own, and calls      *)
(* interleave.  The two token operations and the revocation of a client    *)
(* are two steps, because PostgreSQL reads the client without a lock       *)
(* before it inserts the grant, and commits the revocation after it has    *)
(* chosen the grants to revoke; in the memory store nothing comes between  *)
(* the two.  Secrets are unguessable, so a code or token is presented only *)
(* by a call that names the record it belongs to.                          *)
(***************************************************************************)
EXTENDS AlertRecord, FiniteSets

CONSTANTS
    Clients,          \* ids of OAuth clients
    Requests,         \* ids of authorization requests, and of their codes
    Grants,           \* ids of grants, numbered in the order of their creation
    Confirmations,    \* ids of confirmations, numbered likewise
    Alerts,           \* ids of alerts
    Callers,          \* concurrent calls
    AuthorizeTTL, CodeTTL, AccessTTL, RefreshTTL, ConfirmationTTL,
    MaxClock,         \* bound on the clock
    MaxRevision       \* bound on the revisions others give an alert

ASSUME BridgeAssumption ==
    /\ {AuthorizeTTL, CodeTTL, AccessTTL, RefreshTTL, ConfirmationTTL} \subseteq Nat \ {0}
    /\ AccessTTL <= RefreshTTL
    /\ Grants \cup Confirmations \subseteq Nat
    /\ {MaxClock, MaxRevision} \subseteq Nat

VARIABLES
    clock,
    client,        \* the status of each client
    request,       \* the authorization requests, each with its code
    grant,         \* the grants
    confirmation,  \* the confirmations
    call,          \* the private state of each call
    alert,         \* Signals: the stored row of each alert
    history,       \* Signals: the stored history of each alert
    acted          \* history: which confirmation acknowledged which revision

lifeVars == <<alert, history>>

vars == <<clock, client, request, grant, confirmation, call, alert, history, acted>>

Life == INSTANCE AlertLifecycle

ClientStatus == {"absent", "active", "revoked"}

(* code: none until the consent, then issued, then consumed.               *)
Request ==
    [status: {"absent", "pending", "approved", "denied"}, client: Clients \cup {NoOne},
     expires: Nat, code: {"none", "issued", "consumed"}, codeExpires: Nat]

AbsentRequest ==
    [status |-> "absent", client |-> NoOne, expires |-> 0, code |-> "none",
     codeExpires |-> 0]

Grant ==
    [status: {"absent", "live", "revoked"}, request: Requests \cup {NoOne}, access: Nat,
     refresh: Nat]

AbsentGrant == [status |-> "absent", request |-> NoOne, access |-> 0, refresh |-> 0]

(* The alert and the revision are the arguments the token is bound to.      *)
Confirmation ==
    [status: {"absent", "prepared", "consumed"}, alert: Alerts \cup {NoOne},
     revision: Nat, expires: Nat]

AbsentConfirmation ==
    [status |-> "absent", alert |-> NoOne, revision |-> 0, expires |-> 0]

Steps == {"idle", "revoke", "begin", "consent", "decide", "code", "redeem", "refresh",
          "rotate", "prepare", "consume", "acknowledge"}

(* subject: the record the call works on; now: the clock as the call read  *)
(* it, where it uses it later; grants: the grants that a revocation found; *)
(* alert, revision: the alert that a confirmation is prepared for.         *)
Call ==
    [step: Steps,
     subject: Clients \cup Requests \cup Grants \cup Confirmations \cup {NoOne},
     approved: BOOLEAN, now: Nat, grants: SUBSET Grants, alert: Alerts \cup {NoOne},
     revision: Nat]

IdleCall ==
    [step |-> "idle", subject |-> NoOne, approved |-> FALSE, now |-> 0, grants |-> {},
     alert |-> NoOne, revision |-> 0]

Init ==
    /\ clock = 0
    /\ client = [c \in Clients |-> "absent"]
    /\ request = [q \in Requests |-> AbsentRequest]
    /\ grant = [g \in Grants |-> AbsentGrant]
    /\ confirmation = [k \in Confirmations |-> AbsentConfirmation]
    /\ call = [u \in Callers |-> IdleCall]
    /\ acted = {}
    /\ Life!Init

-----------------------------------------------------------------------------

Goto(u, step, subject, now) ==
    call' = [call EXCEPT ![u] = [IdleCall EXCEPT
               !.step = step, !.subject = subject, !.now = now]]

Return(u) == call' = [call EXCEPT ![u] = IdleCall]

(* The id a new record of the table gets.                                  *)
IsNext(id, table) ==
    /\ table[id].status = "absent"
    /\ \A i \in DOMAIN table : i < id => table[i].status # "absent"

Active(q) == client[request[q].client] = "active"

-----------------------------------------------------------------------------
(* Clients.                                                                *)

CreateClient(c) ==
    /\ client[c] = "absent"
    /\ client' = [client EXCEPT ![c] = "active"]
    /\ UNCHANGED <<clock, request, grant, confirmation, call, lifeVars, acted>>

(* Exchange imports a client in the state its archive has it in.           *)
ImportExchangeClient(c, status) ==
    /\ client[c] = "absent"
    /\ client' = [client EXCEPT ![c] = status]
    /\ UNCHANGED <<clock, request, grant, confirmation, call, lifeVars, acted>>

(* RevokeClient marks the client and the grants it finds in one            *)
(* transaction.  Nobody sees the mark before the commit, and a grant that  *)
(* is stored after the second statement began is not found.                *)
RevokeClient(u, c) ==
    /\ call[u].step = "idle"
    /\ client[c] # "absent"
    /\ call' = [call EXCEPT ![u] = [IdleCall EXCEPT
                  !.step = "revoke", !.subject = c,
                  !.grants = {g \in Grants : /\ grant[g].status # "absent"
                                             /\ request[grant[g].request].client = c}]]
    /\ UNCHANGED <<clock, client, request, grant, confirmation, lifeVars, acted>>

CommitRevocation(u) ==
    /\ call[u].step = "revoke"
    /\ client' = [client EXCEPT ![call[u].subject] = "revoked"]
    /\ grant' = [g \in Grants |-> IF g \in call[u].grants
                                  THEN [grant[g] EXCEPT !.status = "revoked"]
                                  ELSE grant[g]]
    /\ Return(u)
    /\ UNCHANGED <<clock, request, confirmation, lifeVars, acted>>

-----------------------------------------------------------------------------
(* Authorization and consent.                                              *)

BeginAuthorization(u, c) ==
    /\ call[u].step = "idle"
    /\ client[c] = "active"
    /\ Goto(u, "begin", c, 0)
    /\ UNCHANGED <<clock, client, request, grant, confirmation, lifeVars, acted>>

CreateAuthorizationRequest(u, q) ==
    /\ call[u].step = "begin"
    /\ request[q].status = "absent"
    /\ request' = [request EXCEPT ![q] =
                     [AbsentRequest EXCEPT
                        !.status = "pending", !.client = call[u].subject,
                        !.expires = clock + AuthorizeTTL]]
    /\ Return(u)
    /\ UNCHANGED <<clock, client, grant, confirmation, lifeVars, acted>>

(* loadConsent reads the request, then its client.                         *)
LoadRequest(u, q, approved) ==
    /\ call[u].step = "idle"
    /\ request[q].status = "pending"
    /\ request[q].expires > clock
    /\ call' = [call EXCEPT ![u] = [IdleCall EXCEPT
                  !.step = "consent", !.subject = q, !.approved = approved]]
    /\ UNCHANGED <<clock, client, request, grant, confirmation, lifeVars, acted>>

LoadClient(u) ==
    /\ call[u].step = "consent"
    /\ \/ /\ Active(call[u].subject)
          /\ call' = [call EXCEPT ![u].step = "decide", ![u].now = clock]
       \/ /\ ~Active(call[u].subject)
          /\ Return(u)
    /\ UNCHANGED <<clock, client, request, grant, confirmation, lifeVars, acted>>

(* Mutant: the decision is stored without looking for an earlier one.      *)
Decidable(q) == request[q].status # "absent"

(* Nobody has decided the request in the meantime.                         *)
Undecided(q) == request[q].status = "pending"

DecideConsent(u) ==
    LET q == call[u].subject
    IN  /\ call[u].step = "decide"
        /\ \/ /\ Undecided(q)
              /\ request' = [request EXCEPT ![q] =
                   IF call[u].approved
                   THEN [@ EXCEPT !.status = "approved", !.code = "issued",
                                  !.codeExpires = call[u].now + CodeTTL]
                   ELSE [@ EXCEPT !.status = "denied"]]
           \/ /\ ~Undecided(q)
              /\ UNCHANGED request
        /\ Return(u)
        /\ UNCHANGED <<clock, client, grant, confirmation, lifeVars, acted>>

-----------------------------------------------------------------------------
(* Tokens.                                                                 *)

BeginCode(u, q) ==
    /\ call[u].step = "idle"
    /\ request[q].code # "none"
    /\ Goto(u, "code", q, clock)
    /\ UNCHANGED <<clock, client, request, grant, confirmation, lifeVars, acted>>

(* The UPDATE of the code or of the grant joins the client as it is when   *)
(* the statement starts; the client may be revoked before the commit.      *)
FindClient(u) ==
    /\ call[u].step \in {"code", "refresh"}
    /\ LET q == IF call[u].step = "code" THEN call[u].subject
                ELSE grant[call[u].subject].request
       IN  \/ /\ Active(q)
              /\ call' = [call EXCEPT ![u].step = IF @ = "code" THEN "redeem" ELSE "rotate"]
           \/ /\ ~Active(q)
              /\ Return(u)
    /\ UNCHANGED <<clock, client, request, grant, confirmation, lifeVars, acted>>

Redeemable(q, now) ==
    /\ request[q].code = "issued"
    /\ request[q].codeExpires > now

NewGrant(q, now) ==
    [status |-> "live", request |-> q, access |-> now + AccessTTL,
     refresh |-> now + RefreshTTL]

ExchangeAuthorizationCode(u, g) ==
    LET q == call[u].subject
    IN  /\ call[u].step = "redeem"
        /\ IsNext(g, grant)
        /\ \/ /\ Redeemable(q, call[u].now)
              /\ request' = [request EXCEPT ![q].code = "consumed"]
              /\ grant' = [grant EXCEPT ![g] = NewGrant(q, call[u].now)]
           \/ /\ ~Redeemable(q, call[u].now)
              /\ UNCHANGED <<request, grant>>
        /\ Return(u)
        /\ UNCHANGED <<clock, client, confirmation, lifeVars, acted>>

BeginRefresh(u, g) ==
    /\ call[u].step = "idle"
    /\ grant[g].status # "absent"
    /\ Goto(u, "refresh", g, clock)
    /\ UNCHANGED <<clock, client, request, grant, confirmation, lifeVars, acted>>

(* Mutant: a refresh token that was used stays usable.                     *)
RotatableTwice(g, now) == grant[g].refresh > now

Rotatable(g, now) ==
    /\ grant[g].status = "live"
    /\ grant[g].refresh > now

(* Mutant: the replacement starts a refresh period of its own.             *)
SlidingReplacement(old, now) ==
    NewGrant(old.request, now)

(* The replacement ends when the grant it replaces would have ended.        *)
Replacement(old, now) ==
    [status |-> "live", request |-> old.request,
     access |-> IF now + AccessTTL > old.refresh THEN old.refresh ELSE now + AccessTTL,
     refresh |-> old.refresh]

RotateRefreshToken(u, h) ==
    LET g == call[u].subject
    IN  /\ call[u].step = "rotate"
        /\ IsNext(h, grant)
        /\ \/ /\ Rotatable(g, call[u].now)
              /\ grant' = [grant EXCEPT ![g].status = "revoked",
                                        ![h] = Replacement(grant[g], call[u].now)]
           \/ /\ ~Rotatable(g, call[u].now)
              /\ UNCHANGED grant
        /\ Return(u)
        /\ UNCHANGED <<clock, client, request, confirmation, lifeVars, acted>>

(* An administrator revokes a grant.                                       *)
RevokeGrant(g) ==
    /\ grant[g].status = "live"
    /\ grant' = [grant EXCEPT ![g].status = "revoked"]
    /\ UNCHANGED <<clock, client, request, confirmation, call, lifeVars, acted>>

(* The holder of one of its tokens does.                                   *)
RevokeToken(g) == RevokeGrant(g)

-----------------------------------------------------------------------------
(* The confirmed write.                                                    *)

(* AuthenticateAccessToken: what every call of a tool begins with.         *)
Accessible(g) ==
    /\ grant[g].status = "live"
    /\ grant[g].access > clock
    /\ Active(grant[g].request)

PrepareAcknowledge(u, g, a) ==
    /\ call[u].step = "idle"
    /\ Accessible(g)
    /\ alert[a].status \in OpenStatus
    /\ call' = [call EXCEPT ![u] = [IdleCall EXCEPT
                  !.step = "prepare", !.alert = a, !.revision = alert[a].revision]]
    /\ UNCHANGED <<clock, client, request, grant, confirmation, lifeVars, acted>>

PrepareConfirmation(u, k) ==
    /\ call[u].step = "prepare"
    /\ IsNext(k, confirmation)
    /\ confirmation' = [confirmation EXCEPT ![k] =
                          [status |-> "prepared", alert |-> call[u].alert,
                           revision |-> call[u].revision,
                           expires |-> clock + ConfirmationTTL]]
    /\ Return(u)
    /\ UNCHANGED <<clock, client, request, grant, lifeVars, acted>>

ConfirmAcknowledge(u, g, k) ==
    /\ call[u].step = "idle"
    /\ Accessible(g)
    /\ confirmation[k].status # "absent"
    /\ Goto(u, "consume", k, 0)
    /\ UNCHANGED <<clock, client, request, grant, confirmation, lifeVars, acted>>

ConsumeConfirmation(u) ==
    LET k == call[u].subject
    IN  /\ call[u].step = "consume"
        /\ \/ /\ confirmation[k].status = "prepared" /\ confirmation[k].expires > clock
              /\ confirmation' = [confirmation EXCEPT ![k].status = "consumed"]
              /\ call' = [call EXCEPT ![u].step = "acknowledge"]
           \/ /\ ~(confirmation[k].status = "prepared" /\ confirmation[k].expires > clock)
              /\ Return(u)
              /\ UNCHANGED confirmation
        /\ UNCHANGED <<clock, client, request, grant, lifeVars, acted>>

(* Mutant: the alert is acknowledged at whatever revision it has.           *)
AtAnyRevision(k) == alert[confirmation[k].alert].status \in OpenStatus

(* Signals acknowledges only the revision it is asked to.                  *)
AtRevision(k) ==
    /\ alert[confirmation[k].alert].revision = confirmation[k].revision
    /\ alert[confirmation[k].alert].status \in OpenStatus

AcknowledgeConfirmed(u) ==
    LET k == call[u].subject
        a == confirmation[k].alert
    IN  /\ call[u].step = "acknowledge"
        /\ \/ /\ AtRevision(k)
              /\ Life!Acknowledge(a)
              /\ acted' = acted \cup {<<k, alert[a].revision>>}
           \/ /\ ~AtRevision(k)
              /\ UNCHANGED <<lifeVars, acted>>
        /\ Return(u)
        /\ UNCHANGED <<clock, client, request, grant, confirmation>>

-----------------------------------------------------------------------------

(* A call ends early: a store or the audit fails, or its deadline passes.  *)
Abort(u) ==
    /\ call[u].step # "idle"
    /\ Return(u)
    /\ UNCHANGED <<clock, client, request, grant, confirmation, lifeVars, acted>>

Tick ==
    /\ clock < MaxClock
    /\ clock' = clock + 1
    /\ UNCHANGED <<client, request, grant, confirmation, call, lifeVars, acted>>

(* Evaluations and operators work on the alerts, as Signals promises.       *)
OthersWork ==
    /\ \A a \in Alerts : alert[a].revision < MaxRevision
    /\ Life!Next
    /\ UNCHANGED <<clock, client, request, grant, confirmation, call, acted>>

Next ==
    \/ \E c \in Clients :
           \/ CreateClient(c)
           \/ \E status \in {"active", "revoked"} : ImportExchangeClient(c, status)
    \/ \E g \in Grants : RevokeGrant(g) \/ RevokeToken(g)
    \/ \E u \in Callers :
           \/ \E c \in Clients : RevokeClient(u, c) \/ BeginAuthorization(u, c)
           \/ CommitRevocation(u)
           \/ \E q \in Requests :
                  \/ CreateAuthorizationRequest(u, q)
                  \/ \E approved \in BOOLEAN : LoadRequest(u, q, approved)
                  \/ BeginCode(u, q)
           \/ LoadClient(u)
           \/ DecideConsent(u)
           \/ FindClient(u)
           \/ \E g \in Grants :
                  \/ ExchangeAuthorizationCode(u, g)
                  \/ BeginRefresh(u, g)
                  \/ RotateRefreshToken(u, g)
                  \/ \E a \in Alerts : PrepareAcknowledge(u, g, a)
                  \/ \E k \in Confirmations : ConfirmAcknowledge(u, g, k)
           \/ \E k \in Confirmations : PrepareConfirmation(u, k)
           \/ ConsumeConfirmation(u)
           \/ AcknowledgeConfirmed(u)
           \/ Abort(u)
    \/ Tick
    \/ OthersWork

Spec == Init /\ [][Next]_vars

-----------------------------------------------------------------------------

TypeOK ==
    /\ clock \in Nat
    /\ client \in [Clients -> ClientStatus]
    /\ request \in [Requests -> Request]
    /\ grant \in [Grants -> Grant]
    /\ confirmation \in [Confirmations -> Confirmation]
    /\ call \in [Callers -> Call]
    /\ alert \in [Alerts -> Alert]
    /\ history \in [Alerts -> Seq(Entry)]
    /\ acted \subseteq Confirmations \X Nat

(* A grant exists only where the person approved and the code was redeemed, *)
(* and a request that was denied in one window is never approved in        *)
(* another: it has neither a code nor a grant.                             *)
GrantsHaveConsent ==
    /\ \A g \in Grants :
           grant[g].status # "absent" =>
               request[grant[g].request].code = "consumed"
    /\ \A q \in Requests : request[q].code # "none" => request[q].status = "approved"

(* However codes and refresh tokens are replayed and calls interleave, one  *)
(* consent yields at most one live grant at a time.                         *)
OneLiveGrant ==
    \A g, h \in Grants :
        /\ grant[g].status = "live"
        /\ grant[h].status = "live"
        /\ grant[g].request = grant[h].request
        => g = h

(* No sequence of rotations keeps a grant alive longer than RefreshTTL      *)
(* after the last moment its code could have been redeemed, and no access   *)
(* token outlives the refresh token beside it.                             *)
SessionIsBounded ==
    \A g \in Grants :
        grant[g].status # "absent" =>
            /\ grant[g].access <= grant[g].refresh
            /\ grant[g].refresh < request[grant[g].request].codeExpires + RefreshTTL

(* A confirmed write happens at most once, and to the alert as it was when  *)
(* the write was prepared: no evaluation and no other person touched it in  *)
(* between, and no two confirmations acknowledge the same revision.         *)
ConfirmedAsPrepared ==
    \A p \in acted :
        LET k == confirmation[p[1]]
        IN  /\ k.status = "consumed"
            /\ p[2] = k.revision
            /\ k.revision + 1 \in DOMAIN history[k.alert]
            /\ history[k.alert][k.revision + 1].action = "acknowledged"
            /\ \A r \in acted :
                   /\ confirmation[r[1]].alert = k.alert
                   /\ r[2] = p[2]
                   => r = p
=============================================================================
