-------------------------- MODULE RecipientAccess --------------------------
(***************************************************************************)
(* RecipientAccessService (packages/recipient-access): who may read which  *)
(* delivered report.  A mailbox proves itself with a one-time code; an     *)
(* owner holds a grant for modules and actions of a delivered version and  *)
(* may invite others to a part of it; grants and invitations expire and    *)
(* are revoked, modules are withdrawn, and all of that can happen while a  *)
(* request is being served (withAuthorisedRequest awaits the operation     *)
(* between two checks).  One organization, job and report version; a       *)
(* principal is its mailbox; tokens and digests are the ids themselves.    *)
(* Every method is synchronous, so each is one step.                       *)
(***************************************************************************)
EXTENDS Naturals, Sequences, FiniteSets

CONSTANTS
    Mailboxes,     \* mailbox addresses
    Owners,        \* the mailboxes that owner grants are issued to
    Modules,       \* modules of the delivered version, in report order
    Actions,       \* actions other than invite_recipient
    MaxGrants, MaxOwnerGrants, \* bounds: grants stored, and issued to owners
    MaxReading,    \* bound: requests in flight
    Invitations,   \* invitation ids
    FailedLimit,   \* wrong codes after which a challenge is dead
    ChallengeLife, SessionLife,
    MaxTime        \* bound: the last instant

Invite == "invite_recipient"
AllActions == Actions \cup {Invite}
Range(s) == {s[i] : i \in DOMAIN s}

ASSUME RecipientAssumption ==
    /\ Owners \subseteq Mailboxes /\ MaxReading \in Nat
    /\ MaxGrants \in Nat /\ MaxOwnerGrants \in Nat /\ FailedLimit \in Nat \ {0} /\ MaxTime \in Nat
    /\ ChallengeLife \in Nat \ {0} /\ SessionLife \in Nat \ {0}
    /\ Modules \in Seq(STRING) /\ Invite \notin Actions
    /\ "none" \notin Invitations

VARIABLES
    time,
    delivered,   \* whether the version was registered
    withdrawn,   \* withdrawn modules of the version
    challenge,   \* mailbox -> [state, failed, expires]
    session,     \* mailbox -> instant at which its session ends (0: none)
    grants,      \* sequence of grants, in the order they were stored
    invitation,  \* invitation id -> record, or NoInvitation
    reading,     \* requests between their two checks
    served       \* whether the request that ended last was answered

recipientVars == <<time, delivered, withdrawn, challenge, session, grants,
                   invitation, reading, served>>

NoChallenge == [state |-> "none", failed |-> 0, expires |-> 0]
NoInvitation == [state |-> "none", inviter |-> 0, to |-> "none",
                 modules |-> <<>>, actions |-> {}, expires |-> 0]

RecipientInit ==
    /\ time = 0 /\ delivered = FALSE /\ withdrawn = {}
    /\ challenge = [m \in Mailboxes |-> NoChallenge]
    /\ session = [m \in Mailboxes |-> 0]
    /\ grants = <<>>
    /\ invitation = [i \in Invitations |-> NoInvitation]
    /\ reading = {} /\ served = FALSE

RecipientTick == /\ time < MaxTime /\ time' = time + 1
                 /\ UNCHANGED <<delivered, withdrawn, challenge, session,
                                grants, invitation, reading, served>>

(* A second registration with the same modules changes nothing, and with   *)
(* others it is refused.                                                   *)
registerDeliveredVersion ==
    /\ ~delivered /\ delivered' = TRUE
    /\ UNCHANGED <<time, withdrawn, challenge, session, grants, invitation,
                   reading, served>>

withdrawModule(d) ==
    /\ delivered /\ d \in Range(Modules)
    /\ withdrawn' = withdrawn \cup {d}
    /\ UNCHANGED <<time, delivered, challenge, session, grants, invitation,
                   reading, served>>

beginMailboxAuthentication(m) ==
    /\ challenge' = [challenge EXCEPT ![m] =
                        [state |-> "open", failed |-> 0,
                         expires |-> time + ChallengeLife]]
    /\ UNCHANGED <<time, delivered, withdrawn, session, grants, invitation,
                   reading, served>>

verifyMailboxAuthentication(m, right) ==
    /\ challenge[m].state = "open" /\ challenge[m].expires > time
    /\ challenge[m].failed < FailedLimit
    /\ IF right
       THEN /\ challenge' = [challenge EXCEPT ![m] = NoChallenge]
            /\ session' = [session EXCEPT ![m] = time + SessionLife]
       ELSE /\ challenge' = [challenge EXCEPT ![m].failed = @ + 1]
            /\ UNCHANGED session
    /\ UNCHANGED <<time, delivered, withdrawn, grants, invitation, reading,
                   served>>

Active(g) == grants[g].status = "active" /\ grants[g].expires > time
SessionLive(m) == session[m] > time

(* assertGrantLineageActive walks to the owner's grant; a grant issued on  *)
(* an invitation cannot invite, so the walk has at most one step.          *)
LineageActive(g) == \A p \in {grants[g].parent} \ {0} : Active(p)

(* authorise: the session, the lineage, the delivered version and the      *)
(* grant itself, each as it is now.                                        *)
authorised(m, g, d, a) ==
    /\ SessionLive(m) /\ LineageActive(g) /\ Active(g)
    /\ delivered /\ d \in Range(Modules) /\ d \notin withdrawn
    /\ grants[g].to = m
    /\ d \in Range(grants[g].modules) /\ a \in grants[g].actions

Stored(to, modules, actions, expires, parent, invited) ==
    Append(grants, [to |-> to, modules |-> modules, actions |-> actions,
                    expires |-> expires, status |-> "active",
                    revision |-> 1, parent |-> parent, invited |-> invited])

SubModules == {Modules} \cup {<<Modules[i]>> : i \in DOMAIN Modules}

issueOwnerGrant(m, modules, actions, expires) ==
    /\ Len(SelectSeq(grants, LAMBDA g : g.parent = 0)) < MaxOwnerGrants
    /\ Len(grants) < MaxGrants
    /\ expires > time /\ delivered /\ actions # {}
    /\ grants' = Stored(m, modules, actions, expires, 0, "none")
    /\ UNCHANGED <<time, delivered, withdrawn, challenge, session,
                   invitation, reading, served>>

(* What an inviter may pass on.                                            *)
(* Mutant: the inviter's expiry does not bound the invitation.             *)
WithinLater(g, modules, actions, expires) ==
    /\ actions # {} /\ Invite \notin actions
    /\ Range(modules) \subseteq Range(grants[g].modules)
    /\ actions \subseteq grants[g].actions
Within(g, modules, actions, expires) ==
    /\ expires <= grants[g].expires
    /\ actions # {} /\ Invite \notin actions
    /\ Range(modules) \subseteq Range(grants[g].modules)
    /\ actions \subseteq grants[g].actions

createShareInvitation(i, m, g, to, modules, actions, expires) ==
    /\ invitation[i] = NoInvitation
    /\ authorised(m, g, Head(grants[g].modules), Invite)
    /\ expires > time
    /\ Within(g, modules, actions, expires)
    /\ invitation' = [invitation EXCEPT ![i] =
                         [state |-> "sent", inviter |-> g, to |-> to,
                          modules |-> modules, actions |-> actions,
                          expires |-> expires]]
    /\ UNCHANGED <<time, delivered, withdrawn, challenge, session, grants,
                   reading, served>>

redeemInvitation(i, m) ==
    /\ Len(grants) < MaxGrants
    /\ SessionLive(m)
    /\ invitation[i].state = "sent" /\ invitation[i].expires > time
    /\ invitation[i].to = m
    /\ LineageActive(invitation[i].inviter) /\ Active(invitation[i].inviter)
    /\ invitation' = [invitation EXCEPT ![i].state = "redeemed"]
    /\ grants' = Stored(m, invitation[i].modules, invitation[i].actions,
                        invitation[i].expires, invitation[i].inviter, i)
    /\ UNCHANGED <<time, delivered, withdrawn, challenge, session, reading,
                   served>>

revokeInvitation(i, m) ==
    /\ SessionLive(m)
    /\ invitation[i].state = "sent"
    /\ grants[invitation[i].inviter].to = m
    /\ invitation' = [invitation EXCEPT ![i].state = "revoked"]
    /\ UNCHANGED <<time, delivered, withdrawn, challenge, session, grants,
                   reading, served>>

revokeGrant(g) ==
    /\ grants[g].status = "active"
    /\ grants' = [grants EXCEPT ![g].status = "revoked", ![g].revision = @ + 1]
    /\ UNCHANGED <<time, delivered, withdrawn, challenge, session,
                   invitation, reading, served>>

(* withAuthorisedRequest: a check, the awaited operation, and the check    *)
(* again with the revision the first one saw.                              *)
beginRequest(m, g, d, a) ==
    /\ Cardinality(reading) < MaxReading
    /\ authorised(m, g, d, a)
    /\ reading' = reading \cup {[by |-> m, grant |-> g, module |-> d,
                                 action |-> a,
                                 revision |-> grants[g].revision]}
    /\ UNCHANGED <<time, delivered, withdrawn, challenge, session, grants,
                   invitation, served>>

(* Mutant: the grant of the first check is trusted after the await.        *)
unchangedSince(r) == TRUE
stillAuthorised(r) == /\ authorised(r.by, r.grant, r.module, r.action)
                      /\ grants[r.grant].revision = r.revision

finishRequest(r) ==
    /\ reading' = reading \ {r}
    /\ served' = stillAuthorised(r)
    /\ UNCHANGED <<time, delivered, withdrawn, challenge, session, grants,
                   invitation>>

RecipientNext ==
    \/ RecipientTick \/ registerDeliveredVersion
    \/ \E d \in Range(Modules) : withdrawModule(d)
    \/ \E m \in Mailboxes : beginMailboxAuthentication(m)
    \/ \E m \in Mailboxes, right \in BOOLEAN :
          verifyMailboxAuthentication(m, right)
    \/ \E m \in Owners, s \in SubModules, as \in SUBSET AllActions,
          e \in 1 .. MaxTime + 1 : issueOwnerGrant(m, s, as, e)
    \/ \E i \in Invitations, m, to \in Mailboxes, g \in DOMAIN grants,
          s \in SubModules, as \in SUBSET AllActions, e \in 1 .. MaxTime + 1 :
          createShareInvitation(i, m, g, to, s, as, e)
    \/ \E i \in Invitations, m \in Mailboxes : redeemInvitation(i, m)
    \/ \E i \in Invitations, m \in Mailboxes : revokeInvitation(i, m)
    \/ \E g \in DOMAIN grants : revokeGrant(g)
    \/ \E m \in Mailboxes, g \in DOMAIN grants, d \in Range(Modules),
          a \in Actions : beginRequest(m, g, d, a)
    \/ \E r \in reading : finishRequest(r)

RecipientSpec == RecipientInit /\ [][RecipientNext]_recipientVars

-----------------------------------------------------------------------------
(* Sharing never adds authority (recipient-access.ts:267-371): a grant     *)
(* that came from an invitation is to the invited mailbox, for modules,    *)
(* actions and a time within the inviter's, and cannot invite; and one     *)
(* invitation gives one grant, none if it was revoked.                     *)
SharingOnlyNarrows ==
    /\ \A g \in DOMAIN grants : grants[g].parent # 0 =>
          LET p == grants[grants[g].parent]
              i == grants[g].invited
          IN  /\ Range(grants[g].modules) \subseteq Range(p.modules)
              /\ grants[g].actions \subseteq p.actions \ {Invite}
              /\ grants[g].expires <= p.expires
              /\ invitation[i].state = "redeemed" /\ invitation[i].to = grants[g].to
    /\ \A g, h \in DOMAIN grants :
          grants[g].invited # "none" /\ grants[g].invited = grants[h].invited =>
              g = h

(* Nothing is served any more through a grant that was revoked or has run  *)
(* out, nor below such a grant, nor from a withdrawn module, also to a     *)
(* request that was authorised before (recipient-access.ts:490-503).       *)
NothingServedAfterRevocation ==
    [][\A r \in reading \ reading' : served' =>
          /\ Active(r.grant) /\ LineageActive(r.grant)
          /\ r.module \notin withdrawn]_recipientVars
=============================================================================
