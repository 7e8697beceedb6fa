-------------------------- MODULE RecipientProofs --------------------------
(***************************************************************************)
(* Proofs about the recipient side: the access service of the package and  *)
(* the portal of the web application.                                      *)
(***************************************************************************)
EXTENDS RecipientAccess, RecipientPortal, TLAPS

-----------------------------------------------------------------------------
(* The access service.  That sharing narrows rests on what an invitation   *)
(* says while it waits: it is within the inviter's grant, whose terms      *)
(* never change, and an invitation that gave a grant is redeemed for ever. *)
Terms == [to : Mailboxes, modules : SubModules, actions : SUBSET AllActions,
          expires : Nat, status : {"active", "revoked"}, revision : Nat,
          parent : Nat, invited : Invitations \cup {"none"}]
InvitationStates == {"none", "sent", "redeemed", "revoked"}

RecipientTypes ==
    /\ grants \in Seq(Terms)
    /\ DOMAIN invitation = Invitations
    /\ \A i \in Invitations :
          invitation[i] = NoInvitation \/
          invitation[i] \in [state : InvitationStates \ {"none"}, inviter : Nat \ {0},
                             to : Mailboxes, modules : SubModules,
                             actions : SUBSET AllActions, expires : Nat]

(* The authority that x carries is within the grant p.                     *)
Below(x, p) == /\ Range(x.modules) \subseteq Range(p.modules)
               /\ x.actions \subseteq p.actions \ {Invite}
               /\ x.expires <= p.expires

InvitationsNarrow ==
    \A i \in Invitations : invitation[i].state # "none" =>
        /\ invitation[i].inviter \in DOMAIN grants
        /\ Invite \in grants[invitation[i].inviter].actions
        /\ Below(invitation[i], grants[invitation[i].inviter])

GrantNarrow(g) ==
    /\ grants[g].parent \in DOMAIN grants
    /\ Invite \in grants[grants[g].parent].actions
    /\ Below(grants[g], grants[grants[g].parent])
    /\ grants[g].invited # "none"
    /\ invitation[grants[g].invited].to = grants[g].to
GrantsNarrow ==
    \A g \in DOMAIN grants : grants[g].parent # 0 => GrantNarrow(g)

InvitedOnce ==
    /\ \A g \in DOMAIN grants : grants[g].invited # "none" =>
           /\ grants[g].invited \in Invitations
           /\ invitation[grants[g].invited].state = "redeemed"
    /\ \A g, h \in DOMAIN grants :
           grants[g].invited # "none" /\ grants[g].invited = grants[h].invited => g = h

RecipientInv == /\ RecipientTypes /\ InvitationsNarrow
                /\ GrantsNarrow /\ InvitedOnce

(* assertGrantLineageActive needs no walk of its own in the model: above a *)
(* shared grant there is an owner's (recipient-access.ts:566-584).         *)
LineageIsShort ==
    \A g \in DOMAIN grants :
        grants[g].parent # 0 => grants[grants[g].parent].parent = 0

(* The terms of the grants stored so far.                                  *)
TermsKept ==
    \A g \in DOMAIN grants :
        /\ g \in DOMAIN grants'
        /\ grants'[g].to = grants[g].to /\ grants'[g].modules = grants[g].modules
        /\ grants'[g].actions = grants[g].actions
        /\ grants'[g].expires = grants[g].expires
        /\ grants'[g].parent = grants[g].parent
        /\ grants'[g].invited = grants[g].invited

(* Storing a grant or revoking one keeps the terms of the others, and      *)
(* leaves every grant and invitation that was narrow as narrow as it was.  *)
LEMMA NarrowKept ==
    ASSUME RecipientInv, TermsKept, UNCHANGED invitation
    PROVE  InvitationsNarrow'
  BY DEF RecipientInv, InvitationsNarrow, TermsKept, Below

(* A sequence of grants with one more.                                     *)
LEMMA AppendGrant ==
    ASSUME NEW s \in Seq(Terms), NEW x \in Terms
    PROVE  /\ Append(s, x) \in Seq(Terms)
           /\ Len(s) + 1 \in DOMAIN Append(s, x)
           /\ Append(s, x)[Len(s) + 1] = x
           /\ \A g \in DOMAIN s : g \in DOMAIN Append(s, x) /\ Append(s, x)[g] = s[g]
           /\ \A g \in DOMAIN Append(s, x) : g \in DOMAIN s \/ g = Len(s) + 1
  OBVIOUS

LEMMA IssuePreserves ==
    ASSUME RecipientInv, NEW m \in Owners, NEW s \in SubModules,
           NEW as \in SUBSET AllActions, NEW e \in 1 .. MaxTime + 1,
           issueOwnerGrant(m, s, as, e)
    PROVE  RecipientInv'
  <1>. DEFINE new == [to |-> m, modules |-> s, actions |-> as, expires |-> e,
                      status |-> "active", revision |-> 1, parent |-> 0,
                      invited |-> "none"]
  <1>1. grants' = Append(grants, new) /\ UNCHANGED invitation
    BY DEF issueOwnerGrant, Stored
  <1>a. m \in Mailboxes /\ e \in Nat
    BY RecipientAssumption
  <1>2. new \in Terms
    BY <1>a DEF Terms
  <1>3. /\ grants' \in Seq(Terms) /\ Len(grants) + 1 \in DOMAIN grants'
        /\ grants'[Len(grants) + 1] = new
        /\ \A g \in DOMAIN grants : g \in DOMAIN grants' /\ grants'[g] = grants[g]
        /\ \A g \in DOMAIN grants' : g \in DOMAIN grants \/ g = Len(grants) + 1
    <2>. HIDE DEF new
    <2>1. grants \in Seq(Terms)
      BY DEF RecipientInv, RecipientTypes
    <2>. QED
      BY <1>1, <1>2, <2>1, AppendGrant
  <1>4. RecipientTypes' /\ TermsKept
    BY <1>1, <1>3 DEF RecipientInv, RecipientTypes, TermsKept
  <1>5. GrantsNarrow'
    <2>1. ASSUME NEW g \in DOMAIN grants', grants'[g].parent # 0 PROVE GrantNarrow(g)'
      <3>1. g \in DOMAIN grants /\ grants'[g] = grants[g]
        BY <1>3, <2>1
      <3>2. GrantNarrow(g)
        BY <2>1, <3>1 DEF RecipientInv, GrantsNarrow
      <3>. QED
        BY <1>1, <1>3, <3>1, <3>2 DEF GrantNarrow
    <2>. QED
      BY <2>1 DEF GrantsNarrow
  <1>6. InvitedOnce'
    BY <1>1, <1>3 DEF RecipientInv, InvitedOnce
  <1>. QED
    BY <1>1, <1>4, <1>5, <1>6, NarrowKept DEF RecipientInv

LEMMA RevokeGrantPreserves ==
    ASSUME RecipientInv, NEW g \in DOMAIN grants, revokeGrant(g)
    PROVE  RecipientInv'
  <1>. DEFINE rec == [grants[g] EXCEPT !.status = "revoked", !.revision = @ + 1]
  <1>1. grants' = [grants EXCEPT ![g] = rec] /\ UNCHANGED invitation
    BY DEF revokeGrant
  <1>a. grants[g] \in Terms
    BY DEF RecipientInv, RecipientTypes
  <1>b. grants[g].revision + 1 \in Nat
    BY <1>a DEF Terms
  <1>2. rec \in Terms
    BY <1>a, <1>b DEF Terms
  <1>3. grants' \in Seq(Terms) /\ DOMAIN grants' = DOMAIN grants
    BY <1>1, <1>2 DEF RecipientInv, RecipientTypes
  <1>4. TermsKept
    BY <1>1, <1>a, <1>3 DEF TermsKept, Terms, RecipientInv, RecipientTypes
  <1>5. GrantsNarrow'
    <2>1. ASSUME NEW h \in DOMAIN grants, grants[h].parent # 0 PROVE GrantNarrow(h)'
      <3>1. GrantNarrow(h)
        BY <2>1 DEF RecipientInv, GrantsNarrow
      <3>. QED
        BY <1>1, <1>3, <1>4, <3>1 DEF GrantNarrow, TermsKept, Below
    <2>. QED
      BY <1>3, <1>4, <2>1 DEF GrantsNarrow, TermsKept
  <1>6. InvitedOnce'
    BY <1>1, <1>3, <1>4 DEF RecipientInv, InvitedOnce, TermsKept
  <1>. QED
    BY <1>1, <1>3, <1>4, <1>5, <1>6, NarrowKept DEF RecipientInv, RecipientTypes

LEMMA CreateInvitationPreserves ==
    ASSUME RecipientInv, NEW i \in Invitations, NEW m \in Mailboxes, NEW to \in Mailboxes,
           NEW g \in DOMAIN grants, NEW s \in SubModules, NEW as \in SUBSET AllActions,
           NEW e \in 1 .. MaxTime + 1, createShareInvitation(i, m, g, to, s, as, e)
    PROVE  RecipientInv'
  <1>. DEFINE rec == [state |-> "sent", inviter |-> g, to |-> to, modules |-> s,
                      actions |-> as, expires |-> e]
  <1>1. /\ invitation' = [invitation EXCEPT ![i] = rec] /\ UNCHANGED grants
        /\ invitation[i].state = "none"
        /\ Invite \in grants[g].actions /\ Within(g, s, as, e)
    BY DEF createShareInvitation, authorised, NoInvitation
  <1>2. g \in Nat \ {0} /\ e \in Nat
    BY RecipientAssumption DEF RecipientInv, RecipientTypes
  <1>3. RecipientTypes'
    BY <1>1, <1>2 DEF RecipientInv, RecipientTypes, InvitationStates
  <1>4. InvitationsNarrow'
    BY <1>1 DEF RecipientInv, InvitationsNarrow, RecipientTypes, Within, Below
  <1>5. GrantsNarrow' /\ InvitedOnce'
    BY <1>1 DEF RecipientInv, RecipientTypes, GrantsNarrow, GrantNarrow, InvitedOnce, Below
  <1>. QED
    BY <1>3, <1>4, <1>5 DEF RecipientInv

(* The grant of an invitation is the invitation itself, which is spent.    *)
LEMMA RedeemPreserves ==
    ASSUME RecipientInv, NEW i \in Invitations, NEW m \in Mailboxes, redeemInvitation(i, m)
    PROVE  RecipientInv'
  <1>. DEFINE inv == invitation[i]
              new == [to |-> m, modules |-> inv.modules, actions |-> inv.actions,
                      expires |-> inv.expires, status |-> "active", revision |-> 1,
                      parent |-> inv.inviter, invited |-> i]
  <1>1. /\ invitation' = [invitation EXCEPT ![i].state = "redeemed"]
        /\ grants' = Append(grants, new)
        /\ inv.state = "sent" /\ inv.to = m
    BY DEF redeemInvitation, Stored
  <1>2. inv \in [state : InvitationStates \ {"none"}, inviter : Nat \ {0}, to : Mailboxes,
                 modules : SubModules, actions : SUBSET AllActions, expires : Nat]
    BY <1>1 DEF RecipientInv, RecipientTypes, NoInvitation
  <1>3. new \in Terms
    BY <1>2 DEF Terms
  <1>n. PICK n : n = Len(grants) + 1
    OBVIOUS
  <1>4. /\ grants' \in Seq(Terms) /\ n \in DOMAIN grants' /\ grants'[n] = new
        /\ \A g \in DOMAIN grants : g \in DOMAIN grants' /\ grants'[g] = grants[g]
        /\ \A g \in DOMAIN grants' : g \in DOMAIN grants \/ g = n
    BY <1>1, <1>3, <1>n, AppendGrant DEF RecipientInv, RecipientTypes
  <1>5. /\ DOMAIN invitation' = Invitations
        /\ invitation'[i] = [inv EXCEPT !.state = "redeemed"]
        /\ \A j \in Invitations \ {i} : invitation'[j] = invitation[j]
    BY <1>1 DEF RecipientInv, RecipientTypes
  <1>6. RecipientTypes'
    BY <1>2, <1>4, <1>5 DEF RecipientInv, RecipientTypes, InvitationStates
  <1>7. ASSUME NEW j \in Invitations, invitation'[j].state # "none"
        PROVE  /\ invitation[j].state # "none"
               /\ invitation'[j].inviter = invitation[j].inviter
               /\ invitation'[j].to = invitation[j].to
               /\ invitation'[j].modules = invitation[j].modules
               /\ invitation'[j].actions = invitation[j].actions
               /\ invitation'[j].expires = invitation[j].expires
    BY <1>1, <1>2, <1>5, <1>7
  <1>8. InvitationsNarrow'
    <2>1. ASSUME NEW j \in Invitations, invitation'[j].state # "none"
          PROVE  LET p == invitation'[j].inviter
                 IN  /\ p \in DOMAIN grants' /\ Invite \in grants'[p].actions
                     /\ Below(invitation'[j], grants'[p])
      <3>1. LET p == invitation[j].inviter
            IN  /\ p \in DOMAIN grants /\ Invite \in grants[p].actions
                /\ Below(invitation[j], grants[p])
        BY <1>7, <2>1 DEF RecipientInv, InvitationsNarrow
      <3>. QED
        BY <1>4, <1>7, <2>1, <3>1 DEF Below
    <2>. QED
      BY <2>1 DEF InvitationsNarrow
  <1>9. ASSUME NEW g \in DOMAIN grants'
        PROVE  grants'[g].invited # "none" =>
                   /\ grants'[g].invited \in Invitations
                   /\ invitation'[grants'[g].invited].state = "redeemed"
                   /\ invitation'[grants'[g].invited].to =
                          invitation[grants'[g].invited].to
    BY <1>1, <1>2, <1>4, <1>5 DEF RecipientInv, InvitedOnce
  <1>10. GrantsNarrow'
    <2>1. ASSUME NEW g \in DOMAIN grants, grants[g].parent # 0
          PROVE  GrantNarrow(g)'
      <3>1. GrantNarrow(g)
        BY <2>1 DEF RecipientInv, GrantsNarrow
      <3>2. g \in DOMAIN grants' /\ grants'[g] = grants[g]
        BY <1>4
      <3>3. invitation'[grants[g].invited].to = invitation[grants[g].invited].to
        BY <1>9, <3>1, <3>2 DEF GrantNarrow
      <3>. QED
        BY <1>4, <3>1, <3>2, <3>3 DEF GrantNarrow
    <2>2. GrantNarrow(n)'
      <3>1. /\ inv.inviter \in DOMAIN grants /\ Invite \in grants[inv.inviter].actions
            /\ Below(inv, grants[inv.inviter])
        BY <1>1 DEF RecipientInv, InvitationsNarrow
      <3>2. inv.inviter \in DOMAIN grants' /\ grants'[inv.inviter] = grants[inv.inviter]
        BY <1>4, <3>1
      <3>3. Below(new, grants[inv.inviter])
        BY <3>1 DEF Below
      <3>4. i # "none" /\ invitation'[i].to = m
        BY <1>1, <1>2, <1>5, RecipientAssumption
      <3>. QED
        BY <1>4, <3>2, <3>3, <3>4, <3>1 DEF GrantNarrow
    <2>3. ASSUME NEW g \in DOMAIN grants', grants'[g].parent # 0 PROVE GrantNarrow(g)'
      <3>1. CASE g \in DOMAIN grants
        BY <1>4, <2>1, <2>3, <3>1
      <3>2. CASE g = n
        BY <2>2, <3>2
      <3>. QED
        BY <1>4, <3>1, <3>2
    <2>. QED
      BY <2>3 DEF GrantsNarrow
  <1>11. InvitedOnce'
    <2>1. \A g \in DOMAIN grants : grants[g].invited # i \/ i = "none"
      BY <1>1 DEF RecipientInv, InvitedOnce
    <2>. QED
      BY <1>4, <1>9, <2>1 DEF RecipientInv, InvitedOnce
  <1>. QED
    BY <1>6, <1>8, <1>10, <1>11 DEF RecipientInv

LEMMA RevokeInvitationPreserves ==
    ASSUME RecipientInv, NEW i \in Invitations, NEW m \in Mailboxes, revokeInvitation(i, m)
    PROVE  RecipientInv'
  <1>1. /\ invitation' = [invitation EXCEPT ![i].state = "revoked"]
        /\ UNCHANGED grants /\ invitation[i].state = "sent"
    BY DEF revokeInvitation
  <1>2. invitation[i] \in [state : InvitationStates \ {"none"}, inviter : Nat \ {0},
                           to : Mailboxes, modules : SubModules,
                           actions : SUBSET AllActions, expires : Nat]
    BY <1>1 DEF RecipientInv, RecipientTypes, NoInvitation
  <1>3. RecipientTypes'
    BY <1>1, <1>2 DEF RecipientInv, RecipientTypes, InvitationStates
  <1>4. InvitationsNarrow'
    BY <1>1, <1>2 DEF RecipientInv, RecipientTypes, InvitationsNarrow, Below
  <1>5. GrantsNarrow' /\ InvitedOnce'
    BY <1>1, <1>2 DEF RecipientInv, RecipientTypes, GrantsNarrow, GrantNarrow, InvitedOnce, Below
  <1>. QED
    BY <1>3, <1>4, <1>5 DEF RecipientInv

LEMMA RecipientInvariant == RecipientSpec => []RecipientInv
  <1>1. RecipientInit => RecipientInv
    BY DEF RecipientInit, RecipientInv, RecipientTypes, InvitationsNarrow, GrantsNarrow,
        InvitedOnce, NoInvitation
  <1>2. ASSUME RecipientInv, [RecipientNext]_recipientVars PROVE RecipientInv'
    <2>1. ASSUME UNCHANGED <<grants, invitation>> PROVE RecipientInv'
      BY <1>2, <2>1 DEF RecipientInv, RecipientTypes, InvitationsNarrow, GrantsNarrow,
          GrantNarrow, InvitedOnce
    <2>2. \/ UNCHANGED <<grants, invitation>>
          \/ \E m \in Owners, s \in SubModules, as \in SUBSET AllActions,
                e \in 1 .. MaxTime + 1 : issueOwnerGrant(m, s, as, e)
          \/ \E i \in Invitations, m, to \in Mailboxes, g \in DOMAIN grants,
                s \in SubModules, as \in SUBSET AllActions, e \in 1 .. MaxTime + 1 :
                createShareInvitation(i, m, g, to, s, as, e)
          \/ \E i \in Invitations, m \in Mailboxes : redeemInvitation(i, m)
          \/ \E i \in Invitations, m \in Mailboxes : revokeInvitation(i, m)
          \/ \E g \in DOMAIN grants : revokeGrant(g)
      BY <1>2 DEF RecipientNext, recipientVars, RecipientTick, registerDeliveredVersion,
          withdrawModule, beginMailboxAuthentication, verifyMailboxAuthentication,
          beginRequest, finishRequest
    <2>. QED
      BY <1>2, <2>1, <2>2, IssuePreserves, CreateInvitationPreserves, RedeemPreserves,
         RevokeInvitationPreserves, RevokeGrantPreserves
  <1>. QED
    BY <1>1, <1>2, PTL DEF RecipientSpec

(* Sharing never adds authority, and one invitation gives one grant        *)
(* (recipient-access.ts:267-371).                                          *)
THEOREM SharingAlwaysNarrows == RecipientSpec => []SharingOnlyNarrows
  <1>1. RecipientInv => SharingOnlyNarrows
    BY DEF RecipientInv, GrantsNarrow, GrantNarrow, InvitedOnce, Below, SharingOnlyNarrows
  <1>. QED
    BY <1>1, RecipientInvariant, PTL

(* What was shared cannot be shared further.                               *)
THEOREM LineagesAreShort == RecipientSpec => []LineageIsShort
  <1>1. RecipientInv => LineageIsShort
    BY DEF RecipientInv, GrantsNarrow, GrantNarrow, Below, LineageIsShort
  <1>. QED
    BY <1>1, RecipientInvariant, PTL

(* Nothing is served through a grant that was revoked, has run out or is   *)
(* below such a grant, nor from a withdrawn module                         *)
(* (recipient-access.ts:490-503).                                          *)
THEOREM RevocationIsRespected == RecipientSpec => NothingServedAfterRevocation
  <1>1. ASSUME RecipientNext, NEW r \in reading \ reading', served'
        PROVE  Active(r.grant) /\ LineageActive(r.grant) /\ r.module \notin withdrawn
    <2>1. CASE reading \subseteq reading'
      BY <1>1, <2>1
    <2>2. ASSUME NEW q \in reading, finishRequest(q)
          PROVE  Active(r.grant) /\ LineageActive(r.grant) /\ r.module \notin withdrawn
      <3>1. r = q /\ stillAuthorised(q)
        BY <1>1, <2>2 DEF finishRequest
      <3>. QED
        BY <3>1 DEF stillAuthorised, authorised
    <2>. QED
      BY <1>1, <2>1, <2>2 DEF RecipientNext, RecipientTick, registerDeliveredVersion,
          withdrawModule, beginMailboxAuthentication, verifyMailboxAuthentication,
          issueOwnerGrant, createShareInvitation, redeemInvitation, revokeInvitation,
          revokeGrant, beginRequest
  <1>2. ASSUME [RecipientNext]_recipientVars
        PROVE  [\A r \in reading \ reading' : served' =>
                   /\ Active(r.grant) /\ LineageActive(r.grant)
                   /\ r.module \notin withdrawn]_recipientVars
    BY <1>1, <1>2
  <1>. QED
    BY <1>2, PTL DEF RecipientSpec, NothingServedAfterRevocation

-----------------------------------------------------------------------------
(* The portal.  A decision is made on a projection that was read before    *)
(* the event is appended.  It is still right when the event is written     *)
(* because the log does not grow in between: with the file only the        *)
(* process that took the lock is inside #mutate, also when the lock of a   *)
(* dead process stays behind, and a remote command is one transaction.     *)
InsideLock == {"project", "append", "unlock", "refused"}
Outside == {"idle", "answered", "lock", "rpc", "check", "first", "second"}
Items == Tokens \cup ReportModules \cup {"none", "agreement"} \cup Nat
Ops == {"none", "download", "claimed", "issued", "revoked", "shared",
        "share_revoked", "contacted", "withdrawn", "restored"}
Requests == [op : Ops, ref : Nat, item : Items,
             pc : InsideLock \cup Outside \cup {"reply"}, seen : Nat,
             module : ReportModules \cup {"none"}]
Entries == [type : Ops, ref : Nat, item : Items, at : Nat]

PageStates == [sharing : BOOLEAN, asking : BOOLEAN, shown : SUBSET Nat]
PortalTypes ==
    /\ minute \in Nat
    /\ log \in Seq(Entries)
    /\ work \in [Servers -> Requests]
    /\ pendings \subseteq Nat /\ cookies \subseteq Nat
    /\ page \in PageStates

Serialized ==
    /\ \A s \in Servers : work[s].pc \in InsideLock \cup {"lock"} => adapter = "fixture"
    /\ \A s \in Servers : work[s].pc \in {"rpc", "reply"} => adapter # "fixture"
    /\ \A s \in Servers : work[s].pc \in InsideLock => lock
    /\ \A r, s \in Servers :
          work[r].pc \in InsideLock /\ work[s].pc \in InsideLock => r = s
    /\ \A s \in Servers : work[s].pc = "append" => work[s].seen = Len(log)

(* A sign-out that was written, and one that was answered.                 *)
SignOutsAreWritten ==
    /\ \A s \in Servers : work[s].pc \in {"unlock", "reply"} /\ work[s].op = "revoked" =>
          Revoked(Len(log), work[s].ref)
    /\ \A g \in signedOut : Revoked(Len(log), g)

PortalInv == PortalTypes /\ Serialized /\ SignOutsAreWritten /\ OneUseEach

OnlyMoves(s) == \A r \in Servers \ {s} : work'[r] = work[r]

(* A step of s that appends nothing and ends outside the lock.             *)
LEMMA OutsideStep ==
    ASSUME PortalInv, PortalTypes', NEW s \in Servers, OnlyMoves(s),
           UNCHANGED <<adapter, log>>,
           lock' = lock \/ work[s].pc \in InsideLock,
           work'[s].pc \in Outside,
           work'[s].pc = "lock" => adapter = "fixture",
           work'[s].pc = "rpc" => adapter # "fixture",
           \A g \in signedOut' : Revoked(Len(log), g)
    PROVE  PortalInv'
  <1>1. Serialized'
    BY DEF PortalInv, Serialized, OnlyMoves, InsideLock, Outside
  <1>2. SignOutsAreWritten'
    BY DEF PortalInv, SignOutsAreWritten, OnlyMoves, Outside, Revoked, Of
  <1>3. OneUseEach'
    BY DEF PortalInv, OneUseEach
  <1>. QED
    BY <1>1, <1>2, <1>3 DEF PortalInv

(* What an answer leaves behind.                                           *)
LEMMA AnswerTypes ==
    ASSUME PortalTypes, NEW s \in Servers, NEW ok \in BOOLEAN, NEW at \in Nat,
           Answer(s, ok, at)
    PROVE  /\ pendings' \subseteq Nat /\ cookies' \subseteq Nat
           /\ page' \in PageStates
  BY DEF PortalTypes, Answer, PageStates

LEMMA RefusedAttempt ==
    ASSUME PortalInv, NEW s \in Servers, FailedAttempt(s) \/ Denied(s),
           UNCHANGED <<adapter, minute, log>>,
           lock' = lock \/ work[s].pc \in InsideLock
    PROVE  PortalInv'
  <1>1. CASE Denied(s)
    <2>1. /\ work' = [work EXCEPT ![s] = Idle] /\ signedOut' = signedOut
          /\ Answer(s, FALSE, 0)
      BY <1>1 DEF Denied, Done, Answer
    <2>2. Idle \in Requests
      BY DEF Idle, Requests, Ops, Items, Outside
    <2>3. PortalTypes'
      BY <2>1, <2>2, AnswerTypes DEF PortalInv, PortalTypes
    <2>4. work'[s].pc = "idle" /\ OnlyMoves(s)
      BY <2>1 DEF PortalInv, PortalTypes, Idle, OnlyMoves
    <2>. QED
      BY <2>1, <2>3, <2>4, OutsideStep DEF PortalInv, SignOutsAreWritten, Outside
  <1>2. CASE /\ work' = [work EXCEPT ![s].pc = "check", ![s].module = "timber_pest"]
             /\ UNCHANGED <<pendings, cookies, signedOut, page>>
    <2>1. [work[s] EXCEPT !.pc = "check", !.module = "timber_pest"] \in Requests
      BY DEF PortalInv, PortalTypes, Requests, Outside, ReportModules
    <2>2. PortalTypes'
      BY <1>2, <2>1 DEF PortalInv, PortalTypes
    <2>3. work'[s].pc = "check" /\ OnlyMoves(s)
      BY <1>2 DEF PortalInv, PortalTypes, Requests, OnlyMoves
    <2>. QED
      BY <1>2, <2>2, <2>3, OutsideStep DEF PortalInv, SignOutsAreWritten, Outside
  <1>. QED
    BY <1>1, <1>2 DEF FailedAttempt

(* A request that arrives.                                                 *)
LEMMA ArrivePreserves ==
    ASSUME PortalInv, NEW s \in Servers, NEW op \in Ops, NEW ref \in Nat,
           NEW item \in Items, NEW pc \in {Entry, "check", "first"},
           NEW d \in ReportModules \cup {"none"}, Arrive(s, op, ref, item, pc, d),
           \/ page' = page
           \/ page' = [page EXCEPT !.sharing = TRUE]
           \/ page' = [page EXCEPT !.asking = TRUE]
    PROVE  PortalInv'
  <1>. DEFINE rec == [op |-> op, ref |-> ref, item |-> item, pc |-> pc, seen |-> 0,
                      module |-> d]
  <1>1. /\ work' = [work EXCEPT ![s] = rec]
        /\ UNCHANGED <<adapter, minute, log, lock, pendings, cookies, signedOut>>
    BY DEF Arrive
  <1>2. /\ pc \in Outside /\ (pc = "lock" => adapter = "fixture")
        /\ (pc = "rpc" => adapter # "fixture")
    BY DEF Entry, Outside
  <1>3. rec \in Requests
    BY <1>2 DEF Requests
  <1>4. PortalTypes'
    BY <1>1, <1>3 DEF PortalInv, PortalTypes, PageStates
  <1>5. work'[s].pc = pc /\ OnlyMoves(s)
    BY <1>1 DEF PortalInv, PortalTypes, OnlyMoves
  <1>. QED
    BY <1>1, <1>2, <1>4, <1>5, OutsideStep DEF PortalInv, SignOutsAreWritten

LEMMA RoutesPreserve ==
    ASSUME PortalInv, NEW s \in Servers,
           \/ \E t \in Tokens : redeemInvitationRoute(s, t)
           \/ \E c \in pendings : verifyCompleteRoute(s, c)
           \/ \E g \in cookies :
                 \/ sessionRoute(s, g) \/ shareRoute(s, g)
                 \/ \E v \in page.shown : unshareRoute(s, g, v)
                 \/ \E d \in ReportModules \cup {"none"} : contactRoute(s, g, d)
                 \/ \E r \in ReportModules \cup {"agreement"} : downloadRoute(s, g, r)
           \/ \E d \in ReportModules, op \in {"withdrawn", "restored"} :
                 setModuleWithdrawn(s, d, op)
    PROVE  PortalInv'
  <1>. USE ArrivePreserves DEF Items, Ops
  <1>1. ASSUME NEW t \in Tokens, redeemInvitationRoute(s, t) PROVE PortalInv'
    BY <1>1 DEF redeemInvitationRoute, Quiet
  <1>2. ASSUME NEW c \in pendings, verifyCompleteRoute(s, c) PROVE PortalInv'
    BY <1>2 DEF verifyCompleteRoute, Quiet, PortalInv, PortalTypes
  <1>3. ASSUME NEW g \in cookies, sessionRoute(s, g) PROVE PortalInv'
    BY <1>3 DEF sessionRoute, Quiet, PortalInv, PortalTypes, ReportModules
  <1>4. ASSUME NEW g \in cookies, shareRoute(s, g) PROVE PortalInv'
    BY <1>4 DEF shareRoute, PortalInv, PortalTypes
  <1>5. ASSUME NEW g \in cookies, NEW v \in page.shown, unshareRoute(s, g, v)
        PROVE  PortalInv'
    BY <1>5 DEF unshareRoute, PortalInv, PortalTypes, PageStates
  <1>6. ASSUME NEW g \in cookies, NEW d \in ReportModules \cup {"none"},
               contactRoute(s, g, d)
        PROVE  PortalInv'
    BY <1>6 DEF contactRoute, PortalInv, PortalTypes
  <1>7. ASSUME NEW g \in cookies, NEW r \in ReportModules \cup {"agreement"},
               downloadRoute(s, g, r)
        PROVE  PortalInv'
    BY <1>7 DEF downloadRoute, Quiet, PortalInv, PortalTypes, ReportModules
  <1>8. ASSUME NEW d \in ReportModules, NEW op \in {"withdrawn", "restored"},
               setModuleWithdrawn(s, d, op)
        PROVE  PortalInv'
    BY <1>8 DEF setModuleWithdrawn, Quiet
  <1>. QED
    BY <1>1, <1>2, <1>3, <1>4, <1>5, <1>6, <1>7, <1>8

(* What was said to be revoked stays revoked when the log grows.           *)
LEMMA RevokedStays ==
    ASSUME PortalTypes, NEW e, log' = Append(log, e)
    PROVE  \A g : Revoked(Len(log), g) => Revoked(Len(log), g)'
  BY DEF PortalTypes, Revoked, Of

LEMMA RevokedSame ==
    ASSUME UNCHANGED log
    PROVE  \A g : Revoked(Len(log), g)' <=> Revoked(Len(log), g)
  BY DEF Revoked, Of

LEMMA EventIsEntry ==
    ASSUME PortalTypes, NEW s \in Servers
    PROVE  /\ Event(work[s]) \in Entries
           /\ Event(work[s]).type = work[s].op /\ Event(work[s]).ref = work[s].ref
           /\ work[s].op # "contacted" => Event(work[s]).item = work[s].item
  BY DEF PortalTypes, Event, Requests, Entries, Items

(* A decision made on the whole log allows no second use.                  *)
LEMMA DecisionKeepsOneUse ==
    ASSUME PortalTypes, OneUseEach, NEW s \in Servers,
           Decision(work[s], Len(log)), log' = Append(log, Event(work[s]))
    PROVE  OneUseEach'
  <1>n. PICK n \in Nat : n = Len(log)
    BY DEF PortalTypes
  <1>. DEFINE e == Event(work[s])
              w == work[s]
  <1>1. /\ log' \in Seq(Entries) /\ DOMAIN log' = 1 .. n + 1 /\ DOMAIN log = 1 .. n
        /\ log'[n + 1] = e /\ \A i \in 1 .. n : log'[i] = log[i]
    BY <1>n, EventIsEntry DEF PortalTypes
  <1>2. /\ e.type = w.op /\ e.ref = w.ref
        /\ w.op # "contacted" => e.item = w.item
    BY EventIsEntry
  <1>. HIDE DEF e
  <1>3. ASSUME w.op = "claimed" PROVE \A i \in 1 .. n : log[i].type = "claimed" => log[i].item # w.item
    BY <1>n, <1>3 DEF Decision, claimInvitation, Claimed, Of
  <1>4. ASSUME w.op = "issued" PROVE \A i \in 1 .. n : log[i].type = "issued" => log[i].ref # w.ref
    BY <1>n, <1>4 DEF Decision, issueGrant, CompletedChallenge, Of
  <1>5. ASSUME w.op \in {"revoked", "shared", "contacted"}
        PROVE  \A i \in 1 .. n : log[i].type = "revoked" => log[i].ref # w.ref
    <2>1. GrantFor(n, w.ref)
      BY <1>n, <1>5 DEF Decision, revokeGrantOf, recordShareInvitation, recordContactRequest
    <2>. QED
      BY <2>1 DEF GrantFor, Revoked, Of
  <1>6. ASSUME w.op = "share_revoked"
        PROVE  \A i \in 1 .. n : log[i].type = "share_revoked" => log[i].item # w.item
    BY <1>n, <1>6 DEF Decision, revokeShareInvitation, ShareRevoked, Of
  <1>7. ASSUME NEW i \in DOMAIN log', NEW j \in DOMAIN log', i < j,
               log'[i].type = log'[j].type
        PROVE  /\ log'[i].type = "claimed" => log'[i].item # log'[j].item
               /\ log'[i].type \in {"issued", "revoked"} => log'[i].ref # log'[j].ref
               /\ log'[i].type = "share_revoked" => log'[i].item # log'[j].item
               /\ log'[i].type \in {"shared", "contacted"} =>
                     ~\E k \in 1 .. j : log'[k].type = "revoked" /\ log'[k].ref = log'[j].ref
    <2>1. i \in 1 .. n /\ log'[i] = log[i]
      BY <1>1, <1>7
    <2>2. CASE j \in 1 .. n
      <3>1. log'[j] = log[j] /\ \A k \in 1 .. j : log'[k] = log[k]
        BY <1>1, <2>2
      <3>. QED
        BY <1>1, <1>7, <2>1, <2>2, <3>1 DEF OneUseEach
    <2>3. CASE j = n + 1
      <3>1. log'[j] = e /\ log[i].type = w.op
        BY <1>1, <1>2, <1>7, <2>1, <2>3
      <3>2. ASSUME w.op \in {"shared", "contacted"}
            PROVE  ~\E k \in 1 .. j : log'[k].type = "revoked" /\ log'[k].ref = w.ref
        <4>1. \A k \in 1 .. n : ~(log'[k].type = "revoked" /\ log'[k].ref = w.ref)
          BY <1>1, <1>5, <3>2
        <4>2. log'[n + 1].type # "revoked"
          BY <1>1, <1>2, <3>2
        <4>. QED
          BY <2>3, <4>1, <4>2
      <3>. QED
        BY <1>2, <1>3, <1>4, <1>5, <1>6, <2>1, <3>1, <3>2
    <2>. QED
      BY <1>1, <2>2, <2>3
  <1>. QED
    BY <1>7 DEF OneUseEach

(* An append: the deciding process writes on the whole log, and nobody     *)
(* else holds a projection.                                                *)
LEMMA WritePreserves ==
    ASSUME PortalInv, NEW s \in Servers, NEW pc \in {"unlock", "reply"},
           Decision(work[s], Len(log)), log' = Append(log, Event(work[s])),
           work' = [work EXCEPT ![s].pc = pc, ![s].seen = Len(log) + 1],
           \/ work[s].pc = "append" /\ pc = "unlock"
           \/ work[s].pc = "rpc" /\ pc = "reply",
           UNCHANGED <<adapter, minute, lock, pendings, cookies, signedOut, page>>
    PROVE  PortalInv'
  <1>a. Len(log) + 1 \in Nat /\ work[s] \in Requests
    BY DEF PortalInv, PortalTypes
  <1>1. [work[s] EXCEPT !.pc = pc, !.seen = Len(log) + 1] \in Requests
    BY <1>a DEF Requests, InsideLock
  <1>2. PortalTypes'
    BY <1>1, EventIsEntry DEF PortalInv, PortalTypes
  <1>3. /\ work'[s].pc = pc /\ work'[s].op = work[s].op /\ work'[s].ref = work[s].ref
        /\ OnlyMoves(s)
    BY DEF PortalInv, PortalTypes, Requests, OnlyMoves
  <1>4. \A r \in Servers \ {s} : work[r].pc # "append"
    BY DEF PortalInv, Serialized, InsideLock
  <1>5. Serialized'
    <2>1. CASE pc = "unlock"
      <3>1. work[s].pc = "append" /\ adapter = "fixture" /\ lock
        BY <2>1 DEF PortalInv, Serialized, InsideLock
      <3>2. \A r \in Servers \ {s} : work'[r] = work[r] /\ work[r].pc \notin InsideLock
        BY <1>3, <3>1 DEF PortalInv, Serialized, OnlyMoves, InsideLock
      <3>3. work'[s].pc = "unlock"
        BY <1>3, <2>1
      <3>. QED
        BY <3>1, <3>2, <3>3 DEF PortalInv, Serialized, InsideLock
    <2>2. CASE pc = "reply"
      BY <1>3, <1>4, <2>2 DEF PortalInv, Serialized, OnlyMoves, InsideLock
    <2>. QED
      BY <2>1, <2>2
  <1>6. ASSUME work[s].op = "revoked" PROVE Revoked(Len(log), work[s].ref)'
    <2>1. /\ Len(log') = Len(log) + 1 /\ Len(log) \in Nat
          /\ log'[Len(log) + 1] = Event(work[s])
      BY EventIsEntry DEF PortalInv, PortalTypes
    <2>2. Event(work[s]).type = "revoked" /\ Event(work[s]).ref = work[s].ref
      BY <1>6, EventIsEntry DEF PortalInv
    <2>3. Len(log) + 1 \in 1 .. Len(log') /\ work'[s].ref = work[s].ref
      BY <1>3, <2>1
    <2>. QED
      BY <2>1, <2>2, <2>3 DEF Revoked, Of
  <1>7. SignOutsAreWritten'
    BY <1>3, <1>6, RevokedStays DEF PortalInv, SignOutsAreWritten, OnlyMoves
  <1>8. OneUseEach'
    BY DecisionKeepsOneUse DEF PortalInv
  <1>. QED
    BY <1>2, <1>5, <1>7, <1>8 DEF PortalInv

(* Inside the lock, without an append.                                     *)
LEMMA InsideStep ==
    ASSUME PortalInv, NEW s \in Servers, NEW pc \in {"project", "append", "refused"},
           NEW n \in Nat, UNCHANGED <<adapter, minute, log, pendings, cookies, signedOut, page>>,
           lock', adapter = "fixture",
           work' = [work EXCEPT ![s].pc = pc, ![s].seen = n],
           work[s].pc \in InsideLock \/ ~lock,
           pc = "append" => n = Len(log)
    PROVE  PortalInv'
  <1>1. [work[s] EXCEPT !.pc = pc, !.seen = n] \in Requests
    BY DEF PortalInv, PortalTypes, Requests, InsideLock
  <1>2. PortalTypes'
    BY <1>1 DEF PortalInv, PortalTypes
  <1>3. work'[s].pc = pc /\ work'[s].seen = n /\ OnlyMoves(s)
    BY DEF PortalInv, PortalTypes, Requests, OnlyMoves
  <1>4. Serialized'
    BY <1>3 DEF PortalInv, Serialized, OnlyMoves, InsideLock
  <1>5. SignOutsAreWritten'
    <2>1. ASSUME NEW r \in Servers, work'[r].pc \in {"unlock", "reply"}
          PROVE  r # s /\ work'[r] = work[r]
      BY <1>3, <2>1 DEF OnlyMoves
    <2>. QED
      BY <2>1, RevokedSame DEF PortalInv, SignOutsAreWritten
  <1>6. OneUseEach'
    BY DEF PortalInv, OneUseEach
  <1>. QED
    BY <1>2, <1>4, <1>5, <1>6 DEF PortalInv

LEMMA InsideLockPreserves ==
    ASSUME PortalInv, NEW s \in Servers,
           takeLock(s) \/ project(s) \/ append(s) \/ releaseLock(s)
    PROVE  PortalInv'
  <1>a. work[s] \in Requests /\ Len(log) \in Nat
    BY DEF PortalInv, PortalTypes
  <1>b. ASSUME NEW pc, Step(s, pc)
        PROVE  work' = [work EXCEPT ![s].pc = pc, ![s].seen = work[s].seen]
    <2>1. [work[s] EXCEPT !.pc = pc]
              = [work[s] EXCEPT !.pc = pc, !.seen = work[s].seen]
      BY <1>a DEF Requests
    <2>. QED
      BY <1>b, <2>1 DEF Step, PortalInv, PortalTypes
  <1>1. CASE takeLock(s)
    <2>1. CASE ~lock
      <3>1. /\ lock' /\ work[s].pc = "lock" /\ Step(s, "project")
            /\ UNCHANGED <<adapter, minute, log, pendings, cookies, signedOut, page>>
        BY <1>1, <2>1 DEF takeLock, mayLock
      <3>2. adapter = "fixture" /\ work[s].seen \in Nat
        BY <1>a, <3>1 DEF PortalInv, Serialized, Requests
      <3>. QED
        BY <1>b, <2>1, <3>1, <3>2, InsideStep
    <2>2. CASE lock
      BY <1>1, <2>2, RefusedAttempt DEF takeLock, mayLock
    <2>. QED
      BY <2>1, <2>2
  <1>2. CASE project(s)
    <2>1. /\ work[s].pc \in InsideLock /\ adapter = "fixture" /\ lock /\ lock' = lock
          /\ UNCHANGED <<adapter, minute, log, pendings, cookies, signedOut, page>>
      BY <1>2 DEF project, PortalInv, Serialized, InsideLock
    <2>2. CASE torn
      <3>1. /\ work' = [work EXCEPT ![s].pc = "refused", ![s].seen = work[s].seen]
            /\ work[s].seen \in Nat
        BY <1>2, <1>a, <1>b, <2>2 DEF project, Requests
      <3>. QED
        BY <2>1, <3>1, InsideStep
    <2>3. CASE ~torn
      <3>1. work' = [work EXCEPT ![s].pc = "append", ![s].seen = Len(log)]
        BY <1>2, <2>3 DEF project
      <3>. QED
        BY <1>a, <2>1, <3>1, InsideStep
    <2>. QED
      BY <2>2, <2>3
  <1>3. CASE append(s)
    <2>1. /\ work[s].pc = "append" /\ work[s].seen = Len(log)
          /\ adapter = "fixture" /\ lock /\ lock' = lock
          /\ UNCHANGED <<adapter, minute, pendings, cookies, signedOut, page>>
      BY <1>3 DEF append, PortalInv, Serialized, InsideLock
    <2>2. CASE Decision(work[s], work[s].seen)
      BY <1>3, <2>1, <2>2, WritePreserves DEF append
    <2>3. CASE ~Decision(work[s], work[s].seen)
      <3>1. Step(s, "refused") /\ UNCHANGED log /\ work[s].pc \in InsideLock
        BY <1>3, <2>1, <2>3 DEF append, InsideLock
      <3>. QED
        BY <1>a, <1>b, <2>1, <3>1, InsideStep DEF Requests
    <2>. QED
      BY <2>2, <2>3
  <1>4. CASE releaseLock(s)
    <2>1. work[s].pc \in InsideLock /\ UNCHANGED <<adapter, minute, log>>
      BY <1>4 DEF releaseLock, InsideLock
    <2>2. CASE work[s].pc = "unlock"
      <3>1. /\ work' = [work EXCEPT ![s] = Idle] /\ Answer(s, TRUE, work[s].seen)
        BY <1>4, <2>2 DEF releaseLock, Done
      <3>2. Idle \in Requests /\ Idle.pc \in Outside \ {"lock", "rpc"}
        BY DEF Idle, Requests, Ops, Items, Outside
      <3>3. work[s].seen \in Nat
        BY <1>a DEF Requests
      <3>4. PortalTypes'
        BY <2>1, <3>1, <3>2, <3>3, AnswerTypes DEF PortalInv, PortalTypes
      <3>5. work'[s] = Idle /\ OnlyMoves(s)
        BY <3>1 DEF PortalInv, PortalTypes, OnlyMoves
      <3>6. \A g \in signedOut' : Revoked(Len(log), g)
        BY <2>2, <3>1 DEF Answer, PortalInv, SignOutsAreWritten
      <3>. QED
        BY <2>1, <3>2, <3>4, <3>5, <3>6, OutsideStep
    <2>3. CASE work[s].pc # "unlock"
      BY <1>4, <2>1, <2>3, RefusedAttempt DEF releaseLock
    <2>. QED
      BY <2>2, <2>3
  <1>. QED
    BY <1>1, <1>2, <1>3, <1>4

LEMMA RemotePreserves ==
    ASSUME PortalInv, NEW s \in Servers, rpc(s) \/ rpcReply(s)
    PROVE  PortalInv'
  <1>1. CASE rpc(s)
    <2>1. CASE Decision(work[s], Len(log))
      BY <1>1, <2>1, WritePreserves DEF rpc
    <2>2. CASE ~Decision(work[s], Len(log))
      BY <1>1, <2>2, RefusedAttempt DEF rpc
    <2>. QED
      BY <2>1, <2>2
  <1>2. CASE rpcReply(s) /\ FailedAttempt(s)
    BY <1>2, RefusedAttempt DEF rpcReply
  <1>3. CASE rpcReply(s) /\ Done(s) /\ Answer(s, TRUE, work[s].seen)
    <2>1. /\ work' = [work EXCEPT ![s] = Idle] /\ Answer(s, TRUE, work[s].seen)
          /\ work[s].pc = "reply" /\ UNCHANGED <<adapter, minute, log, lock>>
      BY <1>3 DEF rpcReply, Done
    <2>2. Idle \in Requests /\ Idle.pc \in Outside \ {"lock", "rpc"}
      BY DEF Idle, Requests, Ops, Items, Outside
    <2>3. work[s].seen \in Nat
      BY DEF PortalInv, PortalTypes, Requests
    <2>4. PortalTypes'
      BY <2>1, <2>2, <2>3, AnswerTypes DEF PortalInv, PortalTypes
    <2>5. work'[s] = Idle /\ OnlyMoves(s)
      BY <2>1 DEF PortalInv, PortalTypes, OnlyMoves
    <2>6. \A g \in signedOut' : Revoked(Len(log), g)
      BY <2>1 DEF Answer, PortalInv, SignOutsAreWritten
    <2>. QED
      BY <2>1, <2>2, <2>4, <2>5, <2>6, OutsideStep
  <1>. QED
    BY <1>1, <1>2, <1>3 DEF rpcReply

(* What stays outside the log: checks, downloads, crashes, page loads.     *)
LEMMA OtherStepsPreserve ==
    ASSUME PortalInv, NEW s \in Servers,
           \/ checkSession(s) \/ Crash(s) \/ authorisePortalRequest(s)
           \/ \E g \in cookies : DemoReportPage(s, g)
    PROVE  PortalInv'
  <1>a. work[s] \in Requests
    BY DEF PortalInv, PortalTypes
  <1>1. CASE checkSession(s)
    <2>1. CASE FailedAttempt(s)
      BY <1>1, <2>1, RefusedAttempt DEF checkSession
    <2>2. CASE Step(s, Entry) /\ UNCHANGED <<pendings, cookies, signedOut, page>>
      <3>0. Entry \in {"lock", "rpc"} /\ (Entry = "lock" <=> adapter = "fixture")
        BY DEF Entry
      <3>1. [work[s] EXCEPT !.pc = Entry] \in Requests
        BY <1>a, <3>0 DEF Requests, Outside
      <3>2. PortalTypes' /\ UNCHANGED <<adapter, log, lock, signedOut>>
        BY <1>1, <2>2, <3>1 DEF checkSession, Step, PortalInv, PortalTypes
      <3>3. work'[s].pc = Entry /\ OnlyMoves(s)
        BY <1>a, <2>2 DEF Step, PortalInv, PortalTypes, Requests, OnlyMoves
      <3>. QED
        BY <3>0, <3>2, <3>3, OutsideStep DEF PortalInv, SignOutsAreWritten, Outside
    <2>. QED
      BY <1>1, <2>1, <2>2 DEF checkSession
  <1>2. CASE Crash(s)
    BY <1>2, RefusedAttempt DEF Crash
  <1>3. CASE authorisePortalRequest(s)
    <2>1. PICK req \in {[Idle EXCEPT !.pc = "answered"],
                        [work[s] EXCEPT !.pc = "second",
                           !.module = IF work[s].item = "agreement" THEN "building" ELSE @],
                        [work[s] EXCEPT !.module = "timber_pest"], Idle} :
              work' = [work EXCEPT ![s] = req]
      BY <1>3 DEF authorisePortalRequest
    <2>2. req \in Requests /\ req.pc \in {"answered", "second", "first", "idle"}
      <3>1. work[s].pc \in {"first", "second"}
        BY <1>3 DEF authorisePortalRequest
      <3>. QED
        <4>1. CASE req = Idle \/ req = [Idle EXCEPT !.pc = "answered"]
          BY <4>1 DEF Idle, Requests, Ops, Items, Outside
        <4>2. CASE req = [work[s] EXCEPT !.module = "timber_pest"]
          BY <1>a, <3>1, <4>2 DEF Requests, Outside, ReportModules
        <4>3. CASE req = [work[s] EXCEPT !.pc = "second",
                            !.module = IF work[s].item = "agreement" THEN "building" ELSE @]
          BY <1>a, <3>1, <4>3 DEF Requests, Outside, ReportModules
        <4>. QED
          BY <2>1, <4>1, <4>2, <4>3
    <2>3. PortalTypes' /\ UNCHANGED <<adapter, log, lock, signedOut>>
      BY <1>3, <2>1, <2>2 DEF authorisePortalRequest, PortalInv, PortalTypes
    <2>4. work'[s] = req /\ OnlyMoves(s)
      BY <2>1 DEF PortalInv, PortalTypes, OnlyMoves
    <2>. QED
      BY <2>2, <2>3, <2>4, OutsideStep DEF PortalInv, SignOutsAreWritten, Outside
  <1>4. ASSUME NEW g \in cookies, DemoReportPage(s, g) PROVE PortalInv'
    <2>1. UNCHANGED <<adapter, minute, log, lock, work, pendings, cookies, signedOut>>
      BY <1>4 DEF DemoReportPage
    <2>2. Of(Len(log), "shared") \subseteq Nat
      BY DEF PortalInv, PortalTypes, Of
    <2>3. page' \in PageStates
      BY <1>4, <2>2 DEF DemoReportPage, PageStates
    <2>. QED
      BY <2>1, <2>3 DEF PortalInv, PortalTypes, Serialized, SignOutsAreWritten, Revoked, Of,
          OneUseEach
  <1>. QED
    BY <1>1, <1>2, <1>3, <1>4

LEMMA PortalInvariant == PortalSpec => []PortalInv
  <1>1. PortalInit => PortalInv
    BY DEF PortalInit, PortalInv, PortalTypes, Serialized, SignOutsAreWritten, OneUseEach,
        Idle, Requests, Ops, Items, Outside, InsideLock, Revoked, Of, PageStates
  <1>2. ASSUME PortalInv, [PortalNext]_portalVars PROVE PortalInv'
    <2>1. CASE Minute \/ UNCHANGED portalVars
      <3>1. /\ UNCHANGED <<adapter, log, lock, work, pendings, cookies, signedOut, page>>
            /\ minute' \in Nat
        BY <1>2, <2>1 DEF Minute, portalVars, PortalInv, PortalTypes
      <3>2. PortalTypes' /\ Serialized' /\ OneUseEach'
        BY <1>2, <3>1 DEF PortalInv, PortalTypes, Serialized, OneUseEach
      <3>3. SignOutsAreWritten'
        BY <1>2, <3>1, RevokedSame DEF PortalInv, SignOutsAreWritten
      <3>. QED
        BY <3>2, <3>3 DEF PortalInv
    <2>. QED
      BY <1>2, <2>1, RoutesPreserve, InsideLockPreserves, RemotePreserves, OtherStepsPreserve
         DEF PortalNext
  <1>. QED
    BY <1>1, <1>2, PTL DEF PortalSpec

(* An invitation, a claim, a grant and a share are used once, and no grant *)
(* acts after its revocation (recipient-demo-store.ts:130-207, 415-432).   *)
THEOREM EachIsUsedOnce == PortalSpec => []OneUseEach
  <1>1. PortalInv => OneUseEach
    BY DEF PortalInv
  <1>. QED
    BY <1>1, PortalInvariant, PTL

(* Only a second check lets a download answer: every other step is of a    *)
(* process that serves something else, or nothing.                         *)
LEMMA OthersAnswerNothing ==
    ASSUME PortalInv, NEW s \in Servers, work[s].pc \in {"first", "second"},
           NEW t \in Servers,
           \/ \E x \in Tokens : redeemInvitationRoute(t, x)
           \/ \E c \in pendings : verifyCompleteRoute(t, c)
           \/ \E g \in cookies :
                 \/ sessionRoute(t, g) \/ shareRoute(t, g) \/ DemoReportPage(t, g)
                 \/ \E v \in page.shown : unshareRoute(t, g, v)
                 \/ \E d \in ReportModules \cup {"none"} : contactRoute(t, g, d)
                 \/ \E r \in ReportModules \cup {"agreement"} : downloadRoute(t, g, r)
           \/ \E d \in ReportModules, op \in {"withdrawn", "restored"} :
                 setModuleWithdrawn(t, d, op)
           \/ checkSession(t) \/ takeLock(t) \/ project(t) \/ append(t)
           \/ releaseLock(t) \/ Crash(t) \/ rpc(t) \/ rpcReply(t)
    PROVE  work'[s] = work[s]
  <1>1. \/ work' = work
        \/ Free(t)
        \/ work[t].pc \in {"check", "lock", "project", "append", "unlock", "refused",
                           "rpc", "reply"}
    BY DEF redeemInvitationRoute, verifyCompleteRoute, sessionRoute, shareRoute,
        DemoReportPage, unshareRoute, contactRoute, downloadRoute, setModuleWithdrawn, Arrive,
        checkSession, takeLock, project, append, releaseLock, Crash, rpc, rpcReply
  <1>2. work' = work \/ \E x : work' = [work EXCEPT ![t] = x]
    BY DEF redeemInvitationRoute, verifyCompleteRoute, sessionRoute, shareRoute,
        DemoReportPage, unshareRoute, contactRoute, downloadRoute, setModuleWithdrawn, Arrive,
        checkSession, takeLock, project, append, releaseLock, Crash, rpc, rpcReply,
        FailedAttempt, Denied, Done, Step
  <1>3. work' = work \/ s # t
    BY <1>1 DEF Free
  <1>. QED
    BY <1>2, <1>3 DEF PortalInv, PortalTypes

(* Nothing is handed out to a session whose sign-out was answered          *)
(* (download/[record]/route.ts:24-50, media/[artifactId]/route.ts:34-45).  *)
THEOREM SignOutIsRespected == PortalSpec => SignedOutStaysOut
  <1>1. ASSUME PortalInv, PortalNext, NEW s \in Servers,
               work[s].op = "download", work[s].pc \in {"first", "second"},
               work'[s].pc = "answered"
        PROVE  work[s].ref \notin signedOut
    <2>1. ASSUME authorisePortalRequest(s) PROVE work[s].ref \notin signedOut
      <3>1. passes(work[s])
        BY <1>1, <2>1 DEF authorisePortalRequest, PortalInv, PortalTypes, Requests, Idle
      <3>. QED
        BY <1>1, <3>1 DEF passes, authorise, GrantFor, PortalInv, SignOutsAreWritten
    <2>2. ASSUME NEW t \in Servers, t # s, authorisePortalRequest(t) PROVE FALSE
      BY <1>1, <2>2 DEF authorisePortalRequest, PortalInv, PortalTypes
    <2>3. ASSUME Minute PROVE FALSE
      BY <1>1, <2>3 DEF Minute
    <2>. QED
      BY <1>1, <2>1, <2>2, <2>3, OthersAnswerNothing DEF PortalNext
  <1>2. ASSUME PortalInv, [PortalNext]_portalVars
        PROVE  [\A s \in Servers :
                  /\ work[s].op = "download" /\ work[s].pc \in {"first", "second"}
                  /\ work'[s].pc = "answered"
                  => work[s].ref \notin signedOut]_portalVars
    BY <1>1, <1>2
  <1>. QED
    BY <1>2, PortalInvariant, PTL DEF PortalSpec, SignedOutStaysOut
=============================================================================
