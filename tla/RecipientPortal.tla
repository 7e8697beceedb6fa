-------------------------- MODULE RecipientPortal --------------------------
(***************************************************************************)
(* The recipient portal of the web application: an invitation is claimed   *)
(* once, a code turns the claim into a grant and a session cookie, and the *)
(* session reads the report, downloads records, shares access, asks the    *)
(* inspector and signs out.  All durable state is an event log behind a    *)
(* RecipientStateAuthority.  With the "fixture" adapter it is a file that  *)
(* several server processes append to under a lock file, which a process   *)
(* that dies leaves behind; with "supabase" each command is one remote     *)
(* transaction whose answer can be lost.  A challenge, a grant and a share *)
(* invitation are named by the position of their event in the log.         *)
(***************************************************************************)
EXTENDS Naturals, Sequences, FiniteSets

CONSTANTS
    Servers,        \* server processes, each serving one request at a time
    Tokens,         \* invitation tokens
    MaxLog,         \* bound: events in the log
    MaxLost,        \* bound: processes that die and answers that are lost
    ChallengeTime,  \* life of a claimed invitation (10 minutes)
    GrantTime,      \* life of a grant and of its cookie (60 minutes)
    MaxMinutes      \* bound: the last instant

ASSUME PortalAssumption ==
    /\ MaxLog \in Nat /\ MaxLost \in Nat /\ MaxMinutes \in Nat
    /\ ChallengeTime \in Nat \ {0} /\ GrantTime \in Nat \ {0}

ReportModules == {"building", "timber_pest"}

VARIABLES
    adapter,    \* RECIPIENT_AUTHORITY_ADAPTER
    minute,
    log,        \* the events, in file order
    torn,       \* whether the file ends in an unreadable line
    lock,       \* whether the lock file exists
    work,       \* server -> the request it serves
    pendings,   \* pending cookies in browsers: positions of claims
    cookies,    \* session cookies in browsers: positions of grants
    signedOut,  \* history: grants whose sign-out was answered
    lost,       \* how much was lost so far
    page        \* the share and contact panels of one open report page

portalVars == <<adapter, minute, log, torn, lock, work, pendings, cookies,
                signedOut, lost, page>>

Idle == [op |-> "none", ref |-> 0, item |-> 0, pc |-> "idle", seen |-> 0,
         module |-> "none"]

PortalInit ==
    /\ adapter \in {"fixture", "supabase"} /\ minute = 0
    /\ log = <<>> /\ torn = FALSE /\ lock = FALSE
    /\ work = [s \in Servers |-> Idle]
    /\ pendings = {} /\ cookies = {} /\ signedOut = {} /\ lost = 0
    /\ page = [sharing |-> FALSE, asking |-> FALSE, shown |-> {}]

-----------------------------------------------------------------------------
(* #project: what a prefix of the log says.                                *)

Of(n, type) == {i \in 1 .. n : log[i].type = type}
Claimed(n, t) == \E i \in Of(n, "claimed") : log[i].item = t
CompletedChallenge(n, c) == \E i \in Of(n, "issued") : log[i].ref = c
Revoked(n, g) == \E i \in Of(n, "revoked") : log[i].ref = g
ShareRevoked(n, v) == \E i \in Of(n, "share_revoked") : log[i].item = v
Withdrawn(n, d) ==
    \E i \in Of(n, "withdrawn") :
       /\ log[i].item = d
       /\ \A j \in Of(n, "restored") : log[j].item = d => j < i

(* grantForSession: the cookie holds revision 1, and only a revocation     *)
(* changes the revision; cookie and grant expire together.                 *)
GrantFor(n, g) == /\ g \in Of(n, "issued") /\ ~Revoked(n, g)
                  /\ log[g].at + GrantTime > minute

AnyActive(n) == \E d \in ReportModules : ~Withdrawn(n, d)

(* A grant always has both modules and every action (issueGrant).          *)
authorise(n, g, d) == GrantFor(n, g) /\ ~Withdrawn(n, d)
portalState(n, g) == GrantFor(n, g) /\ ~Withdrawn(n, "timber_pest")

(* The condition of each mutation, on the projection it was given.         *)
claimInvitation(n, t) == ~Claimed(n, t)
issueGrant(n, c) == /\ c \in Of(n, "claimed") /\ log[c].at + ChallengeTime > minute
                    /\ ~CompletedChallenge(n, c)
revokeGrantOf(n, g) == GrantFor(n, g)
recordShareInvitation(n, g) == GrantFor(n, g) /\ AnyActive(n)
revokeShareInvitation(n, g, v) ==
    /\ GrantFor(n, g) /\ v \in Of(n, "shared") /\ log[v].ref = g
    /\ ~ShareRevoked(n, v)
recordContactRequest(n, g, d) ==
    GrantFor(n, g) /\ (IF d = "none" THEN AnyActive(n) ELSE ~Withdrawn(n, d))

Decision(w, n) ==
    CASE w.op = "claimed"       -> claimInvitation(n, w.item)
      [] w.op = "issued"        -> issueGrant(n, w.ref)
      [] w.op = "revoked"       -> revokeGrantOf(n, w.ref)
      [] w.op = "shared"        -> recordShareInvitation(n, w.ref)
      [] w.op = "share_revoked" -> revokeShareInvitation(n, w.ref, w.item)
      [] w.op = "contacted"     -> recordContactRequest(n, w.ref, w.item)
      [] w.op \in {"withdrawn", "restored"} -> TRUE

(* Only what some decision reads: the time of claims and grants, and no    *)
(* finding of a question.                                                  *)
Event(w) == [type |-> w.op, ref |-> w.ref,
             item |-> IF w.op = "contacted" THEN 0 ELSE w.item,
             at |-> IF w.op \in {"claimed", "issued"} THEN minute ELSE 0]

-----------------------------------------------------------------------------
(* A request arrives.  Mutations go to the lock or the remote command,     *)
(* sign-out and downloads to their first check.                            *)

Free(s) == work[s].pc \in {"idle", "answered"}
Entry == IF adapter = "fixture" THEN "lock" ELSE "rpc"

Arrive(s, op, ref, item, pc, d) ==
    /\ Free(s)
    /\ work' = [work EXCEPT ![s] = [op |-> op, ref |-> ref, item |-> item,
                                    pc |-> pc, seen |-> 0, module |-> d]]
    /\ UNCHANGED <<adapter, minute, log, torn, lock, pendings, cookies,
                   signedOut, lost>>

CookieLive(g) == log[g].at + GrantTime > minute
Quiet == UNCHANGED page
(* Each panel disables its buttons while a request of its own is out.      *)
ShareReady == ~page.sharing
ContactReady == ~page.asking

redeemInvitationRoute(s, t) == Arrive(s, "claimed", 0, t, Entry, "none") /\ Quiet
(* completeDemoOtp with the right code; a wrong one is refused at once.    *)
verifyCompleteRoute(s, c) ==
    /\ c \in pendings /\ log[c].at + ChallengeTime > minute
    /\ Arrive(s, "issued", c, 0, Entry, "none") /\ Quiet
sessionRoute(s, g) ==
    /\ g \in cookies /\ CookieLive(g)
    /\ Arrive(s, "revoked", g, 0, "check", "building") /\ Quiet
shareRoute(s, g) ==
    /\ g \in cookies /\ CookieLive(g) /\ ShareReady
    /\ Arrive(s, "shared", g, 0, Entry, "none")
    /\ page' = [page EXCEPT !.sharing = TRUE]
unshareRoute(s, g, v) ==
    /\ g \in cookies /\ CookieLive(g) /\ ShareReady /\ v \in page.shown
    /\ Arrive(s, "share_revoked", g, v, Entry, "none")
    /\ page' = [page EXCEPT !.sharing = TRUE]
contactRoute(s, g, d) ==
    /\ g \in cookies /\ CookieLive(g) /\ ContactReady
    /\ Arrive(s, "contacted", g, d, Entry, "none")
    /\ page' = [page EXCEPT !.asking = TRUE]
setModuleWithdrawn(s, d, op) == Arrive(s, op, 0, d, Entry, "none") /\ Quiet

(* A module's PDF and media need that module; the agreement and the        *)
(* invoice need either, so they try building first.                        *)
downloadRoute(s, g, record) ==
    /\ g \in cookies /\ CookieLive(g)
    /\ Arrive(s, "download", g, record, "first",
              IF record = "agreement" THEN "building" ELSE record)
    /\ Quiet

(* readPortalSession and demoPortalState of the report page.               *)
DemoReportPage(s, g) ==
    /\ g \in cookies /\ CookieLive(g) /\ Free(s) /\ ~torn /\ portalState(Len(log), g)
    /\ page' = [sharing |-> FALSE, asking |-> FALSE,
                shown |-> {v \in Of(Len(log), "shared") :
                             log[v].ref = g /\ ~ShareRevoked(Len(log), v)}]
    /\ page' # page
    /\ UNCHANGED <<adapter, minute, log, torn, lock, work, pendings, cookies,
                   signedOut, lost>>

-----------------------------------------------------------------------------
(* #mutate of the file store, and the crash of the process in it.          *)

Step(s, pc) == work' = [work EXCEPT ![s].pc = pc]
Done(s) == work' = [work EXCEPT ![s] = Idle]

(* The answer of a mutation: what the route and the page do with it.       *)
Answer(s, ok, at) ==
    LET w == work[s] IN
    /\ pendings' = IF ok /\ w.op = "claimed" THEN pendings \cup {at}
                   ELSE IF ok /\ w.op = "issued" THEN pendings \ {w.ref}
                   ELSE pendings
    /\ cookies' = IF ok /\ w.op = "issued" THEN cookies \cup {at}
                  ELSE IF ok /\ w.op = "revoked" THEN cookies \ {w.ref}
                  ELSE cookies
    /\ signedOut' = IF ok /\ w.op = "revoked" THEN signedOut \cup {w.ref}
                    ELSE signedOut
    /\ page' = CASE w.op = "contacted" -> [page EXCEPT !.asking = FALSE]
                 [] w.op \in {"shared", "share_revoked"} ->
                       [page EXCEPT !.sharing = FALSE,
                          !.shown = IF ~ok THEN @
                                    ELSE IF w.op = "shared" THEN @ \cup {at}
                                    ELSE @ \ {w.item}]
                 [] OTHER -> page

Denied(s) == /\ Done(s) /\ Answer(s, FALSE, 0)

(* sign-out tries its second module when the first attempt failed.         *)
FailedAttempt(s) ==
    IF work[s].op = "revoked" /\ work[s].module = "building"
    THEN /\ work' = [work EXCEPT ![s].pc = "check", ![s].module = "timber_pest"]
         /\ UNCHANGED <<pendings, cookies, signedOut, page>>
    ELSE Denied(s)

checkSession(s) ==
    /\ work[s].pc = "check"
    /\ IF ~torn /\ authorise(Len(log), work[s].ref, work[s].module)
       THEN Step(s, Entry) /\ UNCHANGED <<pendings, cookies, signedOut, page>>
       ELSE FailedAttempt(s)
    /\ UNCHANGED <<adapter, minute, log, torn, lock, lost>>

(* Mutant: the lock file is opened without the exclusive flag.             *)
shareLock == TRUE
mayLock == ~lock

takeLock(s) ==
    /\ work[s].pc = "lock"
    /\ IF mayLock
       THEN /\ lock' = TRUE /\ Step(s, "project")
            /\ UNCHANGED <<pendings, cookies, signedOut, page>>
       ELSE /\ UNCHANGED lock /\ FailedAttempt(s)
    /\ UNCHANGED <<adapter, minute, log, torn, lost>>

project(s) ==
    /\ work[s].pc = "project"
    /\ IF torn THEN Step(s, "refused") /\ UNCHANGED log
       ELSE /\ work' = [work EXCEPT ![s].pc = "append", ![s].seen = Len(log)]
            /\ UNCHANGED log
    /\ UNCHANGED <<adapter, minute, torn, lock, pendings, cookies, signedOut,
                   lost, page>>

append(s) ==
    /\ work[s].pc = "append" /\ Len(log) < MaxLog
    /\ IF Decision(work[s], work[s].seen)
       THEN /\ log' = Append(log, Event(work[s]))
            /\ work' = [work EXCEPT ![s].pc = "unlock", ![s].seen = Len(log) + 1]
       ELSE Step(s, "refused") /\ UNCHANGED log
    /\ UNCHANGED <<adapter, minute, torn, lock, pendings, cookies, signedOut,
                   lost, page>>

releaseLock(s) ==
    /\ work[s].pc \in {"unlock", "refused"}
    /\ lock' = FALSE
    /\ IF work[s].pc = "unlock"
       THEN Done(s) /\ Answer(s, TRUE, work[s].seen)
       ELSE FailedAttempt(s)
    /\ UNCHANGED <<adapter, minute, log, torn, lost>>

(* The process dies inside #mutate: the lock file stays, and a line that   *)
(* was being written may be cut short.  The browser sees an error.         *)
Crash(s) ==
    /\ work[s].pc \in {"project", "append", "unlock", "refused"}
    /\ lost < MaxLost /\ lost' = lost + 1
    /\ torn' \in {torn, torn \/ (work[s].pc = "append"
                                 /\ Decision(work[s], work[s].seen))}
    /\ Denied(s)
    /\ UNCHANGED <<adapter, minute, log, lock>>

(* SupabaseRecipientStateAuthority.#rpc: the command is one transaction;   *)
(* an answer that is lost or unreadable is an error for the route.         *)
rpc(s) ==
    /\ work[s].pc = "rpc" /\ Len(log) < MaxLog
    /\ IF Decision(work[s], Len(log))
       THEN /\ log' = Append(log, Event(work[s]))
            /\ work' = [work EXCEPT ![s].pc = "reply", ![s].seen = Len(log) + 1]
            /\ UNCHANGED <<pendings, cookies, signedOut, page>>
       ELSE UNCHANGED log /\ FailedAttempt(s)
    /\ UNCHANGED <<adapter, minute, torn, lock, lost>>

rpcReply(s) ==
    /\ work[s].pc = "reply"
    /\ \/ /\ Done(s) /\ Answer(s, TRUE, work[s].seen)
          /\ UNCHANGED lost
       \/ /\ lost < MaxLost /\ lost' = lost + 1 /\ FailedAttempt(s)
    /\ UNCHANGED <<adapter, minute, log, torn, lock>>

-----------------------------------------------------------------------------
(* A download is authorised, generated, and authorised again.              *)

(* Mutant: the second check is skipped.                                    *)
passesAsBefore(w) ==
    \/ w.pc = "second"
    \/ ~torn /\ CookieLive(w.ref) /\ authorise(Len(log), w.ref, w.module)
passes(w) == ~torn /\ CookieLive(w.ref) /\ authorise(Len(log), w.ref, w.module)

authorisePortalRequest(s) ==
    LET w == work[s] IN
    /\ w.pc \in {"first", "second"}
    /\ work' = [work EXCEPT ![s] =
          IF passes(w)
          THEN IF w.pc = "second" THEN [Idle EXCEPT !.pc = "answered"]
               ELSE [w EXCEPT !.pc = "second",
                       !.module = IF w.item = "agreement" THEN "building" ELSE @]
          ELSE IF w.item = "agreement" /\ w.module = "building"
               THEN [w EXCEPT !.module = "timber_pest"]
               ELSE Idle]
    /\ UNCHANGED <<adapter, minute, log, torn, lock, pendings, cookies,
                   signedOut, lost, page>>

Minute == /\ minute < MaxMinutes /\ minute' = minute + 1
          /\ UNCHANGED <<adapter, log, torn, lock, work, pendings, cookies,
                         signedOut, lost, page>>

PortalNext ==
    \/ Minute
    \/ \E s \in Servers :
          \/ \E t \in Tokens : redeemInvitationRoute(s, t)
          \/ \E c \in pendings : verifyCompleteRoute(s, c)
          \/ \E g \in cookies :
                \/ sessionRoute(s, g) \/ shareRoute(s, g) \/ DemoReportPage(s, g)
                \/ \E v \in page.shown : unshareRoute(s, g, v)
                \/ \E d \in ReportModules \cup {"none"} : contactRoute(s, g, d)
                \/ \E r \in ReportModules \cup {"agreement"} :
                      downloadRoute(s, g, r)
          \/ \E d \in ReportModules, op \in {"withdrawn", "restored"} :
                setModuleWithdrawn(s, d, op)
          \/ checkSession(s) \/ takeLock(s) \/ project(s) \/ append(s)
          \/ releaseLock(s) \/ Crash(s) \/ rpc(s) \/ rpcReply(s)
          \/ authorisePortalRequest(s)

PortalSpec == PortalInit /\ [][PortalNext]_portalVars

-----------------------------------------------------------------------------
(* Whatever the processes interleave, lose or leave behind, an invitation  *)
(* is claimed at most once, a claim becomes at most one grant, a grant and *)
(* a share are revoked at most once, and no grant acts after its own       *)
(* revocation (recipient-demo-store.ts:130-207, 415-432).                  *)
OneUseEach ==
    \A i, j \in DOMAIN log : i < j /\ log[i].type = log[j].type =>
       /\ log[i].type = "claimed" => log[i].item # log[j].item
       /\ log[i].type \in {"issued", "revoked"} => log[i].ref # log[j].ref
       /\ log[i].type = "share_revoked" => log[i].item # log[j].item
       /\ log[i].type \in {"shared", "contacted"} =>
             ~\E k \in 1 .. j : log[k].type = "revoked" /\ log[k].ref = log[j].ref

(* Once a sign-out was answered nothing is handed out to that session,     *)
(* also not by a download that had been authorised before it               *)
(* (download/[record]/route.ts:24-50, media/[artifactId]/route.ts:34-45).  *)
SignedOutStaysOut ==
    [][\A s \in Servers :
          /\ work[s].op = "download" /\ work[s].pc \in {"first", "second"}
          /\ work'[s].pc = "answered"
          => work[s].ref \notin signedOut]_portalVars
=============================================================================
