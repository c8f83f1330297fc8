----------------------------- MODULE PosAccounts -----------------------------
(***************************************************************************)
(* The life of an owner account and of its terminals: provisioning by the  *)
(* admin, invites and password resets, the two tiers of suspension         *)
(* (OwnersService, InviteService), pairing and unpairing (PairingService,  *)
(* TerminalsService) and the gate every POS request passes (TerminalGuard).*)
(* Credentials, hashes and token lifetimes of sessions are not modelled: a *)
(* request that needs them either has them or is refused.                  *)
(***************************************************************************)
EXTENDS Naturals, FiniteSets

CONSTANTS
  Owners, Branches,
  OwnerOf,      \* the owner of each branch
  Terminals,    \* uuids of terminals, created or not
  Tokens,       \* emailed tokens, created or not
  Reqs,         \* requests in the server
  Offers,       \* sets of calls; the clients of one behaviour make those of one set
  Provisioned,  \* owners that exist at the start, invited but not activated
  InviteOf,     \* the token of each such owner's invite
  PairedAtStart,\* terminals paired at the start, one of a branch, owner active
  BranchOfStart,\* and their branches
  Nobody, NoJob

Statuses == {"none", "active", "suspended", "hard_suspended"}
OwnerKinds == {"create", "requestReset", "suspend", "hardSuspend", "reinstate"}
TokenKinds == {"accept", "confirmReset"}
PosKinds == {"open", "close"}

(* A call: `about' is what it names; `as' the owner whose credentials or        *)
(* pairing token the client has, if any.                                     *)
As == Owners \cup {Nobody}
Job == [kind : OwnerKinds, about : Owners, as : As]
       \cup [kind : TokenKinds, about : Tokens, as : As]
       \cup [kind : {"pair"}, about : Branches, as : As]
       \cup [kind : {"unpair", "remoteUnpair"} \cup PosKinds, about : Terminals, as : As]
Calls == UNION Offers

ASSUME AccountsAssumption ==
  /\ IsFiniteSet(Terminals)
  /\ OwnerOf \in [Branches -> Owners] /\ Provisioned \subseteq Owners
  /\ InviteOf \in [Provisioned -> Tokens]
  /\ \A o, p \in Provisioned : InviteOf[o] = InviteOf[p] => o = p
  /\ PairedAtStart \subseteq Terminals /\ BranchOfStart \in [PairedAtStart -> Branches]
  /\ \A t, u \in PairedAtStart : BranchOfStart[t] = BranchOfStart[u] => t = u
  /\ \A t \in PairedAtStart : OwnerOf[BranchOfStart[t]] \notin Provisioned
  /\ Calls \subseteq Job /\ NoJob \notin Job
  /\ Nobody \notin Owners \cup Reqs \cup Branches

VARIABLES
  status,     \* owners.status; "none" before the row exists
  grace,      \* owners.suspended_at: null, within 24 hours, or earlier
  password,   \* owners whose user has a password
  demos,      \* demo businesses of each owner
  tokens,     \* auth_tokens: kind, user, used, expired
  terms,      \* terminals: branch, n of the code Tn, whether a device token is set
  open,       \* terminals with an open shift
  pc, job,    \* each request's place and call
  got,        \* the count, the terminal or nothing, that it read
  tries,      \* creates that hit the code of another pairing
  winners,    \* other pairings of the branch stored since it began
  gate,       \* owner status its guard let it in under
  offered     \* the calls of this behaviour

ownerVars == <<status, grace, password, demos>>
termVars == <<terms, open>>
reqVars == <<pc, job, got, tries, winners, gate>>
vars == <<ownerVars, tokens, termVars, reqVars, offered>>

NoToken == [kind |-> "none", owner |-> Nobody, used |-> FALSE, expired |-> FALSE]
NoTerminal == [branch |-> Nobody, n |-> 0, paired |-> FALSE]
Fresh(kind, o) == [kind |-> kind, owner |-> o, used |-> FALSE, expired |-> FALSE]

Init ==
  /\ status = [o \in Owners |->
       IF o \in Provisioned \/ \E t \in PairedAtStart : OwnerOf[BranchOfStart[t]] = o
         THEN "active" ELSE "none"]
  /\ grace = [o \in Owners |-> "null"]
  /\ password = {OwnerOf[BranchOfStart[t]] : t \in PairedAtStart}
  /\ demos = [o \in Owners |-> 0]
  /\ tokens = [k \in Tokens |->
       IF \E o \in Provisioned : InviteOf[o] = k
         THEN Fresh("invite", CHOOSE o \in Provisioned : InviteOf[o] = k) ELSE NoToken]
  /\ terms = [t \in Terminals |->
       IF t \in PairedAtStart THEN [branch |-> BranchOfStart[t], n |-> 1, paired |-> TRUE] ELSE NoTerminal]
  /\ open = {}
  /\ pc = [q \in Reqs |-> "idle"] /\ job = [q \in Reqs |-> NoJob]
  /\ got = [q \in Reqs |-> 0] /\ tries = [q \in Reqs |-> 0]
  /\ winners = [q \in Reqs |-> 0] /\ gate = [q \in Reqs |-> "none"]
  /\ offered \in Offers

Places == {"idle", "create", "invite", "readUser", "readToken", "consume", "get", "set",
           "signIn", "owned", "active", "count", "store", "readTerminal", "reauth", "load",
           "unset", "guard", "openShift", "check", "act"}
At(q, p) == pc[q] = p
About(q) == job[q].about
Go(q, p) == pc' = [pc EXCEPT ![q] = p] /\ UNCHANGED <<job, gate, offered>>
On(q, p) == Go(q, p) /\ UNCHANGED <<got, tries, winners>>
Done(q) ==
  /\ pc' = [pc EXCEPT ![q] = "idle"] /\ job' = [job EXCEPT ![q] = NoJob]
  /\ got' = [got EXCEPT ![q] = 0] /\ tries' = [tries EXCEPT ![q] = 0]
  /\ gate' = [gate EXCEPT ![q] = "none"]
  /\ UNCHANGED offered
Quiet == UNCHANGED <<ownerVars, tokens, termVars>>
Fail(q) == Done(q) /\ UNCHANGED winners /\ Quiet
Ask(q, ok, next) == \/ ok /\ On(q, next) /\ Quiet
                    \/ ~ok /\ Fail(q)

First(j) ==
  CASE j.kind = "create" -> "create"
    [] j.kind \in {"accept", "confirmReset"} -> "readToken"
    [] j.kind = "requestReset" -> "readUser"
    [] j.kind \in {"suspend", "hardSuspend", "reinstate"} -> "get"
    [] j.kind = "pair" -> "signIn"
    [] j.kind = "unpair" -> "readTerminal"
    [] j.kind = "remoteUnpair" -> "load"
    [] j.kind \in PosKinds -> "guard"

(* A terminal is one device and waits for each answer before it asks again.   *)
Begin(q, j) ==
  /\ At(q, "idle")
  /\ j.kind \in PosKinds => \A p \in Reqs : job[p] # NoJob /\ job[p].kind \in PosKinds => About(p) # j.about
  /\ pc' = [pc EXCEPT ![q] = First(j)] /\ job' = [job EXCEPT ![q] = j]
  /\ winners' = [winners EXCEPT ![q] = 0]
  /\ UNCHANGED <<got, tries, gate, offered>> /\ Quiet

(* A lost connection, a database error or a crash ends a request anywhere.    *)
Abort(q) == ~At(q, "idle") /\ Fail(q)

(* 24 hours since suspended_at go by; a token reaches its expiry.             *)
DayPasses(o) ==
  /\ grace[o] = "running" /\ grace' = [grace EXCEPT ![o] = "over"]
  /\ UNCHANGED <<status, password, demos, tokens, termVars, reqVars, offered>>
TokenExpires(k) ==
  /\ tokens[k] # NoToken /\ ~tokens[k].expired
  /\ tokens' = [tokens EXCEPT ![k].expired = TRUE]
  /\ UNCHANGED <<ownerVars, termVars, reqVars, offered>>

----------------------------------------------------------------------------
(* Provisioning.  Owner and user are one transaction, the invite a statement   *)
(* of its own after it.                                                      *)
Create(q) ==
  /\ At(q, "create")
  /\ \/ /\ status[About(q)] = "none"
        /\ status' = [status EXCEPT ![About(q)] = "active"]
        /\ On(q, "invite") /\ UNCHANGED <<grace, password, demos, tokens, termVars>>
     \/ status[About(q)] # "none" /\ Fail(q)

Mint(q, kind) ==
  LET unborn == {k \in Tokens : tokens[k] = NoToken}
  IN /\ unborn # {}
     /\ tokens' = [tokens EXCEPT ![CHOOSE k \in unborn : TRUE] = Fresh(kind, About(q))]
     /\ Done(q) /\ UNCHANGED <<winners, ownerVars, termVars>>
Invite(q) == At(q, "invite") /\ Mint(q, "invite")
ReadUser(q) ==
  /\ At(q, "readUser")
  /\ \/ status[About(q)] # "none" /\ Mint(q, "reset")
     \/ status[About(q)] = "none" /\ Fail(q)

(* consumeToken, and what rides its transaction: the password, and for an      *)
(* invite the activation of the owner and the demo business.                 *)
Valid(q, k) ==
  /\ tokens[k].kind = IF job[q].kind = "accept" THEN "invite" ELSE "reset"
  /\ ~tokens[k].used /\ ~tokens[k].expired
ReadToken(q) == At(q, "readToken") /\ Ask(q, Valid(q, About(q)), "consume")

UnusedUnchecked(k) == TRUE \* mutant: the row is marked used whatever it was
Unused(k) == ~tokens[k].used
(* A branch, catalogue and stock levels under one more demo business; running   *)
(* it twice makes two.                                                        *)
seedDemoBusiness(o) == demos' = [demos EXCEPT ![o] = @ + 1]
AcceptInvite(o) ==
  /\ password' = password \cup {o}
  /\ status' = [status EXCEPT ![o] = "active"] /\ grace' = [grace EXCEPT ![o] = "null"]
  /\ seedDemoBusiness(o)
ConfirmReset(o) == password' = password \cup {o} /\ UNCHANGED <<status, grace, demos>>
Consume(q) ==
  LET k == About(q)
  IN /\ At(q, "consume")
     /\ \/ /\ Unused(k)
           /\ tokens' = [tokens EXCEPT ![k].used = TRUE]
           /\ \/ job[q].kind = "accept" /\ AcceptInvite(tokens[k].owner)
              \/ job[q].kind = "confirmReset" /\ ConfirmReset(tokens[k].owner)
           /\ Done(q) /\ UNCHANGED <<winners, termVars>>
        \/ ~Unused(k) /\ Fail(q)

(* OwnersService.suspend and reinstate.                                       *)
Get(q) == At(q, "get") /\ Ask(q, status[About(q)] # "none", "set")
SetStatus(q) ==
  /\ At(q, "set")
  /\ status' = [status EXCEPT ![About(q)] =
       CASE job[q].kind = "suspend" -> "suspended"
         [] job[q].kind = "hardSuspend" -> "hard_suspended"
         [] job[q].kind = "reinstate" -> "active"]
  /\ grace' = [grace EXCEPT ![About(q)] = IF job[q].kind = "reinstate" THEN "null" ELSE "running"]
  /\ Done(q) /\ UNCHANGED <<winners, password, demos, tokens, termVars>>

----------------------------------------------------------------------------
(* Pairing.  signIn hands out a token that pair accepts later; the code is      *)
(* "T" and one more than the terminals the branch ever had.                  *)
OfBranch(b) == {t \in Terminals : terms[t].branch = b}

Credentials(o) == o \in password
SignIn(q) ==
  /\ At(q, "signIn")
  /\ Ask(q, Credentials(job[q].as) /\ status[job[q].as] = "active", "owned")
Owned(q) == At(q, "owned") /\ Ask(q, OwnerOf[About(q)] = job[q].as, "active")
Active(q) == At(q, "active") /\ Ask(q, status[job[q].as] = "active", "count")

CountPaired(q) == Cardinality({t \in OfBranch(About(q)) : terms[t].paired}) \* mutant: the paired ones
CountEver(q) == Cardinality(OfBranch(About(q)))
Count(q) ==
  /\ At(q, "count") /\ Go(q, "store")
  /\ got' = [got EXCEPT ![q] = CountEver(q)] /\ UNCHANGED <<tries, winners>> /\ Quiet

(* A new row takes a uuid no row has; which one makes no difference.            *)
Unborn == {t \in Terminals : terms[t] = NoTerminal}
TakenNever(q) == FALSE \* mutant: the branch and code are not unique
Taken(q) == \E t \in OfBranch(About(q)) : terms[t].n = got[q] + 1
MaxRetries == 3
Others(q) == {p \in Reqs \ {q} : job[p] # NoJob /\ job[p].kind = "pair" /\ About(p) = About(q)}

Store(q) ==
  /\ At(q, "store") /\ ~Taken(q)
  /\ Unborn # {}
  /\ terms' = [terms EXCEPT ![CHOOSE t \in Unborn : TRUE] =
                  [branch |-> About(q), n |-> got[q] + 1, paired |-> TRUE]]
  /\ winners' = [p \in Reqs |-> IF p \in Others(q) THEN winners[p] + 1 ELSE winners[p]]
  /\ Done(q) /\ UNCHANGED <<ownerVars, tokens, open>>

(* P2002 on [branchId, code]: count again, or give up after three retries.     *)
Retry(q) ==
  /\ At(q, "store") /\ Taken(q)
  /\ \/ /\ tries[q] < MaxRetries
        /\ tries' = [tries EXCEPT ![q] = @ + 1]
        /\ Go(q, "count") /\ UNCHANGED <<got, winners>> /\ Quiet
     \/ tries[q] = MaxRetries /\ Fail(q)

(* Unpairing: from the device with the owner's credentials, whatever the        *)
(* owner's status; or from the portal, for an active owner.                  *)
ReadTerminal(q) == At(q, "readTerminal") /\ Ask(q, terms[About(q)].paired, "reauth")
Reauth(q) ==
  /\ At(q, "reauth")
  /\ Ask(q, Credentials(job[q].as) /\ OwnerOf[terms[About(q)].branch] = job[q].as, "unset")
PortalOpen(o) == o \in password /\ status[o] = "active"
Load(q) ==
  /\ At(q, "load")
  /\ Ask(q, /\ PortalOpen(job[q].as)
            /\ terms[About(q)] # NoTerminal /\ OwnerOf[terms[About(q)].branch] = job[q].as,
         "unset")
Unset(q) ==
  /\ At(q, "unset") /\ terms' = [terms EXCEPT ![About(q)].paired = FALSE]
  /\ Done(q) /\ UNCHANGED <<winners, ownerVars, tokens, open>>

----------------------------------------------------------------------------
(* TerminalGuard: the device token is known and the owner active, or suspended  *)
(* less than a day ago with a shift of this terminal open.                   *)
OwnerStatus(t) == status[OwnerOf[terms[t].branch]]
Enter(q, p, s) ==
  /\ pc' = [pc EXCEPT ![q] = p] /\ gate' = [gate EXCEPT ![q] = s]
  /\ UNCHANGED <<job, got, tries, winners, offered>> /\ Quiet
InGrace(t) == OwnerStatus(t) = "suspended" /\ grace[OwnerOf[terms[t].branch]] = "running"

Guard(q) ==
  LET t == About(q)
  IN /\ At(q, "guard")
     /\ \/ terms[t].paired /\ OwnerStatus(t) = "active" /\ Enter(q, "check", "active")
        \/ terms[t].paired /\ InGrace(t) /\ Enter(q, "openShift", "suspended")
        \/ ~(terms[t].paired /\ (OwnerStatus(t) = "active" \/ InGrace(t))) /\ Fail(q)
OpenShiftAny(q) == At(q, "openShift") /\ Ask(q, TRUE, "check") \* mutant: no look at the shift
OpenShift(q) == At(q, "openShift") /\ Ask(q, About(q) \in open, "check")

(* ShiftsService.open and close, cut down to the shift itself.                 *)
Check(q) == At(q, "check") /\ Ask(q, (About(q) \in open) <=> (job[q].kind = "close"), "act")
Act(q) ==
  /\ At(q, "act")
  /\ open' = IF job[q].kind = "open" THEN open \cup {About(q)} ELSE open \ {About(q)}
  /\ Done(q) /\ UNCHANGED <<winners, ownerVars, tokens, terms>>

Step(q) ==
  \/ \E j \in offered : Begin(q, j)
  \/ Abort(q) \/ Create(q) \/ Invite(q) \/ ReadUser(q) \/ ReadToken(q) \/ Consume(q)
  \/ Get(q) \/ SetStatus(q) \/ SignIn(q) \/ Owned(q) \/ Active(q) \/ Count(q) \/ Store(q) \/ Retry(q)
  \/ ReadTerminal(q) \/ Reauth(q) \/ Load(q) \/ Unset(q)
  \/ Guard(q) \/ OpenShift(q) \/ Check(q) \/ Act(q)

Next ==
  \/ \E q \in Reqs : Step(q)
  \/ \E o \in Owners : DayPasses(o)
  \/ \E k \in Tokens : TokenExpires(k)
Spec == Init /\ [][Next]_vars

----------------------------------------------------------------------------
(* Properties                                                               *)

OwnerTypes ==
  /\ status \in [Owners -> Statuses] /\ grace \in [Owners -> {"null", "running", "over"}]
  /\ password \subseteq Owners /\ demos \in [Owners -> Nat]
TokenTypes ==
  tokens \in [Tokens -> [kind : {"none", "invite", "reset"}, owner : As, used : BOOLEAN, expired : BOOLEAN]]
TerminalTypes ==
  /\ terms \in [Terminals -> [branch : Branches \cup {Nobody}, n : Nat, paired : BOOLEAN]]
  /\ open \subseteq Terminals
RequestTypes ==
  /\ offered \in Offers /\ job \in [Reqs -> offered \cup {NoJob}] /\ pc \in [Reqs -> Places]
  /\ got \in [Reqs -> Nat] /\ tries \in [Reqs -> 0..MaxRetries] /\ winners \in [Reqs -> Nat]
  /\ gate \in [Reqs -> {"none", "active", "suspended"}]

(* suspended_at is set exactly while the owner is suspended.                   *)
GraceWhileSuspended ==
  \A o \in Owners : grace[o] # "null" <=> status[o] \in {"suspended", "hard_suspended"}

(* Types, and suspended_at is set exactly while the owner is suspended         *)
(* (OwnersService.suspend, reinstate; InviteService.acceptInvite).           *)
TypeOK == OwnerTypes /\ TokenTypes /\ TerminalTypes /\ RequestTypes /\ GraceWhileSuspended

(* The terminals a branch ever had carry the codes T1, T2, ... with no gap and  *)
(* none twice, unpaired ones included: no code is used again                 *)
(* (PairingService.pair).                                                    *)
CodesInOrder ==
  \A b \in Branches : {terms[t].n : t \in OfBranch(b)} = 1..Cardinality(OfBranch(b))

(* A pairing meets a taken code only when another pairing of the branch went   *)
(* through since it counted: to give up it has to lose four times.           *)
LosesOnlyToOthers ==
  \A q \in Reqs : At(q, "store") /\ Taken(q) => tries[q] < winners[q]

(* Each accepted invite activates its owner whole: with a password and exactly  *)
(* one demo business, and an owner has at most one (acceptInvite,            *)
(* consumeToken).                                                            *)
Accepted(o) == {k \in Tokens : tokens[k].kind = "invite" /\ tokens[k].owner = o /\ tokens[k].used}
ActivatedOnce ==
  \A o \in Owners : /\ demos[o] = Cardinality(Accepted(o)) /\ demos[o] <= 1
                    /\ demos[o] = 1 => o \in password

(* A terminal let in on the grace of a suspended owner finishes its open shift; *)
(* it opens no other (TerminalGuard, ShiftsService.open).                    *)
NoShiftFromGrace ==
  [][\A t \in Terminals : t \in open' \ open =>
       \E q \in Reqs : At(q, "act") /\ About(q) = t /\ gate[q] = "active"]_vars

----------------------------------------------------------------------------
(* The inductive invariant of PosAccountsProofs                             *)

OnRoute == \A q \in Reqs :
  \/ job[q] = NoJob /\ At(q, "idle")
  \/ job[q] # NoJob /\
     \/ job[q].kind = "create" /\ pc[q] \in {"create", "invite"}
     \/ job[q].kind \in TokenKinds /\ pc[q] \in {"readToken", "consume"}
     \/ job[q].kind = "requestReset" /\ At(q, "readUser")
     \/ job[q].kind \in {"suspend", "hardSuspend", "reinstate"} /\ pc[q] \in {"get", "set"}
     \/ job[q].kind = "pair" /\ pc[q] \in {"signIn", "owned", "active", "count", "store"}
     \/ job[q].kind = "unpair" /\ pc[q] \in {"readTerminal", "reauth", "unset"}
     \/ job[q].kind = "remoteUnpair" /\ pc[q] \in {"load", "unset"}
     \/ job[q].kind \in PosKinds /\ pc[q] \in {"guard", "openShift", "check", "act"}

(* A token belongs to an owner who exists; an owner has one invite at most,     *)
(* none while its creation is still to make one.                             *)
Invites(o) == {k \in Tokens : tokens[k].kind = "invite" /\ tokens[k].owner = o}
TokensOwned == \A k \in Tokens :
  tokens[k].kind # "none" => tokens[k].owner \in Owners /\ status[tokens[k].owner] # "none"
NoneUnused == \A k \in Tokens : tokens[k].kind = "none" => ~tokens[k].used
OneInvite == \A k, l \in Tokens :
  /\ tokens[k].kind = "invite" /\ tokens[l].kind = "invite" /\ tokens[k].owner = tokens[l].owner
  => k = l
InvitePending == \A q \in Reqs : At(q, "invite") =>
  /\ status[About(q)] # "none" /\ Invites(About(q)) = {}
  /\ \A p \in Reqs : At(p, "invite") /\ About(p) = About(q) => p = q
ConsumesItsKind == \A q \in Reqs :
  At(q, "consume") => tokens[About(q)].kind = IF job[q].kind = "accept" THEN "invite" ELSE "reset"

(* What a pairing counted is at most what there is, and the codes that came    *)
(* since are the pairings it has not lost to yet.                            *)
CountsBehind == \A q \in Reqs :
  /\ At(q, "store") => /\ got[q] <= CountEver(q)
                       /\ tries[q] + CountEver(q) <= winners[q] + got[q]
  /\ At(q, "count") => tries[q] <= winners[q]
  /\ pc[q] \notin {"count", "store"} => tries[q] = 0

OneAtATime == \A p, q \in Reqs :
  job[p] # NoJob /\ job[q] # NoJob /\ job[p].kind \in PosKinds /\ job[q].kind \in PosKinds
    /\ About(p) = About(q) => p = q
GraceHasShift == \A q \in Reqs :
  /\ pc[q] \in {"openShift", "check", "act"} => gate[q] \in {"active", "suspended"}
  /\ pc[q] \in {"check", "act"} /\ gate[q] = "suspended" => About(q) \in open
  /\ At(q, "act") /\ gate[q] = "suspended" => job[q].kind = "close"

IndInv ==
  /\ TypeOK /\ OnRoute /\ TokensOwned /\ NoneUnused /\ OneInvite /\ InvitePending /\ ConsumesItsKind
  /\ CodesInOrder /\ CountsBehind /\ ActivatedOnce /\ OneAtATime /\ GraceHasShift
=============================================================================
