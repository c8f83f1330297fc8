--------------------------- MODULE PosAccountsProofs ---------------------------
(***************************************************************************)
(* Machine-checked proofs about PosAccounts, for any number of owners,     *)
(* branches, terminals, tokens and concurrent requests.                    *)
(***************************************************************************)
EXTENDS PosAccounts, FiniteSetTheorems, TLAPS

(* What a request's call names.                                              *)
LEMMA Named ==
  ASSUME RequestTypes, NEW q \in Reqs, job[q] # NoJob
  PROVE  /\ job[q] \in Job /\ job[q] \in offered
         /\ job[q].kind \in OwnerKinds => About(q) \in Owners
         /\ job[q].kind \in TokenKinds => About(q) \in Tokens
         /\ job[q].kind = "pair" => About(q) \in Branches
         /\ job[q].kind \in {"unpair", "remoteUnpair"} \cup PosKinds => About(q) \in Terminals
  <1>1. job[q] \in offered /\ offered \in Offers
    BY DEF RequestTypes
  <1>2. job[q] \in Job
    BY <1>1, AccountsAssumption DEF Calls
  <1> QED
    BY <1>1, <1>2 DEF Job, About, OwnerKinds, TokenKinds, PosKinds

(* A job offered is a job, and none of them is NoJob.                        *)
LEMMA Offered ==
  ASSUME RequestTypes, NEW j \in offered
  PROVE  j \in Job /\ j # NoJob
  BY AccountsAssumption DEF RequestTypes, Calls

(* The steps that leave every table alone.                                   *)
LEMMA QuietSteps ==
  ASSUME NEW q \in Reqs,
         \/ \E j \in offered : Begin(q, j)
         \/ Abort(q) \/ ReadToken(q) \/ Get(q) \/ SignIn(q) \/ Owned(q) \/ Active(q) \/ Count(q) \/ Retry(q)
         \/ ReadTerminal(q) \/ Reauth(q) \/ Load(q) \/ Guard(q) \/ OpenShift(q) \/ Check(q)
  PROVE  Quiet
  BY DEF Begin, Abort, ReadToken, Get, SignIn, Owned, Active, Count, Retry, ReadTerminal, Reauth, Load,
     Guard, Enter, OpenShift, Check, Ask, Fail

(* Which steps touch the owners, the tokens and the terminals.               *)
LEMMA Touched ==
  ASSUME Next
  PROVE  /\ \/ UNCHANGED ownerVars
            \/ \E q \in Reqs : Create(q) \/ Consume(q) \/ SetStatus(q)
            \/ \E o \in Owners : DayPasses(o)
         /\ \/ UNCHANGED tokens
            \/ \E q \in Reqs : Invite(q) \/ ReadUser(q) \/ Consume(q)
            \/ \E k \in Tokens : TokenExpires(k)
         /\ UNCHANGED terms \/ \E q \in Reqs : Store(q) \/ Unset(q)
         /\ UNCHANGED open \/ \E q \in Reqs : Act(q)
  <1>1. CASE \E q \in Reqs : Create(q) \/ Consume(q) \/ SetStatus(q)
    BY <1>1 DEF Create, Consume, SetStatus, Fail, Quiet, termVars, On, Done
  <1>2. CASE \E q \in Reqs : Invite(q) \/ ReadUser(q)
    BY <1>2 DEF Invite, ReadUser, Mint, Fail, Quiet, termVars
  <1>3. CASE \E q \in Reqs : Store(q) \/ Unset(q) \/ Act(q)
    BY <1>3 DEF Store, Unset, Act
  <1>4. CASE (\E o \in Owners : DayPasses(o)) \/ \E k \in Tokens : TokenExpires(k)
    BY <1>4 DEF DayPasses, TokenExpires, termVars
  <1>5. CASE Quiet
    BY <1>5 DEF Quiet, termVars
  <1> QED
    BY <1>1, <1>2, <1>3, <1>4, <1>5, QuietSteps DEF Next, Step

----------------------------------------------------------------------------
(* Owners                                                                   *)

LEMMA OwnersInv ==
  ASSUME IndInv, Next PROVE OwnerTypes' /\ GraceWhileSuspended'
  <1> USE DEF IndInv, TypeOK
  <1>1. CASE UNCHANGED ownerVars
    BY <1>1 DEF ownerVars, OwnerTypes, GraceWhileSuspended
  <1>2. CASE \E q \in Reqs : Create(q)
    <2>1. PICK q \in Reqs : Create(q)
      BY <1>2
    <2>2. CASE status[About(q)] # "none"
      BY <2>1, <2>2, <1>1 DEF Create, Fail, Quiet
    <2>3. CASE status[About(q)] = "none"
      BY <2>1, <2>3 DEF Create, OwnerTypes, GraceWhileSuspended, Statuses
    <2> QED
      BY <2>2, <2>3
  <1>3. CASE \E q \in Reqs : Consume(q)
    <2>1. PICK q \in Reqs : Consume(q)
      BY <1>3
    <2>2. About(q) \in Tokens /\ tokens[About(q)].owner \in Owners
      BY <2>1, Named DEF Consume, At, OnRoute, ConsumesItsKind, TokensOwned
    <2>3. CASE ~Unused(About(q))
      BY <2>1, <2>3, <1>1 DEF Consume, Fail, Quiet
    <2>4. CASE AcceptInvite(tokens[About(q)].owner)
      BY <2>2, <2>4 DEF AcceptInvite, seedDemoBusiness, OwnerTypes, GraceWhileSuspended, Statuses
    <2>5. CASE ConfirmReset(tokens[About(q)].owner)
      BY <2>2, <2>5 DEF ConfirmReset, OwnerTypes, GraceWhileSuspended
    <2> QED
      BY <2>1, <2>3, <2>4, <2>5 DEF Consume
  <1>4. CASE \E q \in Reqs : SetStatus(q)
    <2>1. PICK q \in Reqs : SetStatus(q)
      BY <1>4
    <2>2. job[q].kind \in {"suspend", "hardSuspend", "reinstate"}
      BY <2>1 DEF SetStatus, At, OnRoute
    <2> QED
      BY <2>1, <2>2 DEF SetStatus, OwnerTypes, GraceWhileSuspended, Statuses
  <1>5. CASE \E o \in Owners : DayPasses(o)
    BY <1>5 DEF DayPasses, OwnerTypes, GraceWhileSuspended
  <1> QED
    BY <1>1, <1>2, <1>3, <1>4, <1>5, Touched

----------------------------------------------------------------------------
(* Tokens                                                                   *)

(* An owner once created stays, with a password once one is set.             *)
LEMMA OwnersStay ==
  ASSUME IndInv, Next, NEW o \in Owners
  PROVE  /\ status[o] # "none" => status'[o] # "none"
         /\ password \subseteq password'
  <1> USE DEF IndInv, TypeOK
  <1>1. CASE UNCHANGED ownerVars
    BY <1>1 DEF ownerVars
  <1>2. CASE \E q \in Reqs : Create(q)
    BY <1>2 DEF Create, Fail, Quiet, ownerVars, OwnerTypes
  <1>3. CASE \E q \in Reqs : Consume(q)
    BY <1>3 DEF Consume, AcceptInvite, seedDemoBusiness, ConfirmReset, Fail, Quiet, ownerVars, OwnerTypes
  <1>4. CASE \E q \in Reqs : SetStatus(q)
    <2>1. PICK q \in Reqs : SetStatus(q)
      BY <1>4
    <2>2. job[q].kind \in {"suspend", "hardSuspend", "reinstate"}
      BY <2>1 DEF SetStatus, At, OnRoute
    <2> QED
      BY <2>1, <2>2 DEF SetStatus, OwnerTypes
  <1>5. CASE \E p \in Owners : DayPasses(p)
    BY <1>5 DEF DayPasses
  <1> QED
    BY <1>1, <1>2, <1>3, <1>4, <1>5, Touched

(* A minted token takes the place of no other.                               *)
LEMMA Minted ==
  ASSUME TokenTypes, NEW q, NEW kind, Mint(q, kind)
  PROVE  \E k \in Tokens : /\ tokens[k] = NoToken /\ tokens' = [tokens EXCEPT ![k] = Fresh(kind, About(q))]
                           /\ tokens'[k] = Fresh(kind, About(q))
                           /\ \A l \in Tokens : l # k => tokens'[l] = tokens[l]
  BY DEF Mint, TokenTypes

(* Where a token changes, it is minted, consumed or expires.                 *)
LEMMA TokenChanges ==
  ASSUME IndInv, Next, NEW k \in Tokens, tokens'[k] # tokens[k]
  PROVE  \/ \E q \in Reqs : /\ Invite(q) /\ tokens[k] = NoToken
                            /\ tokens'[k] = Fresh("invite", About(q))
                            /\ \A l \in Tokens : l # k => tokens'[l] = tokens[l]
         \/ \E q \in Reqs : /\ ReadUser(q) /\ tokens[k] = NoToken /\ status[About(q)] # "none"
                            /\ tokens'[k] = Fresh("reset", About(q))
                            /\ \A l \in Tokens : l # k => tokens'[l] = tokens[l]
         \/ \E q \in Reqs : /\ Consume(q) /\ About(q) = k /\ ~tokens[k].used
                            /\ tokens'[k] = [tokens[k] EXCEPT !.used = TRUE]
         \/ tokens'[k] = [tokens[k] EXCEPT !.expired = TRUE]
  <1> USE DEF IndInv, TypeOK
  <1>1. CASE \E q \in Reqs : Invite(q)
    BY <1>1, Minted DEF Invite
  <1>2. CASE \E q \in Reqs : ReadUser(q)
    BY <1>2, Minted DEF ReadUser, Fail, Quiet
  <1>3. CASE \E q \in Reqs : Consume(q)
    BY <1>3 DEF Consume, Fail, Quiet, Unused, TokenTypes
  <1>4. CASE \E l \in Tokens : TokenExpires(l)
    BY <1>4 DEF TokenExpires, TokenTypes
  <1> QED
    BY <1>1, <1>2, <1>3, <1>4, Touched

(* A token keeps its kind and its owner.                                     *)
LEMMA TokenKept ==
  ASSUME IndInv, Next, NEW k \in Tokens, tokens[k].kind # "none"
  PROVE  tokens'[k].kind = tokens[k].kind /\ tokens'[k].owner = tokens[k].owner
  <1>1. tokens[k] # NoToken
    BY DEF NoToken
  <1>2. tokens[k] \in [kind : {"none", "invite", "reset"}, owner : As, used : BOOLEAN, expired : BOOLEAN]
    BY DEF IndInv, TypeOK, TokenTypes
  <1> QED
    BY <1>1, <1>2, TokenChanges

LEMMA TokenTypesKept ==
  ASSUME IndInv, Next PROVE TokenTypes'
  <1> USE DEF IndInv, TypeOK
  <1> DEFINE Row == [kind : {"none", "invite", "reset"}, owner : As, used : BOOLEAN, expired : BOOLEAN]
  <1>1. CASE UNCHANGED tokens
    BY <1>1 DEF TokenTypes
  <1>2. ASSUME NEW q \in Reqs, NEW kind \in {"invite", "reset"}, Mint(q, kind), About(q) \in Owners
        PROVE  TokenTypes'
    <2>1. Fresh(kind, About(q)) \in Row
      BY <1>2 DEF Fresh, As
    <2>2. PICK k \in Tokens : tokens' = [tokens EXCEPT ![k] = Fresh(kind, About(q))]
      BY <1>2, Minted
    <2> QED
      BY <2>1, <2>2 DEF TokenTypes
  <1>3. CASE \E q \in Reqs : Invite(q) \/ ReadUser(q)
    <2>1. PICK q \in Reqs : Invite(q) \/ ReadUser(q)
      BY <1>3
    <2>2. About(q) \in Owners
      BY <2>1, Named DEF Invite, ReadUser, At, OnRoute, OwnerKinds
    <2> QED
      BY <2>1, <2>2, <1>1, <1>2 DEF Invite, ReadUser, Fail, Quiet
  <1>4. CASE \E q \in Reqs : Consume(q)
    BY <1>4, <1>1 DEF Consume, Fail, Quiet, TokenTypes
  <1>5. CASE \E k \in Tokens : TokenExpires(k)
    BY <1>5 DEF TokenExpires, TokenTypes
  <1> QED
    BY <1>1, <1>3, <1>4, <1>5, Touched

LEMMA TokensOwnedKept ==
  ASSUME IndInv, Next PROVE TokensOwned'
  <1> USE DEF IndInv, TypeOK
  <1> SUFFICES ASSUME NEW k \in Tokens, tokens'[k].kind # "none"
               PROVE  tokens'[k].owner \in Owners /\ status'[tokens'[k].owner] # "none"
    BY DEF TokensOwned
  <1>1. CASE tokens[k].kind # "none"
    BY <1>1, TokenKept, OwnersStay DEF TokensOwned
  <1>2. CASE tokens[k].kind = "none"
    <2>a. tokens[k] \in [kind : {"none", "invite", "reset"}, owner : As, used : BOOLEAN, expired : BOOLEAN]
      BY DEF TokenTypes
    <2>b. /\ [tokens[k] EXCEPT !.used = TRUE].kind = "none"
          /\ [tokens[k] EXCEPT !.expired = TRUE].kind = "none"
      BY <2>a, <1>2
    <2>c. \A kind, o : Fresh(kind, o).owner = o
      BY DEF Fresh
    <2>1. PICK q \in Reqs : /\ Invite(q) \/ (ReadUser(q) /\ status[About(q)] # "none")
                           /\ tokens'[k].owner = About(q)
      <3>1. tokens'[k] # tokens[k]
        BY <1>2
      <3>2. \/ \E q \in Reqs : Invite(q) /\ tokens'[k] = Fresh("invite", About(q))
            \/ \E q \in Reqs : /\ ReadUser(q) /\ status[About(q)] # "none"
                               /\ tokens'[k] = Fresh("reset", About(q))
        BY <3>1, <2>b, TokenChanges
      <3> QED
        BY <3>2, <2>c
    <2>2. About(q) \in Owners
      BY <2>1, Named DEF Invite, ReadUser, At, OnRoute, OwnerKinds
    <2>3. status[About(q)] # "none"
      BY <2>1 DEF Invite, InvitePending
    <2> QED
      BY <2>1, <2>2, <2>3, OwnersStay
  <1> QED
    BY <1>1, <1>2

(* A new invite is the first of its owner.                                   *)
LEMMA NewInvite ==
  ASSUME IndInv, Next, NEW k \in Tokens, NEW l \in Tokens,
         tokens[k].kind # "invite", tokens'[k].kind = "invite",
         tokens'[l].kind = "invite", tokens'[l].owner = tokens'[k].owner
  PROVE  k = l
  <1> SUFFICES ASSUME k # l PROVE FALSE
    OBVIOUS
  <1> USE DEF IndInv, TypeOK
  <1>1. tokens[k].kind = "none"
    BY TokenKept
  <1>2. PICK q \in Reqs : /\ Invite(q) /\ tokens'[k] = Fresh("invite", About(q))
                         /\ tokens'[l] = tokens[l]
    <2>1. tokens[k] \in [kind : {"none", "invite", "reset"}, owner : As, used : BOOLEAN, expired : BOOLEAN]
      BY DEF TokenTypes
    <2>2. /\ [tokens[k] EXCEPT !.used = TRUE].kind = "none"
          /\ [tokens[k] EXCEPT !.expired = TRUE].kind = "none"
      BY <2>1, <1>1
    <2>3. \A q : Fresh("reset", About(q)).kind = "reset"
      BY DEF Fresh
    <2> QED
      BY <2>2, <2>3, TokenChanges
  <1>3. l \in Invites(About(q))
    BY <1>2 DEF Invites, Fresh
  <1> QED
    BY <1>2, <1>3 DEF Invite, InvitePending

LEMMA OneInviteKept ==
  ASSUME IndInv, Next PROVE OneInvite'
  <1> SUFFICES ASSUME NEW k \in Tokens, NEW l \in Tokens,
                      tokens'[k].kind = "invite", tokens'[l].kind = "invite",
                      tokens'[k].owner = tokens'[l].owner
               PROVE  k = l
    BY DEF OneInvite
  <1>1. CASE tokens[k].kind = "invite" /\ tokens[l].kind = "invite"
    BY <1>1, TokenKept DEF IndInv, OneInvite
  <1> QED
    BY <1>1, NewInvite

(* The demo businesses of an owner are the accepted invites, one at most.    *)
LEMMA ActivatedOnceKept ==
  ASSUME IndInv, Next PROVE ActivatedOnce'
  <1> USE DEF IndInv, TypeOK
  <1> SUFFICES ASSUME NEW o \in Owners
               PROVE  /\ demos'[o] = Cardinality(Accepted(o)') /\ demos'[o] <= 1
                      /\ demos'[o] = 1 => o \in password'
    BY DEF ActivatedOnce
  <1>1. ASSUME demos'[o] = demos[o],
               \A k \in Tokens : tokens'[k].used = tokens[k].used \/ tokens[k].kind = "reset",
               \A k \in Tokens : tokens[k].kind = "none" => ~tokens'[k].used
        PROVE  /\ demos'[o] = Cardinality(Accepted(o)') /\ demos'[o] <= 1
               /\ demos'[o] = 1 => o \in password'
    <2>1. ASSUME NEW k \in Tokens
          PROVE  k \in Accepted(o)' <=> k \in Accepted(o)
      <3>1. CASE tokens[k].kind = "none"
        BY <1>1, <3>1 DEF Accepted
      <3>2. CASE tokens[k].kind # "none"
        BY <1>1, <3>2, TokenKept DEF Accepted
      <3> QED
        BY <3>1, <3>2
    <2>2. Accepted(o)' = Accepted(o)
      BY <2>1 DEF Accepted
    <2> QED
      BY <1>1, <2>2, OwnersStay DEF ActivatedOnce
  <1>2. CASE \E q \in Reqs : Consume(q) /\ job[q].kind = "accept" /\ Unused(About(q))
    <2>1. PICK q \in Reqs : Consume(q) /\ job[q].kind = "accept" /\ Unused(About(q))
      BY <1>2
    <2> DEFINE k == About(q)
               oo == tokens[k].owner
    <2>2. k \in Tokens /\ tokens[k].kind = "invite" /\ ~tokens[k].used /\ oo \in Owners
      BY <2>1, Named DEF Consume, At, OnRoute, ConsumesItsKind, TokensOwned, Unused
    <2>3. tokens' = [tokens EXCEPT ![k].used = TRUE] /\ AcceptInvite(oo)
      BY <2>1 DEF Consume
    <2>4. CASE o = oo
      <3>1. Accepted(oo) = {}
        BY <2>2 DEF OneInvite, Accepted
      <3>2. demos'[oo] = 1 /\ oo \in password'
        <4>1. demos[oo] = 0
          BY <2>2, <3>1, FS_EmptySet DEF ActivatedOnce
        <4> QED
          BY <2>2, <2>3, <4>1 DEF AcceptInvite, seedDemoBusiness, OwnerTypes
      <3>3. tokens'[k].kind = "invite" /\ tokens'[k].owner = oo /\ tokens'[k].used
        BY <2>2, <2>3 DEF TokenTypes
      <3>4. Accepted(o)' = {k}
        <4>1. \A l \in Tokens : tokens'[l].kind = "invite" /\ tokens'[l].owner = oo => l = k
          BY <2>2, <3>3, OneInviteKept DEF OneInvite
        <4> QED
          BY <2>2, <2>4, <3>3, <4>1 DEF Accepted
      <3>5. Cardinality({k}) = 1
        BY FS_Singleton
      <3>6. Cardinality(Accepted(o)') = 1
        BY <3>4, <3>5
      <3>7. demos'[o] = 1 /\ o \in password'
        BY <2>4, <3>2
      <3> HIDE DEF k, oo
      <3> QED
        BY <3>6, <3>7
    <2>5. CASE o # oo
      <3>1. ASSUME NEW l \in Tokens
            PROVE  l \in Accepted(o)' <=> l \in Accepted(o)
        BY <2>2, <2>3, <2>5 DEF Accepted, TokenTypes
      <3>2. Accepted(o)' = Accepted(o)
        BY <3>1 DEF Accepted
      <3> QED
        BY <2>2, <2>3, <2>5, <3>2 DEF AcceptInvite, seedDemoBusiness, ActivatedOnce, OwnerTypes
    <2> QED
      BY <2>4, <2>5
  <1>3. CASE \E q \in Reqs : Consume(q) /\ ~(job[q].kind = "accept" /\ Unused(About(q)))
    <2>1. PICK q \in Reqs : Consume(q) /\ ~(job[q].kind = "accept" /\ Unused(About(q)))
      BY <1>3
    <2>2. CASE Unused(About(q)) /\ job[q].kind = "confirmReset"
      <3>1. About(q) \in Tokens /\ tokens[About(q)].kind = "reset"
        BY <2>1, <2>2, Named DEF Consume, At, OnRoute, ConsumesItsKind
      <3>2. tokens' = [tokens EXCEPT ![About(q)].used = TRUE] /\ demos' = demos
        BY <2>1, <2>2 DEF Consume, ConfirmReset
      <3>3. tokens[About(q)].kind # "none"
        BY <3>1
      <3>4. \A l \in Tokens : l # About(q) => tokens'[l] = tokens[l]
        BY <3>2 DEF TokenTypes
      <3> HIDE DEF IndInv
      <3>5. \A l \in Tokens : tokens[l].kind = "none" => ~tokens[l].used
        BY DEF IndInv, NoneUnused
      <3> QED
        BY <3>1, <3>2, <3>4, <3>5, <1>1
    <2>3. CASE ~(Unused(About(q)) /\ job[q].kind = "confirmReset")
      <3>1. UNCHANGED <<tokens, demos>>
        BY <2>1, <2>3 DEF Consume, Fail, Quiet, ownerVars
      <3> QED
        BY <3>1, <1>1 DEF NoneUnused
    <2> QED
      BY <2>2, <2>3
  <1>4. CASE ~\E q \in Reqs : Consume(q)
    <2>1. demos' = demos
      BY <1>4, Touched DEF Create, SetStatus, DayPasses, Fail, Quiet, ownerVars
    <2>2. ASSUME NEW k \in Tokens
          PROVE  /\ tokens'[k].used = tokens[k].used
                 /\ tokens[k].kind = "none" => ~tokens'[k].used
      <3>1. tokens[k] \in [kind : {"none", "invite", "reset"}, owner : As, used : BOOLEAN, expired : BOOLEAN]
        BY DEF TokenTypes
      <3>2. [tokens[k] EXCEPT !.expired = TRUE].used = tokens[k].used
        BY <3>1
      <3>3. \A kind, p : ~Fresh(kind, p).used
        BY DEF Fresh
      <3>4. tokens[k] = NoToken => ~tokens[k].used
        BY DEF NoToken
      <3>5. \/ tokens'[k] = tokens[k]
            \/ tokens[k] = NoToken /\ \E kind, p : tokens'[k] = Fresh(kind, p)
            \/ tokens'[k] = [tokens[k] EXCEPT !.expired = TRUE]
        BY <1>4, TokenChanges
      <3>6. CASE tokens'[k] = tokens[k]
        BY <3>6 DEF NoneUnused
      <3>7. CASE tokens[k] = NoToken /\ \E kind, p : tokens'[k] = Fresh(kind, p)
        BY <3>7, <3>3, <3>4, <3>1 DEF NoToken, Fresh
      <3>8. CASE tokens'[k] = [tokens[k] EXCEPT !.expired = TRUE]
        BY <3>8, <3>2 DEF NoneUnused
      <3> QED
        BY <3>5, <3>6, <3>7, <3>8
    <2> QED
      BY <2>1, <2>2, <1>1
  <1> QED
    BY <1>2, <1>3, <1>4

LEMMA NoneUnusedKept ==
  ASSUME IndInv, Next PROVE NoneUnused'
  <1> USE DEF IndInv, TypeOK
  <1> SUFFICES ASSUME NEW k \in Tokens, tokens'[k].kind = "none" PROVE ~tokens'[k].used
    BY DEF NoneUnused
  <1>1. tokens[k].kind = "none" /\ ~tokens[k].used
    BY TokenKept DEF NoneUnused
  <1>2. tokens[k] \in [kind : {"none", "invite", "reset"}, owner : As, used : BOOLEAN, expired : BOOLEAN]
    BY DEF TokenTypes
  <1>3. ASSUME NEW q \in Reqs, Consume(q), About(q) = k PROVE FALSE
    BY <1>3, <1>1 DEF Consume, ConsumesItsKind
  <1>4. ~[tokens[k] EXCEPT !.expired = TRUE].used
    BY <1>1, <1>2
  <1>5. \A kind, o : ~Fresh(kind, o).used
    BY DEF Fresh
  <1>6. CASE tokens'[k] = tokens[k]
    BY <1>1, <1>6
  <1>7. CASE tokens'[k] # tokens[k]
    <2>1. \/ \E kind, o : tokens'[k] = Fresh(kind, o)
          \/ tokens'[k] = [tokens[k] EXCEPT !.expired = TRUE]
      BY <1>3, <1>7, TokenChanges
    <2> QED
      BY <2>1, <1>4, <1>5
  <1> QED
    BY <1>6, <1>7


----------------------------------------------------------------------------
(* Requests                                                                 *)

(* A step ends its request, begins it, or moves it along its route.          *)
LEMMA Moves ==
  ASSUME RequestTypes, NEW q \in Reqs, Step(q)
  PROVE  \/ \E j \in offered : Begin(q, j)
         \/ Done(q)
         \/ /\ job'[q] = job[q]
            /\ \/ At(q, "create") /\ pc'[q] = "invite"
               \/ At(q, "readToken") /\ pc'[q] = "consume"
               \/ At(q, "get") /\ pc'[q] = "set"
               \/ At(q, "signIn") /\ pc'[q] = "owned"
               \/ At(q, "owned") /\ pc'[q] = "active"
               \/ At(q, "active") /\ pc'[q] = "count"
               \/ At(q, "count") /\ pc'[q] = "store"
               \/ At(q, "store") /\ pc'[q] = "count"
               \/ At(q, "readTerminal") /\ pc'[q] = "reauth"
               \/ At(q, "reauth") /\ pc'[q] = "unset"
               \/ At(q, "load") /\ pc'[q] = "unset"
               \/ At(q, "guard") /\ pc'[q] \in {"check", "openShift"}
               \/ At(q, "openShift") /\ pc'[q] = "check"
               \/ At(q, "check") /\ pc'[q] = "act"
  <1> USE DEF RequestTypes
  <1>1. CASE Abort(q) \/ Invite(q) \/ ReadUser(q) \/ Consume(q) \/ SetStatus(q) \/ Store(q) \/ Unset(q) \/ Act(q)
    BY <1>1 DEF Abort, Invite, ReadUser, Mint, Consume, SetStatus, Store, Unset, Act, Fail
  <1>2. CASE Create(q) \/ ReadToken(q) \/ Get(q) \/ SignIn(q) \/ Owned(q) \/ Active(q)
    BY <1>2 DEF Create, ReadToken, Get, SignIn, Owned, Active, Ask, On, Go, Fail
  <1>3. CASE Count(q) \/ Retry(q)
    BY <1>3 DEF Count, Retry, Go, Fail
  <1>4. CASE ReadTerminal(q) \/ Reauth(q) \/ Load(q)
    BY <1>4 DEF ReadTerminal, Reauth, Load, Ask, On, Go, Fail
  <1>5. CASE Guard(q) \/ OpenShift(q) \/ Check(q)
    BY <1>5 DEF Guard, OpenShift, Check, Enter, Ask, On, Go, Fail
  <1> QED
    BY <1>1, <1>2, <1>3, <1>4, <1>5 DEF Step

(* Nobody else's request moves.                                              *)
LEMMA OthersStay ==
  ASSUME RequestTypes, NEW q \in Reqs, Step(q), NEW p \in Reqs, p # q
  PROVE  /\ pc'[p] = pc[p] /\ job'[p] = job[p] /\ got'[p] = got[p]
         /\ tries'[p] = tries[p] /\ gate'[p] = gate[p]
  <1> USE DEF RequestTypes
  <1>1. CASE Done(q)
    BY <1>1 DEF Done
  <1>2. CASE \E j \in offered : Begin(q, j)
    BY <1>2 DEF Begin
  <1>3. CASE Create(q) \/ ReadToken(q) \/ Get(q) \/ SignIn(q) \/ Owned(q) \/ Active(q)
    BY <1>3 DEF Create, ReadToken, Get, SignIn, Owned, Active, Ask, On, Go, Fail, Done
  <1>4. CASE Count(q) \/ Retry(q)
    BY <1>4 DEF Count, Retry, Go, Fail, Done
  <1>5. CASE ReadTerminal(q) \/ Reauth(q) \/ Load(q)
    BY <1>5 DEF ReadTerminal, Reauth, Load, Ask, On, Go, Fail, Done
  <1>6. CASE Guard(q) \/ OpenShift(q) \/ Check(q)
    BY <1>6 DEF Guard, OpenShift, Check, Enter, Ask, On, Go, Fail, Done
  <1>7. CASE Abort(q) \/ Invite(q) \/ ReadUser(q) \/ Consume(q) \/ SetStatus(q) \/ Store(q) \/ Unset(q) \/ Act(q)
    BY <1>7, <1>1 DEF Abort, Invite, ReadUser, Mint, Consume, SetStatus, Store, Unset, Act, Fail
  <1> QED
    BY <1>2, <1>3, <1>4, <1>5, <1>6, <1>7 DEF Step


LEMMA RequestTypesKept ==
  ASSUME IndInv, Next PROVE RequestTypes'
  <1> USE DEF IndInv, TypeOK
  <1>1. CASE UNCHANGED <<reqVars, offered>>
    BY <1>1 DEF RequestTypes, reqVars
  <1>2. ASSUME NEW q \in Reqs, Step(q) PROVE RequestTypes'
    <2> USE DEF RequestTypes, Places, MaxRetries
    <2>1. CASE \E j \in offered : Begin(q, j)
      <3>1. PICK j \in offered : Begin(q, j)
        BY <2>1
      <3>2. First(j) \in Places
        BY Offered DEF First, Job, OwnerKinds, TokenKinds, PosKinds
      <3>3. /\ pc' \in [Reqs -> Places] /\ job' \in [Reqs -> offered \cup {NoJob}]
            /\ winners' \in [Reqs -> Nat]
        BY <3>1, <3>2 DEF Begin
      <3>4. UNCHANGED <<got, tries, gate, offered>>
        BY <3>1 DEF Begin
      <3>5. /\ offered \in Offers /\ got \in [Reqs -> Nat] /\ tries \in [Reqs -> 0..3]
            /\ gate \in [Reqs -> {"none", "active", "suspended"}]
        OBVIOUS
      <3>6. /\ offered' \in Offers /\ job' \in [Reqs -> offered' \cup {NoJob}]
            /\ got' \in [Reqs -> Nat] /\ tries' \in [Reqs -> 0..3]
            /\ gate' \in [Reqs -> {"none", "active", "suspended"}]
        BY <3>3, <3>4, <3>5
      <3> QED
        BY <3>3, <3>6
    <2>2. ASSUME Done(q), UNCHANGED winners PROVE RequestTypes'
      BY <2>2 DEF Done
    <2>3. CASE Store(q)
      BY <2>3 DEF Store, Done
    <2>4. CASE Create(q) \/ ReadToken(q) \/ Get(q) \/ SignIn(q) \/ Owned(q) \/ Active(q)
      BY <2>2, <2>4 DEF Create, ReadToken, Get, SignIn, Owned, Active, Ask, On, Go, Fail
    <2>5. CASE Count(q)
      <3>1. CountEver(q) \in Nat
        BY AccountsAssumption, FS_Subset, FS_CardinalityType DEF CountEver, OfBranch
      <3> QED
        BY <2>5, <3>1 DEF Count, Go
    <2>6. CASE Retry(q)
      BY <2>6 DEF Retry, Go, Fail, Done
    <2>7. CASE ReadTerminal(q) \/ Reauth(q) \/ Load(q) \/ OpenShift(q) \/ Check(q)
      BY <2>2, <2>7 DEF ReadTerminal, Reauth, Load, OpenShift, Check, Ask, On, Go, Fail
    <2>8. CASE Guard(q)
      BY <2>2, <2>8 DEF Guard, Enter, Fail
    <2>9. CASE Abort(q) \/ Invite(q) \/ ReadUser(q) \/ Consume(q) \/ SetStatus(q) \/ Unset(q) \/ Act(q)
      BY <2>2, <2>9 DEF Abort, Invite, ReadUser, Mint, Consume, SetStatus, Unset, Act, Fail
    <2> QED
      BY <1>2, <2>1, <2>3, <2>4, <2>5, <2>6, <2>7, <2>8, <2>9 DEF Step
  <1> QED
    BY <1>1, <1>2 DEF Next, DayPasses, TokenExpires

LEMMA OnRouteKept ==
  ASSUME IndInv, Next PROVE OnRoute'
  <1> USE DEF IndInv, TypeOK
  <1>1. CASE UNCHANGED <<reqVars, offered>>
    BY <1>1 DEF OnRoute, reqVars, At
  <1>2. ASSUME NEW q \in Reqs, Step(q) PROVE OnRoute'
    <2> DEFINE Right(p) ==
          \/ job[p] = NoJob /\ At(p, "idle")
          \/ job[p] # NoJob /\
             \/ job[p].kind = "create" /\ pc[p] \in {"create", "invite"}
             \/ job[p].kind \in TokenKinds /\ pc[p] \in {"readToken", "consume"}
             \/ job[p].kind = "requestReset" /\ At(p, "readUser")
             \/ job[p].kind \in {"suspend", "hardSuspend", "reinstate"} /\ pc[p] \in {"get", "set"}
             \/ job[p].kind = "pair" /\ pc[p] \in {"signIn", "owned", "active", "count", "store"}
             \/ job[p].kind = "unpair" /\ pc[p] \in {"readTerminal", "reauth", "unset"}
             \/ job[p].kind = "remoteUnpair" /\ pc[p] \in {"load", "unset"}
             \/ job[p].kind \in PosKinds /\ pc[p] \in {"guard", "openShift", "check", "act"}
    <2>1. Right(q)
      BY DEF OnRoute
    <2>2. CASE \E j \in offered : Begin(q, j)
      <3>1. PICK j \in offered : Begin(q, j)
        BY <2>2
      <3>2. j \in Job /\ j # NoJob /\ job'[q] = j /\ pc'[q] = First(j)
        BY <3>1, Offered DEF Begin, RequestTypes
      <3>3. Right(q)'
        BY <3>2 DEF First, Job, OwnerKinds, TokenKinds, PosKinds, At
      <3> QED
        BY <1>2, <3>3, OthersStay DEF OnRoute, At
    <2>3. CASE Done(q)
      BY <1>2, <2>3, OthersStay DEF OnRoute, At, Done, RequestTypes
    <2>4. CASE ~Done(q) /\ ~\E j \in offered : Begin(q, j)
      <3>1. Right(q)'
        BY <1>2, <2>1, <2>4, Moves DEF At, TokenKinds, PosKinds
      <3> QED
        BY <1>2, <3>1, OthersStay DEF OnRoute, At
    <2> QED
      BY <2>2, <2>3, <2>4
  <1> QED
    BY <1>1, <1>2 DEF Next, DayPasses, TokenExpires

(* A request that waits to invite has just created its owner.                *)
LEMMA InvitePendingKept ==
  ASSUME IndInv, Next PROVE InvitePending'
  <1> USE DEF IndInv, TypeOK
  <1>1. ASSUME NEW q \in Reqs, pc'[q] = "invite"
        PROVE  /\ job'[q] = job[q] /\ About(q) \in Owners
               /\ \/ pc[q] = "invite"
                  \/ Create(q) /\ status[About(q)] = "none" /\ status'[About(q)] # "none"
    <2>1. CASE UNCHANGED reqVars
      BY <1>1, <2>1, Named DEF reqVars, OnRoute, OwnerKinds, At
    <2>2. ASSUME NEW p \in Reqs, Step(p), p # q
          PROVE  job'[q] = job[q] /\ pc[q] = "invite" /\ About(q) \in Owners
      BY <1>1, <2>2, OthersStay, Named DEF OnRoute, OwnerKinds, At
    <2>3. CASE Step(q)
      <3>1. ~Done(q)
        BY <1>1 DEF Done, RequestTypes
      <3>2. \A j \in offered : ~Begin(q, j)
        BY <1>1, Offered DEF Begin, First, Job, OwnerKinds, TokenKinds, PosKinds, RequestTypes
      <3>3. job'[q] = job[q] /\ At(q, "create")
        BY <1>1, <2>3, <3>1, <3>2, Moves
      <3>4. Create(q)
        BY <2>3, <3>1, <3>2, <3>3 DEF Step, At, Abort, Fail, Invite, ReadUser, ReadToken, Consume, Get,
          SetStatus, SignIn, Owned, Active, Count, Store, Retry, ReadTerminal, Reauth, Load, Unset,
          Guard, OpenShift, Check, Act
      <3>5. About(q) \in Owners
        BY <3>3, Named DEF OnRoute, OwnerKinds, At
      <3>6. status[About(q)] = "none" /\ status' = [status EXCEPT ![About(q)] = "active"]
        BY <3>1, <3>4 DEF Create, Fail
      <3> QED
        BY <3>3, <3>4, <3>5, <3>6 DEF OwnerTypes
    <2> QED
      BY <2>1, <2>2, <2>3 DEF Next, DayPasses, TokenExpires
  <1>2. ASSUME NEW q \in Reqs, pc'[q] = "invite", NEW o \in Owners, About(q) = o
        PROVE  /\ status'[o] # "none" /\ Invites(o)' = {}
               /\ \A p \in Reqs : pc'[p] = "invite" /\ About(p) = o => p = q
    <2>1. status'[o] # "none"
      BY <1>1, <1>2, OwnersStay DEF InvitePending, At
    <2>2. ASSUME NEW l \in Tokens, tokens'[l].kind = "invite", tokens'[l].owner = o PROVE FALSE
      <3>1. CASE tokens[l].kind # "none"
        <4>1. l \in Invites(o) /\ status[o] # "none"
          BY <2>2, <3>1, TokenKept DEF Invites, TokensOwned
        <4> QED
          BY <1>1, <1>2, <4>1 DEF InvitePending, At
      <3>2. CASE tokens[l].kind = "none"
        <4>1. tokens[l] \in [kind : {"none", "invite", "reset"}, owner : As, used : BOOLEAN, expired : BOOLEAN]
          BY DEF TokenTypes
        <4>2. /\ [tokens[l] EXCEPT !.used = TRUE].kind = "none"
              /\ [tokens[l] EXCEPT !.expired = TRUE].kind = "none"
          BY <4>1, <3>2
        <4>3. \A kind, b : Fresh(kind, b).kind = kind /\ Fresh(kind, b).owner = b
          BY DEF Fresh
        <4>4. tokens'[l] # tokens[l]
          BY <2>2, <3>2
        <4>5. \/ \E p \in Reqs : Invite(p) /\ tokens'[l] = Fresh("invite", About(p))
              \/ \E p \in Reqs : tokens'[l] = Fresh("reset", About(p))
          BY <2>2, <4>2, <4>4, TokenChanges
        <4>6. PICK p \in Reqs : Invite(p) /\ About(p) = o
          BY <2>2, <4>3, <4>5
        <4>7. CASE pc[q] = "invite"
          <5>1. p = q
            BY <1>2, <4>6, <4>7 DEF InvitePending, Invite, At
          <5> QED
            BY <1>2, <4>6, <5>1 DEF Invite, Mint, Done, RequestTypes
        <4>8. CASE Create(q)
          BY <4>4, <4>8 DEF Create, Fail, Quiet
        <4> QED
          BY <1>1, <1>2, <4>7, <4>8
      <3> QED
        BY <3>1, <3>2
    <2>3. ASSUME NEW p \in Reqs, pc'[p] = "invite", About(p) = o, p # q PROVE FALSE
      <3>1. CASE pc[q] = "invite"
        BY <1>1, <1>2, <2>3, <3>1 DEF InvitePending, At
      <3>2. CASE Create(q) /\ status[o] = "none"
        <4>1. pc'[p] = pc[p]
          BY <2>3, <3>2, OthersStay DEF Step
        <4> QED
          BY <2>3, <3>2, <4>1 DEF InvitePending, At
      <3> QED
        BY <1>1, <1>2, <3>1, <3>2
    <2> QED
      BY <2>1, <2>2, <2>3 DEF Invites
  <1>3. ASSUME NEW q \in Reqs, pc'[q] = "invite"
        PROVE  /\ status'[About(q)'] # "none" /\ Invites(About(q))' = {}
               /\ \A p \in Reqs : pc'[p] = "invite" /\ About(p)' = About(q)' => p = q
    <2>1. About(q)' = About(q)
      BY <1>1, <1>3 DEF About
    <2>2. PICK o \in Owners : o = About(q)
      BY <1>1, <1>3
    <2>3. \A p \in Reqs : pc'[p] = "invite" => About(p)' = About(p)
      BY <1>1 DEF About
    <2>4. Invites(o)' = Invites(About(q))'
      BY <2>1, <2>2 DEF Invites
    <2> QED
      BY <1>2, <1>3, <2>1, <2>2, <2>3, <2>4
  <1> QED
    BY <1>3 DEF InvitePending, At


LEMMA ConsumesItsKindKept ==
  ASSUME IndInv, Next PROVE ConsumesItsKind'
  <1> USE DEF IndInv, TypeOK
  <1> SUFFICES ASSUME NEW q \in Reqs, pc'[q] = "consume"
               PROVE  tokens'[About(q)'].kind = IF job'[q].kind = "accept" THEN "invite" ELSE "reset"
    BY DEF ConsumesItsKind, At
  <1>1. ASSUME job'[q] = job[q], pc[q] = "consume"
        PROVE  tokens'[About(q)'].kind = IF job'[q].kind = "accept" THEN "invite" ELSE "reset"
    <2>1. About(q) \in Tokens /\ About(q)' = About(q)
      BY <1>1, Named DEF OnRoute, At, About
    <2>2. tokens[About(q)].kind = IF job[q].kind = "accept" THEN "invite" ELSE "reset"
      BY <1>1 DEF ConsumesItsKind, At
    <2>3. tokens[About(q)].kind # "none"
      BY <2>2
    <2> QED
      BY <1>1, <2>1, <2>2, <2>3, TokenKept
  <1>2. CASE UNCHANGED reqVars
    BY <1>1, <1>2 DEF reqVars
  <1>3. ASSUME NEW p \in Reqs, Step(p), p # q
        PROVE  job'[q] = job[q] /\ pc[q] = "consume"
    BY <1>3, OthersStay
  <1>4. CASE Step(q)
    <2>1. ~Done(q)
      BY DEF Done, RequestTypes
    <2>2. \A j \in offered : ~Begin(q, j)
      BY Offered DEF Begin, First, Job, OwnerKinds, TokenKinds, PosKinds, RequestTypes
    <2>3. job'[q] = job[q] /\ At(q, "readToken")
      BY <1>4, <2>1, <2>2, Moves
    <2>4. ReadToken(q)
      BY <1>4, <2>1, <2>2, <2>3 DEF Step, At, Abort, Fail, Invite, ReadUser, Create, Consume, Get,
        SetStatus, SignIn, Owned, Active, Count, Store, Retry, ReadTerminal, Reauth, Load, Unset,
        Guard, OpenShift, Check, Act
    <2>5. Valid(q, About(q)) /\ tokens' = tokens
      BY <2>1, <2>4 DEF ReadToken, Ask, Fail, Quiet
    <2>6. About(q)' = About(q)
      BY <2>3 DEF About
    <2> QED
      BY <2>3, <2>5, <2>6 DEF Valid
  <1> QED
    BY <1>1, <1>2, <1>3, <1>4 DEF Next, DayPasses, TokenExpires

----------------------------------------------------------------------------
(* Pairing                                                                  *)

(* A pairing stored adds one terminal to its branch, with the code it         *)
(* computed, and leaves the other branches alone.                            *)
LEMMA Stored ==
  ASSUME IndInv, NEW q \in Reqs, Store(q)
  PROVE  /\ About(q) \in Branches /\ got[q] = CountEver(q)
         /\ \E t \in Terminals :
              /\ t \notin OfBranch(About(q))
              /\ terms' = [terms EXCEPT ![t] = [branch |-> About(q), n |-> got[q] + 1, paired |-> TRUE]]
              /\ \A b \in Branches : /\ b = About(q) => OfBranch(b)' = OfBranch(b) \cup {t}
                                     /\ b # About(q) => OfBranch(b)' = OfBranch(b) /\ t \notin OfBranch(b)
  <1> USE DEF IndInv, TypeOK
  <1>1. About(q) \in Branches
    BY Named DEF Store, At, OnRoute
  <1>2. got[q] = CountEver(q)
    <2> DEFINE N == Cardinality(OfBranch(About(q)))
    <2>1. got[q] \in Nat /\ got[q] <= N
      BY DEF Store, CountsBehind, CountEver, RequestTypes
    <2>2. N \in Nat
      BY AccountsAssumption, FS_Subset, FS_CardinalityType DEF OfBranch
    <2>3. got[q] + 1 \notin 1..N
      BY <1>1 DEF Store, Taken, CodesInOrder
    <2> QED
      BY <2>1, <2>2, <2>3 DEF CountEver
  <1>3. PICK t \in Terminals :
          /\ terms[t] = NoTerminal
          /\ terms' = [terms EXCEPT ![t] = [branch |-> About(q), n |-> got[q] + 1, paired |-> TRUE]]
    BY DEF Store, Unborn
  <1>4. \A b \in Branches : t \notin OfBranch(b)
    BY <1>3, AccountsAssumption DEF OfBranch, NoTerminal
  <1>5. ASSUME NEW b \in Branches
        PROVE  /\ b = About(q) => OfBranch(b)' = OfBranch(b) \cup {t}
               /\ b # About(q) => OfBranch(b)' = OfBranch(b)
    BY <1>3, <1>4 DEF OfBranch, TerminalTypes
  <1> QED
    BY <1>1, <1>2, <1>3, <1>4, <1>5

(* Only a pairing that is stored changes what terminals a branch ever had.   *)
LEMMA BranchesKept ==
  ASSUME IndInv, Next, ~\E q \in Reqs : Store(q), NEW b \in Branches
  PROVE  /\ OfBranch(b)' = OfBranch(b)
         /\ \A t \in Terminals : terms'[t].n = terms[t].n /\ terms'[t].branch = terms[t].branch
  BY Touched DEF Unset, OfBranch, IndInv, TypeOK, TerminalTypes

LEMMA TerminalTypesKept ==
  ASSUME IndInv, Next PROVE TerminalTypes'
  <1> USE DEF IndInv, TypeOK
  <1>1. terms' \in [Terminals -> [branch : Branches \cup {Nobody}, n : Nat, paired : BOOLEAN]]
    <2>1. CASE \E q \in Reqs : Store(q)
      <3>1. PICK q \in Reqs : Store(q)
        BY <2>1
      <3>2. PICK t \in Terminals :
              terms' = [terms EXCEPT ![t] = [branch |-> About(q), n |-> got[q] + 1, paired |-> TRUE]]
        BY <3>1, Stored
      <3>3. About(q) \in Branches /\ got[q] + 1 \in Nat
        BY <3>1, Stored DEF RequestTypes
      <3> QED
        BY <3>2, <3>3 DEF TerminalTypes
    <2>2. CASE \E q \in Reqs : Unset(q)
      BY <2>2 DEF Unset, TerminalTypes
    <2>3. CASE UNCHANGED terms
      BY <2>3 DEF TerminalTypes
    <2> QED
      BY <2>1, <2>2, <2>3, Touched
  <1>2. open' \subseteq Terminals
    <2>1. CASE \E q \in Reqs : Act(q)
      <3>1. PICK q \in Reqs : Act(q)
        BY <2>1
      <3>2. About(q) \in Terminals
        BY <3>1, Named DEF Act, At, OnRoute
      <3> QED
        BY <3>1, <3>2 DEF Act, TerminalTypes
    <2>2. CASE UNCHANGED open
      BY <2>2 DEF TerminalTypes
    <2> QED
      BY <2>1, <2>2, Touched
  <1> QED
    BY <1>1, <1>2 DEF TerminalTypes

LEMMA CodesInOrderKept ==
  ASSUME IndInv, Next PROVE CodesInOrder'
  <1> SUFFICES ASSUME NEW b \in Branches
               PROVE  {terms'[t].n : t \in OfBranch(b)'} = 1..Cardinality(OfBranch(b)')
    BY DEF CodesInOrder
  <1>1. /\ {terms[t].n : t \in OfBranch(b)} = 1..Cardinality(OfBranch(b))
        /\ IsFiniteSet(OfBranch(b)) /\ Cardinality(OfBranch(b)) \in Nat
        /\ OfBranch(b) \subseteq Terminals
    BY AccountsAssumption, FS_Subset, FS_CardinalityType DEF IndInv, CodesInOrder, OfBranch
  <1>2. CASE ~\E q \in Reqs : Store(q)
    BY <1>1, <1>2, BranchesKept
  <1>3. CASE \E q \in Reqs : Store(q)
    <2>1. PICK q \in Reqs : Store(q)
      BY <1>3
    <2>2. PICK t \in Terminals :
            /\ t \notin OfBranch(About(q))
            /\ terms' = [terms EXCEPT ![t] = [branch |-> About(q), n |-> got[q] + 1, paired |-> TRUE]]
            /\ \A c \in Branches : /\ c = About(q) => OfBranch(c)' = OfBranch(c) \cup {t}
                                   /\ c # About(q) => OfBranch(c)' = OfBranch(c) /\ t \notin OfBranch(c)
      BY <2>1, Stored
    <2>3. t \notin OfBranch(b) /\ \A u \in OfBranch(b) : terms'[u].n = terms[u].n
      BY <1>1, <2>2 DEF IndInv, TypeOK, TerminalTypes
    <2>4. CASE b # About(q)
      BY <1>1, <2>2, <2>3, <2>4
    <2>5. CASE b = About(q)
      <3> DEFINE N == Cardinality(OfBranch(b))
      <3>1. got[q] = N
        BY <2>1, <2>5, Stored DEF CountEver
      <3>2. OfBranch(b)' = OfBranch(b) \cup {t} /\ Cardinality(OfBranch(b)') = N + 1
        BY <1>1, <2>2, <2>3, <2>5, FS_AddElement
      <3>3. terms'[t].n = N + 1
        BY <2>2, <3>1 DEF IndInv, TypeOK, TerminalTypes
      <3>4. {terms'[u].n : u \in OfBranch(b)'} = {terms[u].n : u \in OfBranch(b)} \cup {N + 1}
        BY <2>3, <3>2, <3>3
      <3>5. (1..N) \cup {N + 1} = 1..(N + 1)
        BY <1>1
      <3> QED
        BY <1>1, <3>2, <3>4, <3>5
    <2> QED
      BY <2>4, <2>5
  <1> QED
    BY <1>2, <1>3


(* The pairings a request has lost to are those stored since it began.       *)
LEMMA WinnersMove ==
  ASSUME IndInv, Next, NEW p \in Reqs, ~\E j \in offered : Begin(p, j)
  PROVE  /\ (~\E q \in Reqs : Store(q)) => winners'[p] = winners[p]
         /\ winners'[p] >= winners[p]
  <1> USE DEF IndInv, TypeOK
  <1>1. CASE \E q \in Reqs : Store(q)
    <2>1. winners'[p] = winners[p] \/ winners'[p] = winners[p] + 1
      BY <1>1 DEF Store
    <2>2. winners[p] \in Nat
      BY DEF RequestTypes
    <2> QED
      BY <1>1, <2>1, <2>2
  <1>2. CASE UNCHANGED reqVars
    BY <1>2 DEF reqVars, RequestTypes
  <1>3. ASSUME NEW q \in Reqs, Step(q), ~Store(q) PROVE winners'[p] = winners[p]
    <2>1. CASE \E j \in offered : Begin(q, j)
      BY <2>1 DEF Begin, RequestTypes
    <2>2. CASE ~\E j \in offered : Begin(q, j)
      BY <1>3, <2>2 DEF Step, Abort, Create, Invite, ReadUser, Mint, ReadToken, Consume, Get,
        SetStatus, SignIn, Owned, Active, Count, Retry, ReadTerminal, Reauth, Load, Unset, Guard,
        Enter, OpenShift, Check, Act, Ask, On, Fail
    <2> QED
      BY <2>1, <2>2
  <1> QED
    BY <1>1, <1>2, <1>3 DEF Next, DayPasses, TokenExpires, RequestTypes

LEMMA CountsBehindKept ==
  ASSUME IndInv, Next PROVE CountsBehind'
  <1> USE DEF IndInv, TypeOK
  <1> DEFINE Behind(p) ==
        /\ pc[p] = "store" => /\ got[p] <= CountEver(p)
                              /\ tries[p] + CountEver(p) <= winners[p] + got[p]
        /\ pc[p] = "count" => tries[p] <= winners[p]
        /\ pc[p] \notin {"count", "store"} => tries[p] = 0
  <1>0. \A p \in Reqs : Behind(p)
    BY DEF CountsBehind, At
  <1>1. ASSUME NEW p \in Reqs, pc'[p] = pc[p], job'[p] = job[p], got'[p] = got[p], tries'[p] = tries[p],
               ~\E j \in offered : Begin(p, j)
        PROVE  Behind(p)'
    <2>1. About(p)' = About(p)
      BY <1>1 DEF About
    <2>2. winners'[p] >= winners[p] /\ winners'[p] \in Nat /\ winners[p] \in Nat /\ tries[p] \in Nat
            /\ got[p] \in Nat
      BY <1>1, WinnersMove, RequestTypesKept DEF RequestTypes, MaxRetries
    <2>3. CASE pc[p] # "store"
      <3>1. Behind(p)
        BY <1>0
      <3> HIDE DEF IndInv, TypeOK
      <3>2. pc'[p] = "count" => tries'[p] <= winners'[p]
        BY <1>1, <2>2, <3>1
      <3>3. pc'[p] \notin {"count", "store"} => tries'[p] = 0
        BY <1>1, <3>1
      <3> QED
        BY <1>1, <2>3, <3>2, <3>3
    <2>4. CASE pc[p] = "store"
      <3>1. PICK b \in Branches : b = About(p)
        BY <2>4, Named DEF OnRoute, At
      <3>2. CountEver(p) = Cardinality(OfBranch(b)) /\ CountEver(p)' = Cardinality(OfBranch(b)')
        BY <2>1, <3>1 DEF CountEver, OfBranch
      <3>3. IsFiniteSet(OfBranch(b)) /\ Cardinality(OfBranch(b)) \in Nat
        BY AccountsAssumption, FS_Subset, FS_CardinalityType DEF OfBranch
      <3>4. CASE OfBranch(b)' = OfBranch(b)
        BY <1>0, <1>1, <2>2, <2>4, <3>2, <3>3, <3>4
      <3>5. ASSUME NEW q \in Reqs, Store(q), b = About(q) PROVE Behind(p)'
        <4>1. PICK t : t \notin OfBranch(b) /\ OfBranch(b)' = OfBranch(b) \cup {t}
          BY <3>5, Stored
        <4>2. Cardinality(OfBranch(b)') = Cardinality(OfBranch(b)) + 1
          BY <3>3, <4>1, FS_AddElement
        <4>3. p # q
          BY <1>1, <2>4, <3>5 DEF Store, Done, RequestTypes
        <4>4. p \in Others(q)
          BY <2>4, <3>1, <3>5, <4>3, Named DEF Others, OnRoute, At
        <4>5. winners'[p] = winners[p] + 1
          BY <3>5, <4>4 DEF Store
        <4> QED
          BY <1>0, <1>1, <2>2, <2>4, <3>2, <3>3, <4>2, <4>5
      <3> QED
        BY <3>4, <3>5, Stored, BranchesKept
    <2> QED
      BY <2>3, <2>4
  <1>2. CASE UNCHANGED reqVars
    <2> SUFFICES ASSUME NEW p \in Reqs PROVE Behind(p)'
      BY DEF CountsBehind, At
    <2>1. ~\E j \in offered : Begin(p, j)
      BY <1>2, Offered DEF Begin, First, Job, OwnerKinds, TokenKinds, PosKinds, reqVars, RequestTypes, At
    <2> QED
      BY <1>1, <1>2, <2>1 DEF reqVars
  <1>3. ASSUME NEW q \in Reqs, Step(q) PROVE \A p \in Reqs : Behind(p)'
    <2> SUFFICES ASSUME NEW p \in Reqs PROVE Behind(p)'
      OBVIOUS
    <2>1. CASE p # q
      <3>1. pc'[p] = pc[p] /\ job'[p] = job[p] /\ got'[p] = got[p] /\ tries'[p] = tries[p]
        BY <1>3, <2>1, OthersStay
      <3>2. ~\E j \in offered : Begin(p, j)
        BY <3>1, Offered DEF Begin, First, Job, OwnerKinds, TokenKinds, PosKinds, RequestTypes, At
      <3> QED
        BY <1>1, <3>1, <3>2
    <2>2. CASE p = q /\ \E j \in offered : Begin(p, j)
      <3>1. PICK j \in offered : Begin(p, j)
        BY <2>2
      <3>2. First(j) \notin {"count", "store"}
        BY Offered DEF First, Job, OwnerKinds, TokenKinds, PosKinds
      <3>3. pc'[p] = First(j) /\ tries'[p] = tries[p] /\ pc[p] = "idle"
        BY <3>1 DEF Begin, At, RequestTypes
      <3> QED
        BY <1>0, <3>2, <3>3
    <2>3. CASE p = q /\ Done(q)
      BY <2>3 DEF Done, RequestTypes
    <2>4. CASE p = q /\ ~Done(q) /\ ~\E j \in offered : Begin(p, j)
      <3>1. CASE Count(q)
        <4>1. PICK b \in Branches : b = About(q)
          BY <3>1, Named DEF OnRoute, Count, At
        <4>2. About(q)' = About(q) /\ OfBranch(b)' = OfBranch(b)
          BY <3>1 DEF Count, Go, Quiet, termVars, About, OfBranch
        <4>3. CountEver(q)' = CountEver(q)
          BY <4>1, <4>2 DEF CountEver, OfBranch
        <4>4. CountEver(q) \in Nat
          BY AccountsAssumption, FS_Subset, FS_CardinalityType DEF CountEver, OfBranch
        <4>5. /\ pc[q] = "count" /\ pc'[q] = "store" /\ got'[q] = CountEver(q)
              /\ tries'[q] = tries[q] /\ winners'[q] = winners[q]
              /\ tries[q] \in Nat /\ winners[q] \in Nat
          BY <3>1 DEF Count, Go, At, RequestTypes, MaxRetries
        <4> QED
          BY <1>0, <2>4, <4>3, <4>4, <4>5
      <3>2. CASE Retry(q)
        <4>1. /\ Taken(q) /\ pc[q] = "store" /\ pc'[q] = "count" /\ tries'[q] = tries[q] + 1
              /\ winners'[q] = winners[q]
          <5>1. Taken(q) /\ At(q, "store") /\ Go(q, "count") /\ UNCHANGED winners
                /\ tries' = [tries EXCEPT ![q] = @ + 1]
            BY <2>4, <3>2 DEF Retry, Fail
          <5> QED
            BY <5>1 DEF Go, At, RequestTypes
        <4>2. About(q) \in Branches
          BY <4>1, Named DEF OnRoute, At
        <4>3. CountEver(q) \in Nat
          BY AccountsAssumption, FS_Subset, FS_CardinalityType DEF CountEver, OfBranch
        <4>4. got[q] + 1 \in 1..CountEver(q)
          BY <4>1, <4>2 DEF Taken, CodesInOrder, CountEver
        <4>5. got[q] \in Nat /\ tries[q] \in Nat /\ winners[q] \in Nat
          BY DEF RequestTypes, MaxRetries
        <4> QED
          BY <1>0, <2>4, <4>1, <4>3, <4>4, <4>5
      <3>3. CASE ~Count(q) /\ ~Retry(q)
        <4>1. tries'[q] = tries[q]
          BY <1>3, <2>4, <3>3 DEF Step, Abort, Create, Invite, ReadUser, Mint, ReadToken, Consume, Get,
            SetStatus, SignIn, Owned, Active, Store, ReadTerminal, Reauth, Load, Unset, Guard,
            Enter, OpenShift, Check, Act, Ask, On, Fail
        <4>2. pc[q] \notin {"count", "store"}
          BY <1>3, <2>4, <3>3 DEF Step, Abort, Create, Invite, ReadUser, Mint, ReadToken, Consume, Get,
            SetStatus, SignIn, Owned, Active, Store, ReadTerminal, Reauth, Load, Unset, Guard,
            Enter, OpenShift, Check, Act, Ask, On, Fail, At
        <4>3. pc'[q] # "store"
          BY <1>3, <2>4, <4>2, Moves DEF At
        <4>4. winners'[q] \in Nat
          BY RequestTypesKept DEF RequestTypes
        <4>5. Behind(q)
          BY <1>0
        <4> HIDE DEF IndInv, TypeOK
        <4>6. tries'[q] = 0
          BY <4>1, <4>2, <4>5
        <4>7. Behind(q)'
          BY <4>3, <4>4, <4>6
        <4> QED
          BY <2>4, <4>7
      <3> QED
        BY <3>1, <3>2, <3>3
    <2> QED
      BY <2>1, <2>2, <2>3, <2>4
  <1> QED
    BY <1>2, <1>3 DEF Next, DayPasses, TokenExpires, CountsBehind, At


----------------------------------------------------------------------------
(* The terminal's gate                                                      *)

LEMMA OneAtATimeKept ==
  ASSUME IndInv, Next PROVE OneAtATime'
  <1> USE DEF IndInv, TypeOK
  <1>1. CASE UNCHANGED reqVars
    BY <1>1 DEF OneAtATime, reqVars, About
  <1>2. ASSUME NEW r \in Reqs, Step(r) PROVE OneAtATime'
    <2>1. CASE \E j \in offered : Begin(r, j)
      <3>1. PICK j \in offered : Begin(r, j)
        BY <2>1
      <3>2. job'[r] = j /\ About(r)' = j.about
        BY <3>1 DEF Begin, RequestTypes, About
      <3>3. \A p \in Reqs : p # r => job'[p] = job[p] /\ About(p)' = About(p)
        BY <1>2, OthersStay DEF About
      <3>4. j.kind \in PosKinds =>
              \A p \in Reqs : job[p] # NoJob /\ job[p].kind \in PosKinds => About(p) # j.about
        BY <3>1 DEF Begin
      <3> QED
        BY <3>2, <3>3, <3>4 DEF OneAtATime
    <2>2. CASE job'[r] = job[r]
      <3>1. \A p \in Reqs : job'[p] = job[p] /\ About(p)' = About(p)
        BY <1>2, <2>2, OthersStay DEF About
      <3> QED
        BY <3>1 DEF OneAtATime
    <2>3. CASE Done(r)
      <3>1. job'[r] = NoJob
        BY <2>3 DEF Done, RequestTypes
      <3>2. \A p \in Reqs : p # r => job'[p] = job[p] /\ About(p)' = About(p)
        BY <1>2, OthersStay DEF About
      <3> QED
        BY <3>1, <3>2 DEF OneAtATime
    <2> QED
      BY <1>2, <2>1, <2>2, <2>3, Moves
  <1> QED
    BY <1>1, <1>2 DEF Next, DayPasses, TokenExpires

LEMMA GraceHasShiftKept ==
  ASSUME IndInv, Next PROVE GraceHasShift'
  <1> USE DEF IndInv, TypeOK
  <1> DEFINE Gated(p) ==
        /\ pc[p] \in {"openShift", "check", "act"} => gate[p] \in {"active", "suspended"}
        /\ pc[p] \in {"check", "act"} /\ gate[p] = "suspended" => About(p) \in open
        /\ pc[p] = "act" /\ gate[p] = "suspended" => job[p].kind = "close"
  <1>1. \A p \in Reqs : Gated(p)
    BY DEF GraceHasShift, At
  <1>2. CASE UNCHANGED reqVars
    <2>1. UNCHANGED open
      BY <1>2, Touched DEF Act, Done, At, RequestTypes, reqVars
    <2> QED
      BY <1>1, <1>2, <2>1 DEF GraceHasShift, At, reqVars, About
  <1>3. ASSUME NEW r \in Reqs, Step(r), NEW p \in Reqs PROVE Gated(p)'
    <2>1. CASE p # r
      <3>1. pc'[p] = pc[p] /\ job'[p] = job[p] /\ gate'[p] = gate[p] /\ About(p)' = About(p)
        BY <1>3, <2>1, OthersStay DEF About
      <3>2. ASSUME pc[p] \in {"check", "act"}, About(p) \in open PROVE About(p) \in open'
        <4>1. CASE UNCHANGED open
          BY <3>2, <4>1
        <4>2. ASSUME NEW q \in Reqs, Act(q) PROVE About(p) \in open'
          <5>1. q # p
            BY <3>1, <3>2, <4>2 DEF Act, Done, RequestTypes
          <5>2. About(q) # About(p)
            BY <3>2, <4>2, <5>1 DEF Act, At, OnRoute, OneAtATime
          <5> QED
            BY <3>2, <4>2, <5>2 DEF Act
        <4> QED
          BY <4>1, <4>2, Touched
      <3> QED
        BY <1>1, <3>1, <3>2
    <2>2. CASE p = r /\ Done(p)
      BY <2>2 DEF Done, RequestTypes
    <2>3. CASE p = r /\ \E j \in offered : Begin(p, j)
      <3>1. PICK j \in offered : Begin(p, j)
        BY <2>3
      <3>2. First(j) \notin {"openShift", "check", "act"}
        BY Offered DEF First, Job, OwnerKinds, TokenKinds, PosKinds
      <3> QED
        BY <3>1, <3>2 DEF Begin, RequestTypes
    <2>4. CASE p = r /\ ~Done(p) /\ ~\E j \in offered : Begin(p, j)
      <3>0. job'[p] = job[p] /\ About(p)' = About(p)
        BY <1>3, <2>4, Moves DEF About
      <3>1. CASE Guard(p)
        BY <2>4, <3>0, <3>1 DEF Guard, Enter, Fail, RequestTypes
      <3>2. CASE OpenShift(p)
        BY <1>1, <2>4, <3>0, <3>2 DEF OpenShift, Ask, On, Go, Fail, Quiet, termVars, At, RequestTypes
      <3>3. CASE Check(p)
        BY <1>1, <2>4, <3>0, <3>3 DEF Check, Ask, On, Go, Fail, Quiet, termVars, At, RequestTypes
      <3>4. CASE ~Guard(p) /\ ~OpenShift(p) /\ ~Check(p)
        <4>1. pc[p] \notin {"guard", "openShift", "check"}
          BY <1>3, <2>4, <3>4 DEF Step, Abort, Fail, Create, Invite, ReadUser, Mint, ReadToken, Consume,
            Get, SetStatus, SignIn, Owned, Active, Count, Store, Retry, ReadTerminal, Reauth, Load,
            Unset, Act, At
        <4>2. pc'[p] \notin {"openShift", "check", "act"}
          BY <1>3, <2>4, <4>1, Moves DEF At
        <4> QED
          BY <4>2
      <3> QED
        BY <3>1, <3>2, <3>3, <3>4
    <2> QED
      BY <1>3, <2>1, <2>2, <2>3, <2>4
  <1> QED
    BY <1>2, <1>3 DEF Next, DayPasses, TokenExpires, GraceHasShift, At

----------------------------------------------------------------------------
(* Theorems                                                                 *)

LEMMA InitInv == Init => IndInv
  <1> SUFFICES ASSUME Init PROVE IndInv
    OBVIOUS
  <1> USE DEF Init
  <1>1. OwnerTypes /\ GraceWhileSuspended
    BY AccountsAssumption DEF OwnerTypes, GraceWhileSuspended, Statuses
  <1>2. \A k \in Tokens :
          \/ tokens[k] = NoToken
          \/ \E o \in Provisioned : InviteOf[o] = k /\ tokens[k] = Fresh("invite", o)
    OBVIOUS
  <1>3. TokenTypes
    <2>1. NoToken \in [kind : {"none", "invite", "reset"}, owner : As, used : BOOLEAN, expired : BOOLEAN]
      BY DEF NoToken, As
    <2>2. \A o \in Owners :
            Fresh("invite", o) \in [kind : {"none", "invite", "reset"}, owner : As, used : BOOLEAN, expired : BOOLEAN]
      BY DEF Fresh, As
    <2> HIDE DEF Init
    <2>3. \A k \in Tokens :
            tokens[k] \in [kind : {"none", "invite", "reset"}, owner : As, used : BOOLEAN, expired : BOOLEAN]
      BY <1>2, <2>1, <2>2, AccountsAssumption
    <2>4. tokens = [k \in Tokens |-> tokens[k]]
      BY DEF Init
    <2> QED
      BY <2>3, <2>4 DEF TokenTypes
  <1>4. TerminalTypes
    BY AccountsAssumption DEF TerminalTypes, NoTerminal
  <1>5. RequestTypes
    BY DEF RequestTypes, Places, MaxRetries
  <1>6. OnRoute /\ InvitePending /\ ConsumesItsKind /\ CountsBehind /\ OneAtATime /\ GraceHasShift
    BY DEF OnRoute, InvitePending, ConsumesItsKind, CountsBehind, OneAtATime, GraceHasShift, At
  <1>7. TokensOwned /\ NoneUnused /\ OneInvite
    <2>1. \A o \in Provisioned : status[o] = "active" /\ o \in Owners
      BY AccountsAssumption
    <2>2. \A k \in Tokens : ~tokens[k].used
      BY <1>2 DEF NoToken, Fresh
    <2>3. \A k \in Tokens : tokens[k].kind # "none" =>
            \E o \in Provisioned : InviteOf[o] = k /\ tokens[k].owner = o
      BY <1>2 DEF NoToken, Fresh
    <2> HIDE DEF Init
    <2> QED
      BY <2>1, <2>2, <2>3 DEF TokensOwned, NoneUnused, OneInvite
  <1>8. CodesInOrder
    <2> SUFFICES ASSUME NEW b \in Branches
                 PROVE  {terms[t].n : t \in OfBranch(b)} = 1..Cardinality(OfBranch(b))
      BY DEF CodesInOrder
    <2>1. \A t \in OfBranch(b) : t \in PairedAtStart /\ BranchOfStart[t] = b /\ terms[t].n = 1
      BY AccountsAssumption DEF OfBranch, NoTerminal
    <2>2. CASE OfBranch(b) = {}
      BY <2>2, FS_EmptySet
    <2>3. CASE OfBranch(b) # {}
      <3>1. PICK t : t \in OfBranch(b)
        BY <2>3
      <3>2. OfBranch(b) = {t}
        BY <2>1, <3>1, AccountsAssumption
      <3>3. Cardinality(OfBranch(b)) = 1
        BY <3>2, FS_Singleton
      <3>4. {terms[u].n : u \in OfBranch(b)} = {1}
        BY <2>1, <3>2
      <3>5. 1..1 = {1}
        OBVIOUS
      <3> QED
        BY <3>3, <3>4, <3>5
    <2> QED
      BY <2>2, <2>3
  <1>9. ActivatedOnce
    <2>1. \A o \in Owners : Accepted(o) = {} /\ demos[o] = 0
      BY <1>2 DEF Accepted, NoToken, Fresh
    <2>2. Cardinality({}) = 0
      BY FS_EmptySet
    <2> HIDE DEF Init
    <2> QED
      BY <2>1, <2>2 DEF ActivatedOnce
  <1> QED
    BY <1>1, <1>3, <1>4, <1>5, <1>6, <1>7, <1>8, <1>9 DEF IndInv, TypeOK

LEMMA NextInv == IndInv /\ [Next]_vars => IndInv'
  <1> SUFFICES ASSUME IndInv, [Next]_vars PROVE IndInv'
    OBVIOUS
  <1>1. CASE Next
    BY <1>1, OwnersInv, TokenTypesKept, TerminalTypesKept, RequestTypesKept, OnRouteKept,
       TokensOwnedKept, NoneUnusedKept, OneInviteKept, InvitePendingKept, ConsumesItsKindKept,
       CodesInOrderKept, CountsBehindKept, ActivatedOnceKept, OneAtATimeKept, GraceHasShiftKept
    DEF IndInv, TypeOK
  <1>2. CASE UNCHANGED vars
    <2> USE <1>2 DEF IndInv, TypeOK, vars, ownerVars, termVars, reqVars
    <2>1. TypeOK'
      BY DEF OwnerTypes, TokenTypes, TerminalTypes, RequestTypes, GraceWhileSuspended
    <2>2. OnRoute' /\ ConsumesItsKind' /\ OneAtATime' /\ GraceHasShift'
      BY DEF OnRoute, ConsumesItsKind, OneAtATime, GraceHasShift, About, At
    <2>3. TokensOwned' /\ NoneUnused' /\ OneInvite' /\ InvitePending'
      BY DEF TokensOwned, NoneUnused, OneInvite, InvitePending, Invites, About, At
    <2>4. CodesInOrder' /\ CountsBehind'
      BY DEF CodesInOrder, CountsBehind, CountEver, OfBranch, About, At
    <2>5. ActivatedOnce'
      BY DEF ActivatedOnce, Accepted
    <2> QED
      BY <2>1, <2>2, <2>3, <2>4, <2>5
  <1> QED
    BY <1>1, <1>2

(* The invariant behind the theorems below holds in every state.             *)
THEOREM InvariantHolds == Spec => []IndInv
  BY InitInv, NextInv, PTL DEF Spec

(* Every variable keeps its type, and suspended_at is set exactly while the    *)
(* owner is suspended (OwnersService, InviteService.acceptInvite).           *)
THEOREM TypeCorrect == Spec => []TypeOK
  <1>1. IndInv => TypeOK
    BY DEF IndInv
  <1> QED
    BY <1>1, InvariantHolds, PTL

(* The codes of a branch are T1, T2, ... without gap or repetition, however    *)
(* many pairings run at once (PairingService.pair).                          *)
THEOREM CodesNeverReused == Spec => []CodesInOrder
  <1>1. IndInv => CodesInOrder
    BY DEF IndInv
  <1> QED
    BY <1>1, InvariantHolds, PTL

(* A pairing meets a taken code only after another one of its branch went      *)
(* through (the retry loop of PairingService.pair).                          *)
THEOREM RetriesAreEarned == Spec => []LosesOnlyToOthers
  <1>1. IndInv => LosesOnlyToOthers
    <2> SUFFICES ASSUME IndInv, NEW q \in Reqs, At(q, "store"), Taken(q)
                 PROVE  tries[q] < winners[q]
      BY DEF LosesOnlyToOthers
    <2> USE DEF IndInv, TypeOK
    <2>1. About(q) \in Branches
      BY Named DEF OnRoute, At
    <2>2. CountEver(q) \in Nat
      BY AccountsAssumption, FS_Subset, FS_CardinalityType DEF CountEver, OfBranch
    <2>3. got[q] + 1 \in 1..CountEver(q)
      BY <2>1 DEF Taken, CodesInOrder, CountEver
    <2>4. tries[q] + CountEver(q) <= winners[q] + got[q]
      BY DEF CountsBehind
    <2>5. got[q] \in Nat /\ tries[q] \in Nat /\ winners[q] \in Nat
      BY DEF RequestTypes, MaxRetries
    <2> HIDE DEF IndInv
    <2> QED
      BY <2>2, <2>3, <2>4, <2>5
  <1> QED
    BY <1>1, InvariantHolds, PTL

(* However many copies of an invite are accepted at once, one activates its    *)
(* owner (InviteService.acceptInvite, consumeToken).                         *)
THEOREM InvitesActivateOnce == Spec => []ActivatedOnce
  <1>1. IndInv => ActivatedOnce
    BY DEF IndInv
  <1> QED
    BY <1>1, InvariantHolds, PTL

(* No shift opens on the grace of a suspended owner (TerminalGuard).           *)
THEOREM GraceOpensNothing == Spec => NoShiftFromGrace
  <1>1. ASSUME IndInv, [Next]_vars
        PROVE  [\A t \in Terminals : t \in open' \ open =>
                 \E q \in Reqs : At(q, "act") /\ About(q) = t /\ gate[q] = "active"]_vars
    <2> SUFFICES ASSUME Next, NEW t \in Terminals, t \in open' \ open
                 PROVE  \E q \in Reqs : At(q, "act") /\ About(q) = t /\ gate[q] = "active"
      BY <1>1
    <2>1. PICK q \in Reqs : Act(q)
      BY <1>1, Touched
    <2>2. About(q) = t /\ job[q].kind = "open"
      BY <2>1 DEF Act
    <2>3. gate[q] = "active"
      BY <1>1, <2>1, <2>2 DEF Act, At, IndInv, GraceHasShift
    <2> QED
      BY <2>1, <2>2, <2>3 DEF Act
  <1> QED
    BY <1>1, InvariantHolds, PTL DEF Spec, NoShiftFromGrace

===============================================================================
