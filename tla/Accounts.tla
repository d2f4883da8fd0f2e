------------------------------ MODULE Accounts ------------------------------
(***************************************************************************)
(* Who is who: AuthService (one-time codes and the tokens they buy),       *)
(* UsersService and OrganizationsService (roles and memberships), over one *)
(* database.                                                               *)
(*                                                                         *)
(* As in Offers, a request is a program counter that names its next awaited *)
(* statement.  Nothing keeps requests of one user apart; peak[u] remembers *)
(* how many code requests and verifications of u were ever in flight       *)
(* together, so that peak[u] = 1 is a user who takes turns.                 *)
(***************************************************************************)
EXTENDS Naturals, Sequences, FiniteSets

CONSTANTS
    Users,        \* one per email address
    Organizations,
    Requests,     \* slots for requests in flight
    None,         \* an absent field
    MAX_ATTEMPTS,
    MaxCodes,     \* bound on codes requested
    MaxAborts     \* bound on requests that die between two statements

ASSUME AccountsAssumption ==
    /\ None \notin Users \cup Organizations
    /\ IsFiniteSet(Requests)
    /\ MAX_ATTEMPTS \in Nat /\ MaxCodes \in Nat /\ MaxAborts \in Nat

VARIABLES
    orgs,      \* Organization rows
    member,    \* the role and organizationId of each User row, or None
    codes,     \* VerificationCode rows in the order of createdAt
    tokens,    \* claims of the access tokens that were signed
    pc,        \* the statement each request executes next
    job,       \* what each request is about and what it has read
    stale,     \* requests whose user's row changed since they read it (history)
    tried,     \* wrong guesses compared with each code (history)
    issued,    \* tokens signed for each code (history)
    peak,      \* see above (history)
    aborts     \* requests that died in flight

requests == <<pc, job, stale>>
history == <<tried, issued, peak>>
vars == <<orgs, member, codes, tokens, pc, job, stale, tried, issued, peak, aborts>>

Roles == {"VISITOR", "SELLER", "GALLERY_ADMIN", "SUPERADMIN"}
Claims == [role : Roles, org : Organizations \cup {None}]
Visitor == [role |-> "VISITOR", org |-> None]
Superadmin == [role |-> "SUPERADMIN", org |-> None]
Admin(g) == [role |-> "GALLERY_ADMIN", org |-> g]
Artist(g) == [role |-> "SELLER", org |-> g]

ASSUME NoneAssumption == None \notin Claims

AuthLabels == {"code.consume", "code.insert", "verify.find", "verify.exhaust",
               "verify.count", "verify.consume", "verify.sign"}
Labels == {"idle", "remove.write"} \cup AuthLabels

\* claims is the user's row as it was read; a removal has checked that it names
\* the organization of the request.
Jobs == [user : Users \cup {None}, claims : Claims \cup {None}, code : 0 .. MaxCodes]
NoJob == [user |-> None, claims |-> None, code |-> 0]

CodeRows == [user : Users, consumed : BOOLEAN, expired : BOOLEAN, attempts : Nat]

\* Codes of u with consumedAt null; the newest of them is the one in use.
Unconsumed(u) == {c \in DOMAIN codes : codes[c].user = u /\ ~codes[c].consumed}
Newest(u) == CHOOSE c \in Unconsumed(u) : \A d \in Unconsumed(u) : d <= c

-----------------------------------------------------------------------------
(* The life of a request.                                                    *)

At(r, label) == pc[r] = label

InFlight(u) == {r \in Requests : job[r].user = u /\ pc[r] \in AuthLabels}

Begin(r, label, u, claims) ==
    /\ At(r, "idle")
    /\ pc' = [pc EXCEPT ![r] = label]
    /\ job' = [job EXCEPT ![r] = [user |-> u, claims |-> claims, code |-> 0]]
    /\ LET now == Cardinality(InFlight(u)) + 1
       IN peak' = IF label \in AuthLabels /\ now > peak[u]
                  THEN [peak EXCEPT ![u] = now] ELSE peak
    /\ UNCHANGED stale

Goto(r, label) == pc' = [pc EXCEPT ![r] = label] /\ UNCHANGED <<job, stale>>

Free(r) ==
    /\ pc' = [pc EXCEPT ![r] = "idle"]
    /\ job' = [job EXCEPT ![r] = NoJob]

End(r) == Free(r) /\ stale' = stale \ {r}

\* The requests that go on with what they read of u's row.
Relying(u) == {r \in Requests : job[r].user = u /\ job[r].claims # None}

\* The process stops or the connection is lost: what was committed stays.
Abort(r) ==
    /\ ~At(r, "idle")
    /\ aborts < MaxAborts
    /\ aborts' = aborts + 1
    /\ End(r)
    /\ UNCHANGED <<orgs, member, codes, tokens, history>>

-----------------------------------------------------------------------------
(* AuthService.requestCode: create the user if need be, consume the codes    *)
(* still usable, hash and store a new one, mail it.                          *)

StartRequestCode(r, u) ==
    /\ Len(codes) < MaxCodes
    /\ Begin(r, "code.consume", u, None)
    /\ member' = IF member[u] = None THEN [member EXCEPT ![u] = Visitor] ELSE member
    /\ UNCHANGED <<orgs, codes, tokens, tried, issued, aborts>>

\* fault: the codes still usable are left alone
CodeConsumeNothing(r) ==
    /\ At(r, "code.consume")
    /\ Goto(r, "code.insert")
    /\ UNCHANGED <<orgs, member, codes, tokens, history, aborts>>

CodeConsume(r) ==
    /\ At(r, "code.consume")
    /\ codes' = [c \in DOMAIN codes |->
                    IF c \in Unconsumed(job[r].user)
                    THEN [codes[c] EXCEPT !.consumed = TRUE] ELSE codes[c]]
    /\ Goto(r, "code.insert")
    /\ UNCHANGED <<orgs, member, tokens, history, aborts>>

CodeInsert(r) ==
    /\ At(r, "code.insert") /\ Len(codes) < MaxCodes
    /\ codes' = Append(codes, [user |-> job[r].user, consumed |-> FALSE,
                               expired |-> FALSE, attempts |-> 0])
    /\ End(r)
    /\ UNCHANGED <<orgs, member, tokens, history, aborts>>

\* Time passes: expiresAt of a code goes by.
Expire(c) ==
    /\ ~codes[c].consumed /\ ~codes[c].expired
    /\ codes' = [codes EXCEPT ![c].expired = TRUE]
    /\ UNCHANGED <<orgs, member, tokens, requests, history, aborts>>

-----------------------------------------------------------------------------
(* AuthService.verifyCode.  The claims of the token are those of the row read *)
(* first; comparing a guess awaits bcrypt but touches no row.                 *)

\* fault: the token is signed without the role and organization of the row
StartVerifyBare(r, u) ==
    /\ member[u] # None
    /\ Begin(r, "verify.find", u, None)
    /\ UNCHANGED <<orgs, member, codes, tokens, tried, issued, aborts>>

StartVerify(r, u) ==
    /\ member[u] # None
    /\ Begin(r, "verify.find", u, member[u])
    /\ UNCHANGED <<orgs, member, codes, tokens, tried, issued, aborts>>

VerifyFind(r, matches) ==
    LET u == job[r].user
        c == Newest(u)
        next == IF codes[c].attempts >= MAX_ATTEMPTS THEN "verify.exhaust"
                ELSE IF matches THEN "verify.consume" ELSE "verify.count"
    IN /\ At(r, "verify.find")
       /\ IF Unconsumed(u) = {} \/ codes[c].expired
          THEN End(r) /\ UNCHANGED tried
          ELSE /\ pc' = [pc EXCEPT ![r] = next]
               /\ job' = [job EXCEPT ![r].code = c,
                                     ![r].claims = IF next = "verify.consume" THEN @ ELSE None]
               /\ tried' = IF next = "verify.count"
                           THEN [tried EXCEPT ![c] = @ + 1] ELSE tried
               /\ UNCHANGED stale
       /\ UNCHANGED <<orgs, member, codes, tokens, issued, peak, aborts>>

Consume(c) == codes' = [codes EXCEPT ![c].consumed = TRUE]

VerifyExhaust(r) ==
    /\ At(r, "verify.exhaust")
    /\ Consume(job[r].code)
    /\ End(r)
    /\ UNCHANGED <<orgs, member, tokens, history, aborts>>

\* fault: the count is set and not incremented
VerifyCountOnce(r) ==
    /\ At(r, "verify.count")
    /\ codes' = [codes EXCEPT ![job[r].code].attempts = 1]
    /\ End(r)
    /\ UNCHANGED <<orgs, member, tokens, history, aborts>>

\* attempts: {increment: 1} is atomic in the database.
VerifyCount(r) ==
    /\ At(r, "verify.count")
    /\ codes' = [codes EXCEPT ![job[r].code].attempts = @ + 1]
    /\ End(r)
    /\ UNCHANGED <<orgs, member, tokens, history, aborts>>

\* fault: the code is not consumed
VerifyConsumeNot(r) ==
    /\ At(r, "verify.consume")
    /\ Goto(r, "verify.sign")
    /\ UNCHANGED <<orgs, member, codes, tokens, history, aborts>>

\* By id, consumed already or not.
VerifyConsume(r) ==
    /\ At(r, "verify.consume")
    /\ Consume(job[r].code)
    /\ Goto(r, "verify.sign")
    /\ UNCHANGED <<orgs, member, tokens, history, aborts>>

VerifySign(r) ==
    /\ At(r, "verify.sign")
    /\ tokens' = tokens \cup {[user |-> job[r].user, claims |-> job[r].claims]}
    /\ issued' = [issued EXCEPT ![job[r].code] = @ + 1]
    /\ End(r)
    /\ UNCHANGED <<orgs, member, codes, tried, peak, aborts>>

-----------------------------------------------------------------------------
(* OrganizationsService and UsersService.  A superadmin outside Users is      *)
(* always signed in; a curator acts for the organization in the token,        *)
(* whatever the row says by then.  Organizations are never deleted, so what   *)
(* assertExists found stays true.                                             *)

CreateOrganization(g) ==
    /\ g \notin orgs
    /\ orgs' = orgs \cup {g}
    /\ UNCHANGED <<member, codes, tokens, requests, history, aborts>>

\* RolesGuard and requireOrg, on the token alone.
ActsFor(g) == \E t \in tokens : t.claims = Admin(g)

\* The two upserts by email: create or overwrite.
SetMember(u, claims) ==
    /\ member' = [member EXCEPT ![u] = claims]
    /\ stale' = stale \cup Relying(u)
    /\ UNCHANGED <<orgs, codes, tokens, pc, job, history, aborts>>

AddAdmin(u, g) == g \in orgs /\ SetMember(u, Admin(g))

AddMyArtist(u, g) == ActsFor(g) /\ SetMember(u, Artist(g))

\* fault: whoever the user is
RemoveUnchecked(r, u, g) ==
    /\ member[u] # None
    /\ Begin(r, "remove.write", u, [member[u] EXCEPT !.org = g])
    /\ UNCHANGED <<orgs, member, codes, tokens, tried, issued, aborts>>

\* removeFromOrganization(): the user's row is read and checked, then updated
\* by id.
RemoveFromOrganization(r, u, g) ==
    /\ member[u] # None /\ member[u].org = g
    /\ Begin(r, "remove.write", u, [member[u] EXCEPT !.org = g])
    /\ UNCHANGED <<orgs, member, codes, tokens, tried, issued, aborts>>

RemoveAdmin(r, u, g) == g \in orgs /\ RemoveFromOrganization(r, u, g)

RemoveMyArtist(r, u, g) == ActsFor(g) /\ RemoveFromOrganization(r, u, g)

\* fault: the role is kept
RemoveWriteOrg(r) ==
    /\ At(r, "remove.write")
    /\ member' = [member EXCEPT ![job[r].user].org = None]
    /\ stale' = (stale \cup Relying(job[r].user)) \ {r}
    /\ Free(r)
    /\ UNCHANGED <<orgs, codes, tokens, history, aborts>>

RemoveWrite(r) ==
    /\ At(r, "remove.write")
    /\ member' = [member EXCEPT ![job[r].user] = Visitor]
    /\ stale' = (stale \cup Relying(job[r].user)) \ {r}
    /\ Free(r)
    /\ UNCHANGED <<orgs, codes, tokens, history, aborts>>

-----------------------------------------------------------------------------
\* Superadmins are made by hand in the database, before anything else.
Init ==
    /\ orgs = {}
    /\ member \in [Users -> {None, Superadmin}]
    /\ codes = <<>>
    /\ tokens = {}
    /\ pc = [r \in Requests |-> "idle"]
    /\ job = [r \in Requests |-> NoJob]
    /\ stale = {}
    /\ tried = [c \in 1 .. MaxCodes |-> 0]
    /\ issued = [c \in 1 .. MaxCodes |-> 0]
    /\ peak = [u \in Users |-> 0]
    /\ aborts = 0

Start(r, u) ==
    \/ StartRequestCode(r, u) \/ StartVerify(r, u)
    \/ \E g \in Organizations : RemoveAdmin(r, u, g) \/ RemoveMyArtist(r, u, g)

Continue(r) ==
    \/ CodeConsume(r) \/ CodeInsert(r)
    \/ \E matches \in BOOLEAN : VerifyFind(r, matches)
    \/ VerifyExhaust(r) \/ VerifyCount(r) \/ VerifyConsume(r) \/ VerifySign(r)
    \/ RemoveWrite(r)

Next ==
    \/ \E r \in Requests :
        \/ Continue(r) \/ Abort(r)
        \/ \E u \in Users : Start(r, u)
    \/ \E c \in DOMAIN codes : Expire(c)
    \/ \E g \in Organizations :
        \/ CreateOrganization(g)
        \/ \E u \in Users : AddAdmin(u, g) \/ AddMyArtist(u, g)

Spec == Init /\ [][Next]_vars

-----------------------------------------------------------------------------
(* Properties of every interleaving.                                          *)

\* Every variable has its type.
TypeOK ==
    /\ orgs \subseteq Organizations
    /\ member \in [Users -> Claims \cup {None}]
    /\ codes \in Seq(CodeRows) /\ Len(codes) <= MaxCodes
    /\ tokens \subseteq [user : Users, claims : Claims]
    /\ pc \in [Requests -> Labels]
    /\ job \in [Requests -> Jobs]
    /\ \A r \in Requests : pc[r] = "idle" <=> job[r] = NoJob
    /\ stale \subseteq Requests
    /\ tried \in [1 .. MaxCodes -> Nat] /\ issued \in [1 .. MaxCodes -> Nat]
    /\ peak \in [Users -> 0 .. Cardinality(Requests)]
    /\ aborts \in 0 .. MaxAborts

\* A new code shuts out the ones before it (auth.service.ts:32): a user who
\* takes turns has one usable code, any user at most as many as requests were
\* ever in flight together.
NewestOnly == \A u \in Users : Cardinality(Unconsumed(u)) <= peak[u]

\* A code buys one token, also when the request that consumed it died before
\* it signed; requests in flight together buy at most one each.
OneTokenPerCode ==
    \A c \in DOMAIN codes : issued[c] <= peak[codes[c].user]

\* A code survives MAX_ATTEMPTS wrong guesses, one more for each request in
\* flight together and for each that died before it was counted.
GuessesBounded ==
    \A c \in DOMAIN codes :
        tried[c] < MAX_ATTEMPTS + peak[codes[c].user] + aborts

\* "In practice an ADMIN always has an organizationId"
\* (organizations.controller.ts:83, exhibitions.service.ts:39): in the rows and
\* in every token, however joining and leaving interleave with signing in, and
\* for whoever was a superadmin before; a visitor or superadmin never has one
\* (schema.prisma:99).  Of artists it says nothing.
AdminHasOrg ==
    \A claims \in {member[u] : u \in Users} \cup {t.claims : t \in tokens} :
        /\ claims # None /\ claims.role = "GALLERY_ADMIN" => claims.org \in orgs
        /\ claims # None /\ claims.role \in {"VISITOR", "SUPERADMIN"} => claims.org = None

\* A token names the role and organization its user has when it is signed, and a
\* removal ends the membership it was asked to end and no other
\* (auth.service.ts:90, users.service.ts:61).  Only a request whose user's row
\* changed after it was read revives what was taken or takes what was given
\* since: whatever came before it is respected.
ActsOnTheRow ==
    [][\A u \in Users :
          /\ \A t \in tokens' \ tokens :
                t.user = u /\ t.claims # member[u] =>
                    \E r \in stale : job[r].user = u /\ At(r, "verify.sign")
          /\ member[u] \notin {None, Visitor} /\ member'[u] = Visitor =>
                \E r \in Requests :
                    /\ job[r].user = u /\ At(r, "remove.write")
                    /\ member[u].org = job[r].claims.org \/ r \in stale]_vars

=============================================================================
