--------------------------- MODULE AccountsProofs ---------------------------
(***************************************************************************)
(* Machine-checked proofs about Accounts, for every set of users,          *)
(* organizations and requests and every value of the bounds.               *)
(***************************************************************************)
EXTENDS Accounts, FiniteSetTheorems, SequenceTheorems, WellFoundedInduction, TLAPS

(***************************************************************************)
(* The newest code in use exists.                                          *)
(***************************************************************************)

LEMMA LargestExists ==
  ASSUME NEW n \in Nat, NEW S \in SUBSET (1 .. n), S # {}
  PROVE  \E c \in S : \A d \in S : d <= c
  <1> DEFINE Less == OpToRel(<, Nat)
             T == {k \in Nat : n - k \in S}
  <1>1. IsWellFoundedOn(Less, Nat)
    BY NatLessThanWellFounded
  <1>2. T # {}
    <2>1. PICK c \in S : TRUE
      OBVIOUS
    <2>2. n - c \in Nat /\ n - (n - c) = c
      OBVIOUS
    <2>. QED  BY <2>1, <2>2
  <1>3. PICK x \in T : \A y \in T : ~(<<y, x>> \in Less)
    <2>1. T \subseteq Nat
      OBVIOUS
    <2> HIDE DEF Less, T
    <2>. QED  BY <1>1, <1>2, <2>1, WFMin
  <1>4. \A y \in T : ~(y < x)
    BY <1>3 DEF OpToRel
  <1>5. ASSUME NEW d \in S PROVE d <= n - x
    <2>1. d \in 1 .. n /\ n - d \in Nat /\ n - (n - d) = d
      OBVIOUS
    <2>2. n - d \in T
      BY <2>1
    <2>. QED  BY <1>4, <2>1, <2>2
  <1>. QED  BY <1>5

LEMMA CodesDomain ==
  ASSUME TypeOK
  PROVE  /\ Len(codes) \in 0 .. MaxCodes
         /\ DOMAIN codes = 1 .. Len(codes)
         /\ codes \in [1 .. Len(codes) -> CodeRows]
  BY LenProperties, AccountsAssumption DEF TypeOK

LEMMA CodeIndex ==
  ASSUME TypeOK, NEW c \in DOMAIN codes
  PROVE  /\ c \in 1 .. MaxCodes /\ codes[c].user \in Users /\ codes[c].attempts \in Nat
         /\ issued[c] \in Nat /\ tried[c] \in Nat
  <1>1. c \in 1 .. MaxCodes
    BY CodesDomain, AccountsAssumption
  <1>2. codes[c] \in CodeRows
    BY CodesDomain
  <1>3. codes[c].user \in Users /\ codes[c].attempts \in Nat
    BY <1>2 DEF CodeRows
  <1>. QED  BY <1>1, <1>3 DEF TypeOK

LEMMA NewestInUse ==
  ASSUME TypeOK, NEW u \in Users, Unconsumed(u) # {}
  PROVE  Newest(u) \in Unconsumed(u)
  <1>1. Unconsumed(u) \in SUBSET (1 .. Len(codes)) /\ Len(codes) \in Nat
    BY CodesDomain DEF Unconsumed
  <1>2. \E c \in Unconsumed(u) : \A d \in Unconsumed(u) : d <= c
    BY <1>1, LargestExists
  <1>. QED  BY <1>2 DEF Newest

\* A function on the indices of codes is again such a sequence.
LEMMA RowsAgain ==
  ASSUME TypeOK, NEW rows \in [1 .. Len(codes) -> CodeRows]
  PROVE  /\ rows \in Seq(CodeRows)
         /\ Len(rows) = Len(codes)
         /\ DOMAIN rows = 1 .. Len(codes)
  <1>1. Len(codes) \in Nat
    BY CodesDomain
  <1>2. rows \in Seq(CodeRows)
    BY <1>1, SeqDef
  <1>. QED  BY <1>1, <1>2, LenProperties

\* The columns a request writes, and the fields of a job it sets.
LEMMA SetColumn ==
  ASSUME NEW row \in CodeRows
  PROVE  /\ [row EXCEPT !.consumed = TRUE] \in CodeRows
         /\ [row EXCEPT !.attempts = row.attempts + 1] \in CodeRows
  <1>1. [row EXCEPT !.consumed = TRUE] \in CodeRows
    BY DEF CodeRows
  <1>2. [row EXCEPT !.attempts = row.attempts + 1] \in CodeRows
    BY DEF CodeRows
  <1>. QED  BY <1>1, <1>2

LEMMA SetJob ==
  ASSUME NEW j \in Jobs, NEW d, NEW x
  PROVE  [j EXCEPT !.code = d, !.claims = x]
            = [user |-> j.user, claims |-> x, code |-> d]
  <1>1. [j EXCEPT !.code = d, !.claims = x] = [[j EXCEPT !.code = d] EXCEPT !.claims = x]
    OBVIOUS
  <1>2. [j EXCEPT !.code = d] = [user |-> j.user, claims |-> j.claims, code |-> d]
    BY DEF Jobs
  <1>3. [[user |-> j.user, claims |-> j.claims, code |-> d] EXCEPT !.claims = x]
           = [user |-> j.user, claims |-> x, code |-> d]
    OBVIOUS
  <1>. QED  BY <1>1, <1>2, <1>3

(***************************************************************************)
(* Types, and what each label says of its job.                             *)
(***************************************************************************)

CodeLabels == {"verify.exhaust", "verify.count", "verify.consume", "verify.sign"}

JobsOK ==
    \A r \in Requests :
        /\ pc[r] # "idle" => job[r].user \in Users
        /\ pc[r] \in {"verify.find", "verify.consume", "verify.sign", "remove.write"} =>
              job[r].claims \in Claims
        /\ pc[r] \in CodeLabels =>
              /\ job[r].code \in DOMAIN codes
              /\ codes[job[r].code].user = job[r].user

\* InFlight(u) counts against peak[u], and is bounded by the slots.
PeakOK == \A u \in Users : Cardinality(InFlight(u)) <= peak[u]

LEMMA RequestSets ==
  ASSUME NEW S \in SUBSET Requests
  PROVE  /\ IsFiniteSet(S) /\ Cardinality(S) \in Nat
         /\ Cardinality(S) <= Cardinality(Requests)
         /\ \A T \in SUBSET S : Cardinality(T) <= Cardinality(S)
         /\ \A r \in Requests \ S : Cardinality(S \cup {r}) = Cardinality(S) + 1
         /\ \A r \in S : Cardinality(S \ {r}) = Cardinality(S) - 1
  <1>1. IsFiniteSet(S) /\ Cardinality(S) <= Cardinality(Requests)
    BY AccountsAssumption, FS_Subset
  <1>2. Cardinality(S) \in Nat
    BY <1>1, FS_CardinalityType
  <1>3. \A T \in SUBSET S : Cardinality(T) <= Cardinality(S)
    BY <1>1, FS_Subset
  <1>4. \A r \in Requests \ S : Cardinality(S \cup {r}) = Cardinality(S) + 1
    BY <1>1, FS_AddElement
  <1>5. \A r \in S : Cardinality(S \ {r}) = Cardinality(S) - 1
    BY <1>1, FS_RemoveElement
  <1>. QED  BY <1>1, <1>2, <1>3, <1>4, <1>5

LEMMA GrowByOne ==
  ASSUME NEW S, IsFiniteSet(S), NEW x
  PROVE  /\ IsFiniteSet(S \cup {x}) /\ Cardinality(S \cup {x}) \in Nat
         /\ Cardinality(S \cup {x}) <= Cardinality(S) + 1
  <1>1. Cardinality(S) \in Nat
    BY FS_CardinalityType
  <1>2. /\ IsFiniteSet(S \cup {x})
        /\ Cardinality(S \cup {x})
              = IF x \in S THEN Cardinality(S) ELSE Cardinality(S) + 1
    BY FS_AddElement
  <1>. QED  BY <1>1, <1>2

LEMMA BeginType ==
  ASSUME TypeOK, PeakOK, NEW r \in Requests, NEW label \in Labels \ {"idle"},
         NEW u \in Users, NEW claims \in Claims \cup {None},
         Begin(r, label, u, claims)
  PROVE  /\ pc' \in [Requests -> Labels] /\ job' \in [Requests -> Jobs]
         /\ \A s \in Requests : pc'[s] = "idle" <=> job'[s] = NoJob
         /\ peak' \in [Users -> 0 .. Cardinality(Requests)]
         /\ PeakOK'
  <1>. USE DEF TypeOK
  <1>1. pc' \in [Requests -> Labels] /\ job' \in [Requests -> Jobs]
    BY AccountsAssumption DEF Begin, Jobs
  <1>2. \A s \in Requests : pc'[s] = "idle" <=> job'[s] = NoJob
    BY AccountsAssumption DEF Begin, NoJob, At
  <1>3. /\ InFlight(u) \in SUBSET Requests /\ r \in Requests \ InFlight(u)
        /\ InFlight(u)' \subseteq InFlight(u) \cup {r}
        /\ label \notin AuthLabels => InFlight(u)' \subseteq InFlight(u)
        /\ \A v \in Users \ {u} : InFlight(v)' \subseteq InFlight(v)
    BY DEF Begin, InFlight, AuthLabels, At
  <1>4. /\ Cardinality(InFlight(u) \cup {r}) = Cardinality(InFlight(u)) + 1
        /\ InFlight(u) \cup {r} \in SUBSET Requests
    BY <1>3, RequestSets
  <1>5. /\ Cardinality(InFlight(u)) + 1 \in 0 .. Cardinality(Requests)
        /\ Cardinality(InFlight(u)) \in Nat
    <2>1. Cardinality(Requests) \in Nat
      BY RequestSets
    <2>. QED  BY <1>3, <1>4, <2>1, RequestSets
  <1>6. peak' \in [Users -> 0 .. Cardinality(Requests)]
    BY <1>5 DEF Begin
  <1>7. PeakOK'
    <2> SUFFICES ASSUME NEW v \in Users PROVE Cardinality(InFlight(v)') <= peak'[v]
      BY DEF PeakOK
    <2>1. CASE v # u \/ label \notin AuthLabels
      <3>1. InFlight(v)' \in SUBSET InFlight(v) /\ InFlight(v) \in SUBSET Requests
        BY <1>3, <2>1 DEF InFlight
      <3>2. /\ Cardinality(InFlight(v)') <= Cardinality(InFlight(v))
            /\ Cardinality(InFlight(v)') \in Nat /\ Cardinality(InFlight(v)) \in Nat
        BY <3>1, RequestSets
      <3>3. peak'[v] = peak[v]
        BY <2>1 DEF Begin
      <3>. QED  BY <3>2, <3>3 DEF PeakOK
    <2>2. CASE v = u /\ label \in AuthLabels
      <3>1. /\ Cardinality(InFlight(u)') <= Cardinality(InFlight(u)) + 1
            /\ Cardinality(InFlight(u)') \in Nat
        BY <1>3, <1>4, RequestSets
      <3>2. peak'[u] >= Cardinality(InFlight(u)) + 1
        BY <1>5, <2>2 DEF Begin
      <3>. QED  BY <2>2, <3>1, <3>2, <1>5, <1>6
    <2>. QED  BY <2>1, <2>2
  <1>. QED  BY <1>1, <1>2, <1>6, <1>7

\* A request that goes on or ends leaves peak alone and counts no further.
LEMMA LaterPeak ==
  ASSUME TypeOK, PeakOK, peak' = peak,
         \A u \in Users : InFlight(u)' \subseteq InFlight(u)
  PROVE  PeakOK'
  <1> SUFFICES ASSUME NEW u \in Users PROVE Cardinality(InFlight(u)') <= peak[u]
    BY DEF PeakOK
  <1>1. InFlight(u)' \in SUBSET InFlight(u) /\ InFlight(u) \in SUBSET Requests
    BY DEF InFlight
  <1>2. /\ Cardinality(InFlight(u)') <= Cardinality(InFlight(u))
        /\ Cardinality(InFlight(u)') \in Nat /\ Cardinality(InFlight(u)) \in Nat
    BY <1>1, RequestSets
  <1>. QED  BY <1>2 DEF PeakOK, TypeOK

Typed == TypeOK /\ JobsOK /\ PeakOK

\* Starting a request: three of the four only Begin, requestCode may also add a
\* row for the user.
LEMMA StartTyped ==
  ASSUME Typed, NEW r \in Requests, NEW u \in Users, Start(r, u)
  PROVE  Typed'
  <1>. USE DEF Typed
  <1>1. PICK label \in {"code.consume", "verify.find", "remove.write"},
             claims \in Claims \cup {None} :
          /\ Begin(r, label, u, claims)
          /\ label \in {"verify.find", "remove.write"} => claims \in Claims
    <2>1. CASE StartRequestCode(r, u)
      BY <2>1 DEF StartRequestCode
    <2>2. CASE StartVerify(r, u)
      BY <2>2 DEF StartVerify, TypeOK
    <2>3. CASE \E g \in Organizations : RemoveAdmin(r, u, g) \/ RemoveMyArtist(r, u, g)
      <3>1. PICK g \in Organizations : RemoveFromOrganization(r, u, g)
        BY <2>3 DEF RemoveAdmin, RemoveMyArtist
      <3>2. [member[u] EXCEPT !.org = g] \in Claims
        BY <3>1 DEF RemoveFromOrganization, TypeOK, Claims
      <3>. QED  BY <3>1, <3>2 DEF RemoveFromOrganization
    <2>. QED  BY <2>1, <2>2, <2>3 DEF Start
  <1>2. label \in Labels \ {"idle"}
    BY DEF Labels, AuthLabels
  <1>3. /\ UNCHANGED <<orgs, codes, tokens, tried, issued, aborts>>
        /\ member' = member \/ member' = [member EXCEPT ![u] = Visitor]
    BY DEF Start, StartRequestCode, StartVerify, RemoveAdmin, RemoveMyArtist,
           RemoveFromOrganization
  <1>4. TypeOK' /\ PeakOK'
    <2>1. Visitor \in Claims
      BY DEF Visitor, Claims, Roles
    <2>2. UNCHANGED stale
      BY <1>1 DEF Begin
    <2>. QED  BY <1>1, <1>2, <1>3, <2>1, <2>2, BeginType DEF TypeOK
  <1>5. JobsOK'
    BY <1>1, <1>3 DEF JobsOK, Begin, TypeOK, CodeLabels
  <1>. QED  BY <1>4, <1>5

\* A request that goes on leaves the user in its job, so it counts on against
\* the same peak; one that ends counts no more.
LEMMA GoOnSlots ==
  ASSUME Typed, NEW r \in Requests, pc[r] \in AuthLabels, UNCHANGED peak,
         NEW label \in AuthLabels, pc' = [pc EXCEPT ![r] = label],
         NEW c \in 0 .. MaxCodes, NEW claims \in Claims \cup {None},
         job' = [job EXCEPT ![r] = [user |-> job[r].user, claims |-> claims, code |-> c]]
  PROVE  /\ pc' \in [Requests -> Labels] /\ job' \in [Requests -> Jobs]
         /\ \A s \in Requests : pc'[s] = "idle" <=> job'[s] = NoJob
         /\ PeakOK'
  <1>. USE DEF Typed, TypeOK
  <1>1. job[r].user \in Users
    BY DEF AuthLabels, JobsOK
  <1>2. pc' \in [Requests -> Labels] /\ job' \in [Requests -> Jobs]
    BY <1>1 DEF Jobs, Labels
  <1>3. \A s \in Requests : pc'[s] = "idle" <=> job'[s] = NoJob
    BY <1>1, AccountsAssumption DEF NoJob, AuthLabels
  <1>4. \A u \in Users : InFlight(u)' \subseteq InFlight(u)
    BY DEF InFlight
  <1>. QED  BY <1>2, <1>3, <1>4, LaterPeak

LEMMA EndSlots ==
  ASSUME Typed, NEW r \in Requests, UNCHANGED peak, Free(r)
  PROVE  /\ pc' \in [Requests -> Labels] /\ job' \in [Requests -> Jobs]
         /\ \A s \in Requests : pc'[s] = "idle" <=> job'[s] = NoJob
         /\ PeakOK'
  <1>. USE DEF Typed, TypeOK, Free
  <1>1. NoJob \in Jobs /\ "idle" \in Labels
    BY AccountsAssumption DEF NoJob, Jobs, Labels
  <1>2. pc' \in [Requests -> Labels] /\ job' \in [Requests -> Jobs]
    BY <1>1
  <1>3. \A s \in Requests : pc'[s] = "idle" <=> job'[s] = NoJob
    OBVIOUS
  <1>4. \A u \in Users : InFlight(u)' \subseteq InFlight(u)
    BY AccountsAssumption DEF InFlight, NoJob, AuthLabels
  <1>. QED  BY <1>2, <1>3, <1>4, LaterPeak

LEMMA GotoSlots ==
  ASSUME Typed, NEW r \in Requests, pc[r] \in AuthLabels, UNCHANGED peak,
         NEW label \in AuthLabels, Goto(r, label)
  PROVE  /\ pc' \in [Requests -> Labels] /\ job' \in [Requests -> Jobs] /\ stale' = stale
         /\ \A s \in Requests : pc'[s] = "idle" <=> job'[s] = NoJob
         /\ PeakOK'
  <1>. USE DEF Typed, TypeOK, Goto
  <1>1. /\ job[r].claims \in Claims \cup {None} /\ job[r].code \in 0 .. MaxCodes
        /\ job' = [job EXCEPT ![r] = [user |-> job[r].user, claims |-> job[r].claims,
                                      code |-> job[r].code]]
    BY DEF Jobs
  <1>. QED  BY <1>1, GoOnSlots

\* What VerifyFind does when there is a code to judge: the cases of its guess
\* share the code they are about and keep the claims only where a token is near.
Judged(r, c, next, claims) ==
    /\ pc' = [pc EXCEPT ![r] = next]
    /\ job' = [job EXCEPT ![r] = [user |-> job[r].user, claims |-> claims, code |-> c]]
    /\ tried' = IF next = "verify.count" THEN [tried EXCEPT ![c] = @ + 1] ELSE tried
    /\ next = "verify.consume" => claims = job[r].claims
    /\ UNCHANGED stale
    /\ next = "verify.count" => codes[c].attempts < MAX_ATTEMPTS

LEMMA FindJudges ==
  ASSUME Typed, NEW r \in Requests, NEW matches \in BOOLEAN, VerifyFind(r, matches),
         ~(End(r) /\ UNCHANGED tried)
  PROVE  \E c \in Unconsumed(job[r].user), next \in CodeLabels \ {"verify.sign"},
            claims \in {job[r].claims, None} : Judged(r, c, next, claims)
  <1>. USE DEF Typed
  <1> DEFINE u == job[r].user
             c == Newest(u)
  <1>1. u \in Users /\ Unconsumed(u) # {}
    BY DEF VerifyFind, JobsOK, At
  <1>2. c \in Unconsumed(u)
    BY <1>1, NewestInUse
  <1>3. c \in DOMAIN codes /\ codes[c] \in CodeRows
    BY <1>2, CodesDomain DEF Unconsumed
  <1>4. PICK next \in CodeLabels \ {"verify.sign"} :
          /\ pc' = [pc EXCEPT ![r] = next]
          /\ job' = [job EXCEPT ![r].code = c,
                       ![r].claims = IF next = "verify.consume" THEN @ ELSE None]
          /\ tried' = IF next = "verify.count" THEN [tried EXCEPT ![c] = @ + 1] ELSE tried
          /\ next = "verify.count" => ~(codes[c].attempts >= MAX_ATTEMPTS)
          /\ UNCHANGED stale
    BY DEF VerifyFind, CodeLabels
  <1> HIDE DEF c
  <1> DEFINE claims == IF next = "verify.consume" THEN job[r].claims ELSE None
  <1>5. job' = [job EXCEPT ![r] = [user |-> u, claims |-> claims, code |-> c]]
    <2>1. /\ job[r] \in Jobs
          /\ job' = [job EXCEPT ![r] = [job[r] EXCEPT !.code = c, !.claims = claims]]
      BY <1>4 DEF TypeOK
    <2>. QED  BY <2>1, SetJob
  <1>6. next = "verify.count" => codes[c].attempts < MAX_ATTEMPTS
    BY <1>3, <1>4, AccountsAssumption DEF CodeRows
  <1>. QED  BY <1>2, <1>4, <1>5, <1>6 DEF Judged

LEMMA ContinueTyped ==
  ASSUME Typed, NEW r \in Requests, Continue(r)
  PROVE  Typed'
  <1>. USE DEF Typed
  <1>1. CASE CodeConsume(r)
    <2>1. codes' \in [1 .. Len(codes) -> CodeRows]
      BY <1>1, CodesDomain DEF CodeConsume, CodeRows
    <2>2. /\ codes' \in Seq(CodeRows) /\ Len(codes') = Len(codes)
          /\ DOMAIN codes' = DOMAIN codes
      BY <2>1, RowsAgain, CodesDomain
    <2>3. \A c \in DOMAIN codes : codes'[c].user = codes[c].user
      BY <1>1, CodesDomain DEF CodeConsume, CodeRows
    <2>4. TypeOK' /\ PeakOK'
      BY <1>1, <2>2, GotoSlots
      DEF CodeConsume, history, AuthLabels, At, TypeOK
    <2>5. JobsOK'
      BY <1>1, <2>2, <2>3 DEF JobsOK, CodeConsume, Goto, TypeOK, CodeLabels, At
    <2>. QED  BY <2>4, <2>5
  <1>2. CASE CodeInsert(r)
    <2> DEFINE row == [user |-> job[r].user, consumed |-> FALSE,
                       expired |-> FALSE, attempts |-> 0]
    <2>1. row \in CodeRows /\ codes' = Append(codes, row) /\ Len(codes) < MaxCodes
      BY <1>2 DEF CodeInsert, CodeRows, JobsOK, At
    <2>2. /\ codes' \in Seq(CodeRows) /\ Len(codes') = Len(codes) + 1
          /\ \A c \in DOMAIN codes : c \in DOMAIN codes' /\ codes'[c] = codes[c]
      <3> HIDE DEF row
      <3>. QED  BY <2>1, CodesDomain, AppendProperties, LenProperties DEF TypeOK
    <2>3. TypeOK' /\ PeakOK'
      <3>1. Len(codes') <= MaxCodes
        BY <2>1, <2>2, CodesDomain, AccountsAssumption
      <3>. QED  BY <1>2, <2>2, <3>1, EndSlots DEF CodeInsert, End, history, TypeOK
    <2>4. JobsOK'
      BY <1>2, <2>2 DEF JobsOK, CodeInsert, End, Free, TypeOK, CodeLabels, At
    <2>. QED  BY <2>3, <2>4
  <1>3. ASSUME NEW matches \in BOOLEAN, VerifyFind(r, matches) PROVE Typed'
    <2>1. CASE End(r) /\ UNCHANGED tried
      <3>1. TypeOK' /\ PeakOK'
        BY <1>3, <2>1, EndSlots DEF VerifyFind, End, TypeOK
      <3>2. JobsOK'
        BY <1>3, <2>1 DEF VerifyFind, JobsOK, End, Free, TypeOK, CodeLabels, At
      <3>. QED  BY <3>1, <3>2
    <2>2. CASE ~(End(r) /\ UNCHANGED tried)
      <3>1. PICK c \in Unconsumed(job[r].user), next \in CodeLabels \ {"verify.sign"},
                 claims \in {job[r].claims, None} : Judged(r, c, next, claims)
        BY <1>3, <2>2, FindJudges
      <3>2. /\ c \in DOMAIN codes /\ codes[c].user = job[r].user
            /\ c \in 1 .. MaxCodes
        BY CodesDomain, AccountsAssumption DEF Unconsumed
      <3>3. /\ UNCHANGED <<orgs, member, codes, tokens, issued, peak, aborts>>
            /\ At(r, "verify.find")
        BY <1>3 DEF VerifyFind
      <3>4. job[r].claims \in Claims
        BY <3>3 DEF JobsOK, At
      <3>5. TypeOK' /\ PeakOK'
        <4>1. /\ pc' \in [Requests -> Labels] /\ job' \in [Requests -> Jobs]
              /\ \A s \in Requests : pc'[s] = "idle" <=> job'[s] = NoJob
              /\ PeakOK'
          <5>1. /\ pc[r] \in AuthLabels /\ next \in AuthLabels /\ c \in 0 .. MaxCodes
                /\ claims \in Claims \cup {None}
            BY <3>2, <3>3, <3>4 DEF At, CodeLabels, AuthLabels
          <5>. QED  BY <3>1, <3>3, <5>1, GoOnSlots DEF Judged
        <4>2. tried' \in [1 .. MaxCodes -> Nat]
          BY <3>1, <3>2 DEF Judged, TypeOK
        <4>. QED  BY <3>1, <3>3, <4>1, <4>2 DEF Judged, TypeOK
      <3>6. JobsOK'
        BY <3>1, <3>2, <3>3, <3>4 DEF Judged, At, JobsOK, TypeOK, CodeLabels
      <3>. QED  BY <3>5, <3>6
    <2>. QED  BY <2>1, <2>2
  <1>4. CASE VerifyExhaust(r) \/ VerifyCount(r) \/ VerifyConsume(r)
    <2> DEFINE c == job[r].code
    <2>1. c \in DOMAIN codes
      BY <1>4 DEF VerifyExhaust, VerifyCount, VerifyConsume, At, JobsOK, CodeLabels
    <2>2. codes' \in [1 .. Len(codes) -> CodeRows]
      <3>1. codes[c] \in CodeRows
        BY <2>1, CodesDomain
      <3>2. /\ [codes[c] EXCEPT !.consumed = TRUE] \in CodeRows
            /\ [codes[c] EXCEPT !.attempts = codes[c].attempts + 1] \in CodeRows
        BY <3>1, SetColumn
      <3>3. \/ codes' = [codes EXCEPT ![c] = [codes[c] EXCEPT !.consumed = TRUE]]
            \/ codes' = [codes EXCEPT ![c] = [codes[c] EXCEPT !.attempts =
                                                 codes[c].attempts + 1]]
        BY <1>4, <2>1 DEF VerifyExhaust, VerifyCount, VerifyConsume, Consume
      <3>. QED  BY <2>1, <3>1, <3>2, <3>3, CodesDomain
    <2>3. /\ codes' \in Seq(CodeRows) /\ Len(codes') = Len(codes)
          /\ DOMAIN codes' = DOMAIN codes
      BY <2>2, RowsAgain, CodesDomain
    <2>4. \A d \in DOMAIN codes : codes'[d].user = codes[d].user
      BY <1>4, <2>1, CodesDomain
      DEF VerifyExhaust, VerifyCount, VerifyConsume, Consume, CodeRows
    <2>5. TypeOK' /\ PeakOK'
      BY <1>4, <2>3, GotoSlots, EndSlots
      DEF VerifyExhaust, VerifyCount, VerifyConsume, End, history, AuthLabels, At, TypeOK
    <2>6. JobsOK'
      BY <1>4, <2>3, <2>4
      DEF JobsOK, VerifyExhaust, VerifyCount, VerifyConsume, Goto, End, Free, TypeOK,
          CodeLabels, At
    <2>. QED  BY <2>5, <2>6
  <1>5. CASE VerifySign(r)
    <2>1. /\ job[r].user \in Users /\ job[r].claims \in Claims
          /\ job[r].code \in 1 .. MaxCodes
      BY <1>5, CodesDomain, AccountsAssumption
      DEF VerifySign, JobsOK, At, CodeLabels
    <2>2. TypeOK' /\ PeakOK'
      BY <1>5, <2>1, EndSlots DEF VerifySign, End, TypeOK
    <2>3. JobsOK'
      BY <1>5 DEF JobsOK, VerifySign, End, Free, TypeOK, CodeLabels, At
    <2>. QED  BY <2>2, <2>3
  <1>6. CASE RemoveWrite(r)
    <2>1. TypeOK' /\ PeakOK'
      <3>1. job[r].user \in Users /\ Visitor \in Claims
        BY <1>6 DEF RemoveWrite, At, JobsOK, Visitor, Claims, Roles
      <3>. QED  BY <1>6, <3>1, EndSlots DEF RemoveWrite, Relying, history, TypeOK
    <2>2. JobsOK'
      BY <1>6 DEF JobsOK, RemoveWrite, End, Free, TypeOK, CodeLabels, At
    <2>. QED  BY <2>1, <2>2
  <1>. QED  BY <1>1, <1>2, <1>3, <1>4, <1>5, <1>6 DEF Continue

LEMMA NextTyped == Typed /\ [Next]_vars => Typed'
  <1> SUFFICES ASSUME Typed, [Next]_vars PROVE Typed'
    OBVIOUS
  <1>. USE DEF Typed
  <1>1. CASE UNCHANGED vars
    BY <1>1 DEF vars, TypeOK, JobsOK, PeakOK, InFlight
  <1>2. ASSUME NEW r \in Requests, Abort(r) PROVE Typed'
    <2>1. TypeOK' /\ PeakOK'
      <3>1. aborts' \in 0 .. MaxAborts
        BY <1>2, AccountsAssumption DEF Abort, TypeOK
      <3>. QED  BY <1>2, <3>1, EndSlots DEF Abort, End, history, TypeOK
    <2>2. JobsOK'
      BY <1>2 DEF JobsOK, Abort, End, Free, TypeOK, CodeLabels
    <2>. QED  BY <2>1, <2>2
  <1>3. ASSUME NEW c \in DOMAIN codes, Expire(c) PROVE Typed'
    <2>1. /\ codes' \in [1 .. Len(codes) -> CodeRows]
          /\ \A d \in DOMAIN codes : codes'[d].user = codes[d].user
      BY <1>3, CodesDomain DEF Expire, CodeRows
    <2>2. /\ codes' \in Seq(CodeRows) /\ Len(codes') = Len(codes)
          /\ DOMAIN codes' = DOMAIN codes
      BY <2>1, RowsAgain, CodesDomain
    <2>. QED
      BY <1>3, <2>1, <2>2
      DEF Expire, requests, history, TypeOK, JobsOK, PeakOK, InFlight
  <1>4. ASSUME NEW g \in Organizations,
               CreateOrganization(g) \/ \E u \in Users : AddAdmin(u, g) \/ AddMyArtist(u, g)
        PROVE  Typed'
    <2>1. Admin(g) \in Claims /\ Artist(g) \in Claims
      BY DEF Admin, Artist, Claims, Roles
    <2>2. /\ UNCHANGED <<codes, tokens, pc, job, history, aborts>>
          /\ orgs' = orgs \/ orgs' = orgs \cup {g}
          /\ \/ member' = member
             \/ \E u \in Users : \/ member' = [member EXCEPT ![u] = Admin(g)]
                                 \/ member' = [member EXCEPT ![u] = Artist(g)]
          /\ stale' = stale \/ \E u \in Users : stale' = stale \cup Relying(u)
      BY <1>4 DEF CreateOrganization, AddAdmin, AddMyArtist, SetMember, requests
    <2>. QED
      BY <2>1, <2>2 DEF Relying, history, TypeOK, JobsOK, PeakOK, InFlight
  <1>. QED  BY <1>1, <1>2, <1>3, <1>4, StartTyped, ContinueTyped DEF Next

LEMMA InitTyped == Init => Typed
  <1> SUFFICES ASSUME Init PROVE Typed
    OBVIOUS
  <1>1. TypeOK
    <2>1. Cardinality(Requests) \in Nat
      BY RequestSets
    <2>2. Superadmin \in Claims
      BY DEF Superadmin, Claims, Roles
    <2>3. codes \in Seq(CodeRows) /\ Len(codes) = 0
      BY EmptySeq DEF Init
    <2>. QED
      BY <2>1, <2>2, <2>3, AccountsAssumption DEF Init, TypeOK, Labels, Jobs, NoJob
  <1>2. JobsOK
    BY DEF Init, JobsOK, CodeLabels
  <1>3. PeakOK
    <2>1. \A u \in Users : InFlight(u) = {}
      BY DEF Init, InFlight, AuthLabels
    <2>2. \A u \in Users : peak[u] = 0
      BY DEF Init
    <2>3. Cardinality({}) = 0
      BY FS_EmptySet
    <2>. QED  BY <2>1, <2>2, <2>3 DEF PeakOK
  <1>. QED  BY <1>1, <1>2, <1>3 DEF Typed

\* Every variable keeps its type; in particular a verification that goes on has
\* a code of its own user, and a token has claims.
THEOREM TypeCorrect == Spec => []TypeOK
  <1>1. Typed => TypeOK
    BY DEF Typed
  <1>. QED  BY InitTyped, NextTyped, <1>1, PTL DEF Spec

(***************************************************************************)
(* What a row says of role and organization, a verification in flight       *)
(* carries from the row it read to the token it signs.  It is still what    *)
(* the row says unless the row changed meanwhile, and then the request is   *)
(* stale.                                                                   *)
(***************************************************************************)

ClaimsOK(claims) ==
    claims # None =>
        /\ claims.role = "GALLERY_ADMIN" => claims.org \in orgs
        /\ claims.role \in {"VISITOR", "SUPERADMIN"} => claims.org = None

ClaimsIInv ==
    /\ \A u \in Users : ClaimsOK(member[u])
    /\ \A t \in tokens : ClaimsOK(t.claims)
    /\ \A r \in Requests : ClaimsOK(job[r].claims)

LEMMA NewClaims ==
  /\ ClaimsOK(None) /\ ClaimsOK(Visitor) /\ ClaimsOK(Superadmin)
  /\ \A g \in Organizations : ClaimsOK(Artist(g)) /\ (g \in orgs => ClaimsOK(Admin(g)))
  BY AccountsAssumption DEF ClaimsOK, Visitor, Superadmin, Admin, Artist

\* A request starts with no claims or with those of the row.
LEMMA StartReads ==
  ASSUME TypeOK, NEW r \in Requests, NEW u \in Users, Start(r, u)
  PROVE  /\ \E claims \in {None, member[u]} :
               job' = [job EXCEPT ![r] = [user |-> u, claims |-> claims, code |-> 0]]
         /\ UNCHANGED <<tokens, stale>>
         /\ member' = member \/ (member[u] = None /\ member' = [member EXCEPT ![u] = Visitor])
  <1>1. CASE \E g \in Organizations : RemoveAdmin(r, u, g) \/ RemoveMyArtist(r, u, g)
    <2>1. PICK g \in Organizations : RemoveFromOrganization(r, u, g)
      BY <1>1 DEF RemoveAdmin, RemoveMyArtist
    <2>2. [member[u] EXCEPT !.org = g] = member[u]
      BY <2>1 DEF RemoveFromOrganization, TypeOK, Claims
    <2>. QED  BY <2>1, <2>2 DEF RemoveFromOrganization, Begin
  <1>2. CASE StartRequestCode(r, u) \/ StartVerify(r, u)
    BY <1>2 DEF StartRequestCode, StartVerify, Begin
  <1>. QED  BY <1>1, <1>2 DEF Start

LEMMA NextClaims == Typed /\ ClaimsIInv /\ [Next]_vars => ClaimsIInv'
  <1> SUFFICES ASSUME Typed, ClaimsIInv, [Next]_vars PROVE ClaimsIInv'
    OBVIOUS
  <1>. USE DEF ClaimsIInv
  <1>0. TypeOK /\ ClaimsOK(None) /\ ClaimsOK(Visitor) /\ NoJob.claims = None
    BY NewClaims DEF Typed, NoJob
  <1>1. CASE UNCHANGED vars
    BY <1>1 DEF vars, ClaimsOK
  <1>2. ASSUME NEW g \in Organizations, CreateOrganization(g) PROVE ClaimsIInv'
    BY <1>2 DEF CreateOrganization, requests, ClaimsOK
  <1>3. ASSUME NEW g \in Organizations, NEW u \in Users,
               AddAdmin(u, g) \/ AddMyArtist(u, g)
        PROVE  ClaimsIInv'
    <2>1. /\ UNCHANGED <<orgs, tokens, job>>
          /\ \/ member' = [member EXCEPT ![u] = Admin(g)] /\ g \in orgs
             \/ member' = [member EXCEPT ![u] = Artist(g)]
      BY <1>3 DEF AddAdmin, AddMyArtist, SetMember
    <2>2. ClaimsOK(Artist(g)) /\ (g \in orgs => ClaimsOK(Admin(g)))
      BY NewClaims
    <2>. QED  BY <1>0, <2>1, <2>2 DEF ClaimsOK, TypeOK
  <1>4. ASSUME NEW r \in Requests, NEW u \in Users, Start(r, u) PROVE ClaimsIInv'
    <2>1. /\ UNCHANGED <<orgs, tokens>>
          /\ member' = member \/ member' = [member EXCEPT ![u] = Visitor]
      BY <1>4 DEF Start, StartRequestCode, StartVerify, RemoveAdmin, RemoveMyArtist,
                  RemoveFromOrganization
    <2>2. PICK claims \in {None, member[u]} :
            job' = [job EXCEPT ![r] = [user |-> u, claims |-> claims, code |-> 0]]
      BY <1>0, <1>4, StartReads
    <2>3. ClaimsOK(claims)
      BY <1>0, <2>2
    <2>. QED  BY <1>0, <2>1, <2>2, <2>3 DEF ClaimsOK, TypeOK
  <1>5. ASSUME NEW r \in Requests, End(r) \/ Goto(r, "code.insert") \/ Goto(r, "verify.sign"),
               UNCHANGED <<orgs, member, tokens>>
        PROVE  ClaimsIInv'
    BY <1>0, <1>5 DEF End, Free, Goto, ClaimsOK, TypeOK
  <1>6. ASSUME NEW r \in Requests, NEW matches \in BOOLEAN, VerifyFind(r, matches)
        PROVE  ClaimsIInv'
    <2>1. UNCHANGED <<orgs, member, tokens>>
      BY <1>6 DEF VerifyFind
    <2>2. CASE End(r)
      BY <1>5, <2>1, <2>2
    <2>3. CASE ~End(r)
      <3>1. PICK c \in Unconsumed(job[r].user), next \in CodeLabels \ {"verify.sign"},
                 claims \in {job[r].claims, None} : Judged(r, c, next, claims)
        BY <1>6, <2>3, FindJudges
      <3>. QED  BY <1>0, <2>1, <3>1 DEF Judged, ClaimsOK, TypeOK
    <2>. QED  BY <2>2, <2>3
  <1>7. ASSUME NEW r \in Requests, VerifySign(r) PROVE ClaimsIInv'
    <2>1. \A t \in tokens' : ClaimsOK(t.claims)
      BY <1>7 DEF VerifySign
    <2>2. UNCHANGED <<orgs, member>> /\ End(r)
      BY <1>7 DEF VerifySign
    <2>. QED  BY <1>0, <2>1, <2>2 DEF End, Free, ClaimsOK, TypeOK
  <1>8. ASSUME NEW r \in Requests, RemoveWrite(r) PROVE ClaimsIInv'
    BY <1>0, <1>8 DEF RemoveWrite, End, Free, ClaimsOK, TypeOK
  <1>9. ASSUME NEW r \in Requests, Continue(r) \/ Abort(r) PROVE ClaimsIInv'
    BY <1>5, <1>6, <1>7, <1>8, <1>9
    DEF Continue, Abort, CodeConsume, CodeInsert, VerifyExhaust, VerifyCount, VerifyConsume
  <1>10. ASSUME NEW c \in DOMAIN codes, Expire(c) PROVE ClaimsIInv'
    BY <1>10 DEF Expire, requests, ClaimsOK
  <1>. QED  BY <1>1, <1>2, <1>3, <1>4, <1>9, <1>10 DEF Next

\* However joining and leaving an organization interleave with signing in, a row
\* or a token of an admin names an organization that exists, and that of a visitor
\* or superadmin none (organizations.controller.ts:83, schema.prisma:99).
THEOREM RolesAgree == Spec => []AdminHasOrg
  <1>1. Init => ClaimsIInv
    <2> SUFFICES ASSUME Init PROVE ClaimsIInv
      OBVIOUS
    <2>. QED  BY NewClaims DEF Init, ClaimsIInv, NoJob
  <1>2. ClaimsIInv => AdminHasOrg
    BY DEF ClaimsIInv, ClaimsOK, AdminHasOrg
  <1>. QED  BY InitTyped, NextTyped, NextClaims, <1>1, <1>2, PTL DEF Spec

RowRelied ==
    \A r \in Requests :
        job[r].claims # None /\ r \notin stale => job[r].claims = member[job[r].user]

LEMMA NextRelied == Typed /\ RowRelied /\ [Next]_vars => RowRelied'
  <1> SUFFICES ASSUME Typed, RowRelied, [Next]_vars PROVE RowRelied'
    OBVIOUS
  <1>0. TypeOK /\ NoJob.claims = None
    BY DEF Typed, NoJob
  <1>1. CASE UNCHANGED <<member, job, stale>>
    BY <1>1 DEF RowRelied
  <1>2. ASSUME NEW u \in Users, NEW claims, SetMember(u, claims) PROVE RowRelied'
    BY <1>0, <1>2 DEF SetMember, Relying, RowRelied, TypeOK, Jobs
  <1>3. ASSUME NEW r \in Requests, NEW u \in Users, Start(r, u) PROVE RowRelied'
    <2>1. PICK claims \in {None, member[u]} :
            job' = [job EXCEPT ![r] = [user |-> u, claims |-> claims, code |-> 0]]
      BY <1>0, <1>3, StartReads
    <2>2. /\ UNCHANGED stale
          /\ member' = member \/ (member[u] = None /\ member' = [member EXCEPT ![u] = Visitor])
      BY <1>0, <1>3, StartReads
    <2> SUFFICES ASSUME NEW s \in Requests, job'[s].claims # None, s \notin stale
                 PROVE  job'[s].claims = member'[job'[s].user]
      BY <2>2 DEF RowRelied
    <2>3. CASE s = r
      BY <1>0, <2>1, <2>2, <2>3 DEF TypeOK
    <2>4. CASE s # r
      <3>1. job'[s] = job[s] /\ job[s].claims = member[job[s].user]
        BY <1>0, <2>1, <2>4 DEF RowRelied, TypeOK
      <3>2. job[s].user \in Users /\ member[job[s].user] # None
        BY <1>0, <2>1, <2>4, <3>1 DEF Typed, JobsOK, TypeOK
      <3>. QED  BY <1>0, <2>2, <3>1, <3>2 DEF TypeOK
    <2>. QED  BY <2>3, <2>4
  <1>4. ASSUME NEW r \in Requests, End(r) \/ (\E label \in Labels : Goto(r, label)),
               UNCHANGED member
        PROVE  RowRelied'
    BY <1>0, <1>4 DEF End, Free, Goto, RowRelied, TypeOK
  <1>5. ASSUME NEW r \in Requests, NEW matches \in BOOLEAN, VerifyFind(r, matches)
        PROVE  RowRelied'
    <2>1. UNCHANGED member
      BY <1>5 DEF VerifyFind
    <2>2. CASE End(r)
      BY <1>4, <2>1, <2>2
    <2>3. CASE ~End(r)
      <3>1. PICK c \in Unconsumed(job[r].user), next \in CodeLabels \ {"verify.sign"},
                 claims \in {job[r].claims, None} : Judged(r, c, next, claims)
        BY <1>5, <2>3, FindJudges
      <3>. QED  BY <1>0, <2>1, <3>1 DEF Judged, RowRelied, TypeOK
    <2>. QED  BY <2>2, <2>3
  <1>6. ASSUME NEW r \in Requests, RemoveWrite(r) PROVE RowRelied'
    BY <1>0, <1>6 DEF RemoveWrite, Free, Relying, RowRelied, TypeOK, Jobs
  <1>7. ASSUME NEW r \in Requests, Continue(r) \/ Abort(r) PROVE RowRelied'
    BY <1>4, <1>5, <1>6, <1>7
    DEF Continue, Abort, CodeConsume, CodeInsert, VerifyExhaust, VerifyCount, VerifyConsume,
        VerifySign, Labels, AuthLabels
  <1>8. \/ UNCHANGED <<member, job, stale>>
        \/ \E u \in Users, g \in Organizations :
               SetMember(u, Admin(g)) \/ SetMember(u, Artist(g))
        \/ \E r \in Requests : Continue(r) \/ Abort(r) \/ \E u \in Users : Start(r, u)
    BY DEF Next, Expire, CreateOrganization, AddAdmin, AddMyArtist, requests, vars
  <1>. QED  BY <1>1, <1>2, <1>3, <1>7, <1>8

\* What a step does to the tokens and the row of one user.
UserOnTheRow(u) ==
    /\ \A t \in tokens' \ tokens :
          t.user = u /\ t.claims # member[u] =>
              \E r \in stale : job[r].user = u /\ At(r, "verify.sign")
    /\ member[u] \notin {None, Visitor} /\ member'[u] = Visitor =>
          \E r \in Requests :
              /\ job[r].user = u /\ At(r, "remove.write")
              /\ member[u].org = job[r].claims.org \/ r \in stale

LEMMA StepOnTheRow ==
  ASSUME Typed, RowRelied, [Next]_vars, NEW u \in Users
  PROVE  UserOnTheRow(u)
  <1>0. TypeOK /\ JobsOK
    BY DEF Typed
  <1>1. ASSUME NEW t \in tokens' \ tokens, t.user = u, t.claims # member[u]
        PROVE  \E r \in stale : job[r].user = u /\ At(r, "verify.sign")
    <2>1. PICK r \in Requests : VerifySign(r)
      BY <1>1
      DEF Next, Start, Continue, Abort, StartRequestCode, StartVerify, RemoveAdmin,
          RemoveMyArtist, RemoveFromOrganization, RemoveWrite, CodeConsume, CodeInsert,
          VerifyFind, VerifyExhaust, VerifyCount, VerifyConsume, Expire,
          CreateOrganization, AddAdmin, AddMyArtist, SetMember, vars
    <2>2. t = [user |-> job[r].user, claims |-> job[r].claims] /\ At(r, "verify.sign")
      BY <1>1, <2>1 DEF VerifySign
    <2>3. job[r].claims # None
      BY <1>0, <2>2, NoneAssumption DEF JobsOK, At
    <2>. QED  BY <1>1, <2>2, <2>3 DEF RowRelied
  <1>2. ASSUME member[u] \notin {None, Visitor}, member'[u] = Visitor
        PROVE  \E r \in Requests :
                  /\ job[r].user = u /\ At(r, "remove.write")
                  /\ member[u].org = job[r].claims.org \/ r \in stale
    <2>1. ASSUME NEW v \in Users, NEW r \in Requests, Start(r, v) PROVE FALSE
      BY <1>0, <1>2, <2>1, StartReads DEF TypeOK
    <2>2. ASSUME NEW v \in Users, NEW g \in Organizations,
                 SetMember(v, Admin(g)) \/ SetMember(v, Artist(g))
          PROVE  FALSE
      BY <1>0, <1>2, <2>2 DEF SetMember, Admin, Artist, Visitor, TypeOK
    <2>3. PICK r \in Requests : RemoveWrite(r)
      BY <1>2, <2>1, <2>2
      DEF Next, Continue, Abort, VerifySign, CodeConsume, CodeInsert, VerifyFind,
          VerifyExhaust, VerifyCount, VerifyConsume, Expire, CreateOrganization, AddAdmin,
          AddMyArtist, vars
    <2>4. job[r].user = u /\ At(r, "remove.write")
      BY <1>0, <1>2, <2>3 DEF RemoveWrite, TypeOK
    <2>5. job[r].claims # None
      BY <1>0, <2>4, NoneAssumption DEF JobsOK, At
    <2>. QED  BY <2>4, <2>5 DEF RowRelied
  <1>. QED  BY <1>1, <1>2 DEF UserOnTheRow

\* Whatever overlaps, a token is signed with what the user's row says, and a
\* removal ends the membership it was asked to end, except by a request whose
\* user's row changed after it was read (auth.service.ts:90, users.service.ts:61).
THEOREM RowsRespected == Spec => ActsOnTheRow
  <1> DEFINE Kept == \A u \in Users : UserOnTheRow(u)
  <1>1. Init => RowRelied
    BY DEF Init, RowRelied, NoJob
  <1>2. Typed /\ RowRelied /\ [Next]_vars => [Kept]_vars
    BY StepOnTheRow
  <1>3. Kept => \A u \in Users :
          /\ \A t \in tokens' \ tokens :
                t.user = u /\ t.claims # member[u] =>
                    \E r \in stale : job[r].user = u /\ At(r, "verify.sign")
          /\ member[u] \notin {None, Visitor} /\ member'[u] = Visitor =>
                \E r \in Requests :
                    /\ job[r].user = u /\ At(r, "remove.write")
                    /\ member[u].org = job[r].claims.org \/ r \in stale
    BY DEF UserOnTheRow
  <1>. QED  BY InitTyped, NextTyped, NextRelied, <1>1, <1>2, <1>3, PTL DEF Spec, ActsOnTheRow

(***************************************************************************)
(* Counting.  A step changes the label of at most one request, so a set of *)
(* requests gains or loses at most that one.                               *)
(***************************************************************************)

Inserting(u) == {r \in Requests : pc[r] = "code.insert" /\ job[r].user = u}
Buying(c) ==
    {r \in Requests : pc[r] \in {"verify.consume", "verify.sign"} /\ job[r].code = c}
Counting(c) == {r \in Requests : pc[r] = "verify.count" /\ job[r].code = c}

\* A step of request r.
OthersStay(r) ==
    \A s \in Requests \ {r} : pc'[s] = pc[s] /\ job'[s] = job[s]

LEMMA StepsOfOne ==
  ASSUME Typed, NEW r \in Requests,
         Continue(r) \/ Abort(r) \/ \E u \in Users : Start(r, u)
  PROVE  OthersStay(r)
  <1>. USE DEF Typed, OthersStay
  <1>1. ASSUME NEW u \in Users, Start(r, u) PROVE OthersStay(r)
    BY <1>1
    DEF Start, StartRequestCode, StartVerify, RemoveAdmin, RemoveMyArtist,
        RemoveFromOrganization, Begin, TypeOK
  <1>2. CASE Free(r) \/ End(r) \/ \E label \in Labels : Goto(r, label)
    BY <1>2 DEF End, Free, Goto, TypeOK
  <1>3. ASSUME NEW matches \in BOOLEAN, VerifyFind(r, matches) PROVE OthersStay(r)
    <2>1. CASE ~(End(r) /\ UNCHANGED tried)
      <3>1. PICK c \in Unconsumed(job[r].user), next \in CodeLabels \ {"verify.sign"},
                 claims \in {job[r].claims, None} : Judged(r, c, next, claims)
        BY <1>3, <2>1, FindJudges
      <3>. QED  BY <3>1 DEF Judged, TypeOK
    <2>. QED  BY <1>2, <2>1
  <1>. QED
    BY <1>1, <1>2, <1>3
    DEF Continue, Abort, CodeConsume, CodeInsert, VerifyExhaust, VerifyCount,
        VerifyConsume, VerifySign, RemoveWrite, Labels, AuthLabels

LEMMA PeakGrows ==
  ASSUME Typed, [Next]_vars, NEW u \in Users
  PROVE  /\ peak'[u] >= peak[u] /\ peak'[u] \in Nat /\ peak[u] \in Nat
         /\ aborts' >= aborts /\ aborts' \in Nat /\ aborts \in Nat
  <1>1. TypeOK /\ TypeOK' /\ Cardinality(Requests) \in Nat
    BY NextTyped, RequestSets DEF Typed
  <1>2. /\ peak'[u] \in Nat /\ peak[u] \in Nat
        /\ aborts' \in Nat /\ aborts \in Nat
    BY <1>1, AccountsAssumption DEF TypeOK
  <1>3. ASSUME NEW r \in Requests, NEW label \in Labels, NEW v \in Users,
               NEW claims, Begin(r, label, v, claims)
        PROVE  peak'[u] >= peak[u]
    <2>1. Cardinality(InFlight(v)) \in Nat
      BY RequestSets DEF InFlight
    <2>. QED  BY <1>1, <1>2, <1>3, <2>1 DEF Begin, TypeOK
  <1>4. ASSUME NEW r \in Requests, NEW v \in Users, Start(r, v)
        PROVE  peak'[u] >= peak[u] /\ aborts' = aborts
    BY <1>3, <1>4
    DEF Start, StartRequestCode, StartVerify, RemoveAdmin, RemoveMyArtist,
        RemoveFromOrganization, Labels, AuthLabels
  <1>5. ASSUME NEW r \in Requests, Continue(r) PROVE peak' = peak /\ aborts' = aborts
    BY <1>5
    DEF Continue, CodeConsume, CodeInsert, VerifyFind, VerifyExhaust, VerifyCount,
        VerifyConsume, VerifySign, RemoveWrite, history
  <1>6. ASSUME NEW r \in Requests, Abort(r) PROVE peak' = peak /\ aborts' = aborts + 1
    BY <1>6 DEF Abort, history
  <1>7. CASE \/ \E c \in DOMAIN codes : Expire(c)
             \/ \E g \in Organizations :
                  \/ CreateOrganization(g)
                  \/ \E v \in Users : AddAdmin(v, g) \/ AddMyArtist(v, g)
             \/ UNCHANGED vars
    <2>1. peak' = peak /\ aborts' = aborts
      BY <1>7
      DEF Expire, CreateOrganization, AddAdmin, AddMyArtist, SetMember, history, vars
    <2>. QED  BY <1>2, <2>1
  <1>. QED  BY <1>2, <1>4, <1>5, <1>6, <1>7 DEF Next

(***************************************************************************)
(* NewestOnly.  A code about to be inserted counts like one in use: both   *)
(* were made room for by consuming all codes before, while their requests  *)
(* were in flight.                                                         *)
(***************************************************************************)

UsableOK ==
    \A u \in Users : Cardinality(Unconsumed(u)) + Cardinality(Inserting(u)) <= peak[u]

LEMMA UnconsumedFinite ==
  ASSUME TypeOK, NEW u \in Users
  PROVE  IsFiniteSet(Unconsumed(u)) /\ Cardinality(Unconsumed(u)) \in Nat
  <1>1. Unconsumed(u) \in SUBSET (1 .. Len(codes)) /\ Len(codes) \in Int
    BY CodesDomain DEF Unconsumed
  <1>2. IsFiniteSet(1 .. Len(codes))
    BY <1>1, FS_Interval
  <1>. QED  BY <1>1, <1>2, FS_Subset, FS_CardinalityType

\* Steps that neither bring a code in nor prepare to.
LEMMA UsableShrinks ==
  ASSUME Typed, UsableOK, [Next]_vars, NEW u \in Users,
         Unconsumed(u)' \subseteq Unconsumed(u), Inserting(u)' \subseteq Inserting(u)
  PROVE  Cardinality(Unconsumed(u)') + Cardinality(Inserting(u)') <= peak'[u]
  <1>1. /\ Cardinality(Unconsumed(u)') <= Cardinality(Unconsumed(u))
        /\ Cardinality(Unconsumed(u)') \in Nat /\ Cardinality(Unconsumed(u)) \in Nat
    BY UnconsumedFinite, FS_Subset, FS_CardinalityType DEF Typed
  <1>2. /\ Cardinality(Inserting(u)') <= Cardinality(Inserting(u))
        /\ Cardinality(Inserting(u)') \in Nat /\ Cardinality(Inserting(u)) \in Nat
    <2>1. Inserting(u) \in SUBSET Requests /\ Inserting(u)' \in SUBSET Inserting(u)
      BY DEF Inserting
    <2>. QED  BY <2>1, RequestSets
  <1>. QED  BY <1>1, <1>2, PeakGrows DEF UsableOK

LEMMA NextUsable == Typed /\ UsableOK /\ [Next]_vars => UsableOK'
  <1> SUFFICES ASSUME Typed, UsableOK, [Next]_vars, NEW u \in Users
               PROVE  Cardinality(Unconsumed(u)') + Cardinality(Inserting(u)') <= peak'[u]
    BY DEF UsableOK
  <1>0. TypeOK /\ Typed'
    BY NextTyped DEF Typed
  <1>1. CASE UNCHANGED <<codes, pc, job>>
    BY <1>1, UsableShrinks DEF Unconsumed, Inserting
  <1>2. ASSUME NEW r \in Requests, OthersStay(r), pc'[r] # "code.insert"
        PROVE  Inserting(u)' \subseteq Inserting(u)
    BY <1>2 DEF OthersStay, Inserting
  <1>3. ASSUME NEW r \in Requests, OthersStay(r), pc'[r] # "code.insert", UNCHANGED codes
        PROVE  Cardinality(Unconsumed(u)') + Cardinality(Inserting(u)') <= peak'[u]
    BY <1>2, <1>3, UsableShrinks DEF Unconsumed
  <1>4. ASSUME NEW r \in Requests, NEW v \in Users, Start(r, v)
        PROVE  Cardinality(Unconsumed(u)') + Cardinality(Inserting(u)') <= peak'[u]
    <2>1. pc'[r] # "code.insert" /\ UNCHANGED codes
      BY <1>0, <1>4
      DEF Start, StartRequestCode, StartVerify, RemoveAdmin, RemoveMyArtist,
          RemoveFromOrganization, Begin, TypeOK
    <2>. QED  BY <1>3, <1>4, <2>1, StepsOfOne
  <1>5. ASSUME NEW r \in Requests, Continue(r) \/ Abort(r)
        PROVE  Cardinality(Unconsumed(u)') + Cardinality(Inserting(u)') <= peak'[u]
    <2>0. OthersStay(r)
      BY <1>5, StepsOfOne
    <2>1. CASE CodeConsume(r)
      <3>1. CASE u = job[r].user
        <4>1. Unconsumed(u)' = {}
          BY <1>0, <2>1, <3>1, CodesDomain DEF CodeConsume, Unconsumed, CodeRows
        <4>2. Cardinality({}) = 0
          BY FS_EmptySet
        <4>3. /\ Inserting(u)' \in SUBSET (InFlight(u)')
              /\ InFlight(u)' \in SUBSET Requests
          BY DEF Inserting, InFlight, AuthLabels
        <4>4. /\ Cardinality(Inserting(u)') <= Cardinality(InFlight(u)')
              /\ Cardinality(Inserting(u)') \in Nat /\ Cardinality(InFlight(u)') \in Nat
          BY <4>3, RequestSets
        <4>5. Cardinality(InFlight(u)') <= peak'[u]
          BY <1>0 DEF Typed, PeakOK
        <4>. QED  BY <4>1, <4>2, <4>4, <4>5, PeakGrows
      <3>2. CASE u # job[r].user
        <4>1. Unconsumed(u)' \subseteq Unconsumed(u)
          BY <1>0, <2>1, CodesDomain DEF CodeConsume, Unconsumed, CodeRows
        <4>2. Inserting(u)' \subseteq Inserting(u)
          BY <2>0, <2>1, <3>2 DEF CodeConsume, Goto, OthersStay, Inserting
        <4>. QED  BY <4>1, <4>2, UsableShrinks
      <3>. QED  BY <3>1, <3>2
    <2>2. CASE CodeInsert(r)
      <3>1. /\ Len(codes) \in Nat /\ DOMAIN codes = 1 .. Len(codes)
            /\ DOMAIN codes' = 1 .. (Len(codes) + 1)
            /\ codes'[Len(codes) + 1].user = job[r].user
            /\ \A c \in DOMAIN codes : codes'[c] = codes[c]
        <4> DEFINE row == [user |-> job[r].user, consumed |-> FALSE,
                           expired |-> FALSE, attempts |-> 0]
        <4>1. row \in CodeRows /\ codes' = Append(codes, row) /\ row.user = job[r].user
          BY <2>2 DEF CodeInsert, CodeRows, JobsOK, At, Typed
        <4> HIDE DEF row
        <4>. QED  BY <1>0, <4>1, CodesDomain, AppendProperties, LenProperties DEF TypeOK
      <3>2. CASE u = job[r].user
        <4>1. Unconsumed(u)' \subseteq Unconsumed(u) \cup {Len(codes) + 1}
          BY <3>1 DEF Unconsumed
        <4>2. /\ Cardinality(Unconsumed(u)') <= Cardinality(Unconsumed(u)) + 1
              /\ Cardinality(Unconsumed(u)') \in Nat /\ Cardinality(Unconsumed(u)) \in Nat
          <5>1. IsFiniteSet(Unconsumed(u)) /\ Cardinality(Unconsumed(u)) \in Nat
            BY <1>0, UnconsumedFinite
          <5>2. /\ IsFiniteSet(Unconsumed(u) \cup {Len(codes) + 1})
                /\ Cardinality(Unconsumed(u) \cup {Len(codes) + 1}) \in Nat
                /\ Cardinality(Unconsumed(u) \cup {Len(codes) + 1})
                      <= Cardinality(Unconsumed(u)) + 1
            BY <5>1, GrowByOne
          <5>3. /\ Cardinality(Unconsumed(u)')
                      <= Cardinality(Unconsumed(u) \cup {Len(codes) + 1})
                /\ IsFiniteSet(Unconsumed(u)')
            BY <4>1, <5>2, FS_Subset
          <5>4. Cardinality(Unconsumed(u)') \in Nat
            BY <5>3, FS_CardinalityType
          <5>. QED  BY <5>1, <5>2, <5>3, <5>4
        <4>3. /\ r \in Inserting(u) /\ Inserting(u) \in SUBSET Requests
              /\ Inserting(u)' \in SUBSET (Inserting(u) \ {r})
          BY <1>0, <2>0, <2>2, <3>2
          DEF CodeInsert, At, End, Free, OthersStay, Inserting, TypeOK
        <4>4. /\ Cardinality(Inserting(u)') <= Cardinality(Inserting(u)) - 1
              /\ Cardinality(Inserting(u)') \in Nat /\ Cardinality(Inserting(u)) \in Nat
          <5>1. /\ Cardinality(Inserting(u) \ {r}) = Cardinality(Inserting(u)) - 1
                /\ Cardinality(Inserting(u)) \in Nat
            BY <4>3, RequestSets
          <5>2. /\ Cardinality(Inserting(u)') <= Cardinality(Inserting(u) \ {r})
                /\ Cardinality(Inserting(u)') \in Nat
            BY <4>3, RequestSets
          <5>. QED  BY <5>1, <5>2
        <4>. QED  BY <4>2, <4>4, PeakGrows DEF UsableOK
      <3>3. CASE u # job[r].user
        <4>1. Unconsumed(u)' \subseteq Unconsumed(u)
          BY <3>1, <3>3 DEF Unconsumed
        <4>2. Inserting(u)' \subseteq Inserting(u)
          BY <1>0, <1>2, <2>0, <2>2 DEF CodeInsert, End, Free, TypeOK
        <4>. QED  BY <4>1, <4>2, UsableShrinks
      <3>. QED  BY <3>2, <3>3
    <2>3. ASSUME NEW matches \in BOOLEAN, VerifyFind(r, matches)
          PROVE  pc'[r] # "code.insert" /\ UNCHANGED codes
      BY <1>0, <2>3, FindJudges DEF VerifyFind, End, Free, Judged, CodeLabels, TypeOK, Typed
    <2>4. CASE VerifySign(r) \/ RemoveWrite(r) \/ Abort(r)
      BY <1>0, <1>3, <2>0, <2>4 DEF VerifySign, RemoveWrite, Abort, End, Free, TypeOK
    <2>5. CASE VerifyExhaust(r) \/ VerifyCount(r) \/ VerifyConsume(r)
      <3>1. Unconsumed(u)' \subseteq Unconsumed(u)
        BY <1>0, <2>5, CodesDomain
        DEF VerifyExhaust, VerifyCount, VerifyConsume, Consume, Unconsumed, CodeRows
      <3>2. pc'[r] # "code.insert"
        BY <1>0, <2>5 DEF VerifyExhaust, VerifyCount, VerifyConsume, Goto, End, Free, TypeOK
      <3>. QED  BY <1>2, <2>0, <3>1, <3>2, UsableShrinks
    <2>. QED  BY <1>3, <1>5, <2>0, <2>1, <2>2, <2>3, <2>4, <2>5 DEF Continue
  <1>6. ASSUME NEW c \in DOMAIN codes, Expire(c)
        PROVE  Cardinality(Unconsumed(u)') + Cardinality(Inserting(u)') <= peak'[u]
    <2>1. Unconsumed(u)' \subseteq Unconsumed(u)
      BY <1>0, <1>6, CodesDomain DEF Expire, Unconsumed, CodeRows
    <2>2. Inserting(u)' \subseteq Inserting(u)
      BY <1>6 DEF Expire, requests, Inserting
    <2>. QED  BY <2>1, <2>2, UsableShrinks
  <1>. QED
    BY <1>1, <1>4, <1>5, <1>6
    DEF Next, CreateOrganization, AddAdmin, AddMyArtist, SetMember, requests, vars

LEMMA InitUsable == Init => UsableOK
  <1> SUFFICES ASSUME Init, NEW u \in Users
               PROVE  Cardinality(Unconsumed(u)) + Cardinality(Inserting(u)) <= peak[u]
    BY DEF UsableOK
  <1>1. Unconsumed(u) = {} /\ Inserting(u) = {}
    BY DEF Init, Unconsumed, Inserting
  <1>2. peak[u] = 0
    BY DEF Init
  <1>3. Cardinality({}) = 0
    BY FS_EmptySet
  <1>. QED  BY <1>1, <1>2, <1>3

\* A new code shuts out the ones before it (AuthService.requestCode), up to as
\* many as requests of the user were in flight together.
THEOREM NewestCodeOnly == Spec => []NewestOnly
  <1>1. Typed /\ UsableOK => NewestOnly
    <2> SUFFICES ASSUME Typed, UsableOK, NEW u \in Users
                 PROVE  Cardinality(Unconsumed(u)) <= peak[u]
      BY DEF NewestOnly
    <2>1. Cardinality(Unconsumed(u)) \in Nat
      BY UnconsumedFinite DEF Typed
    <2>2. Cardinality(Inserting(u)) \in Nat
      BY RequestSets DEF Inserting
    <2>3. peak[u] \in Nat
      BY RequestSets DEF Typed, TypeOK
    <2>. QED  BY <2>1, <2>2, <2>3 DEF UsableOK
  <1>. QED  BY InitTyped, NextTyped, InitUsable, NextUsable, <1>1, PTL DEF Spec

(***************************************************************************)
(* What a step does to the codes: rows are only added, by CodeInsert, and  *)
(* of a row only consumed and attempts change.                             *)
(***************************************************************************)

LEMMA CodesAfter ==
  ASSUME Typed, [Next]_vars, NEW c \in DOMAIN codes
  PROVE  /\ c \in DOMAIN codes' /\ codes'[c].user = codes[c].user
         /\ codes[c].consumed => codes'[c].consumed
         /\ \/ codes'[c].attempts = codes[c].attempts
            \/ \E r \in Requests : /\ VerifyCount(r) /\ job[r].code = c
                                   /\ codes'[c].attempts = codes[c].attempts + 1
  <1>. USE CodesDomain DEF Typed
  <1>1. codes[c] \in CodeRows
    OBVIOUS
  <1>2. CASE UNCHANGED codes
    BY <1>2
  <1>3. ASSUME NEW r \in Requests, CodeConsume(r)
        PROVE  /\ c \in DOMAIN codes' /\ codes'[c].user = codes[c].user
               /\ codes[c].consumed => codes'[c].consumed
               /\ codes'[c].attempts = codes[c].attempts
    BY <1>1, <1>3 DEF CodeConsume, CodeRows
  <1>4. ASSUME NEW r \in Requests, CodeInsert(r)
        PROVE  c \in DOMAIN codes' /\ codes'[c] = codes[c]
    <2> DEFINE row == [user |-> job[r].user, consumed |-> FALSE,
                       expired |-> FALSE, attempts |-> 0]
    <2>1. row \in CodeRows /\ codes' = Append(codes, row)
      BY <1>4 DEF CodeInsert, CodeRows, JobsOK, At
    <2> HIDE DEF row
    <2>. QED  BY <2>1, AppendProperties, LenProperties DEF TypeOK
  <1>5. ASSUME NEW r \in Requests, VerifyExhaust(r) \/ VerifyConsume(r)
        PROVE  /\ c \in DOMAIN codes' /\ codes'[c].user = codes[c].user
               /\ codes[c].consumed => codes'[c].consumed
               /\ codes'[c].attempts = codes[c].attempts
    BY <1>1, <1>5 DEF VerifyExhaust, VerifyConsume, Consume, CodeRows
  <1>6. ASSUME NEW r \in Requests, VerifyCount(r)
        PROVE  /\ c \in DOMAIN codes' /\ codes'[c].user = codes[c].user
               /\ codes[c].consumed => codes'[c].consumed
               /\ codes'[c].attempts = IF job[r].code = c THEN codes[c].attempts + 1
                                       ELSE codes[c].attempts
    BY <1>1, <1>6 DEF VerifyCount, CodeRows
  <1>7. ASSUME NEW d \in DOMAIN codes, Expire(d)
        PROVE  /\ c \in DOMAIN codes' /\ codes'[c].user = codes[c].user
               /\ codes[c].consumed => codes'[c].consumed
               /\ codes'[c].attempts = codes[c].attempts
    BY <1>1, <1>7 DEF Expire, CodeRows
  <1>8. \/ UNCHANGED codes
        \/ \E d \in DOMAIN codes : Expire(d)
        \/ \E r \in Requests :
              \/ CodeConsume(r) \/ CodeInsert(r) \/ VerifyCount(r)
              \/ VerifyExhaust(r) \/ VerifyConsume(r)
    BY DEF Next, Start, Continue, Abort, StartRequestCode, StartVerify, RemoveAdmin,
           RemoveMyArtist, RemoveFromOrganization, VerifyFind, VerifySign, RemoveWrite,
           CreateOrganization, AddAdmin, AddMyArtist, SetMember, vars
  <1>. QED  BY <1>2, <1>3, <1>4, <1>5, <1>6, <1>7, <1>8

LEMMA NewCode ==
  ASSUME Typed, [Next]_vars, NEW c \in DOMAIN codes' \ DOMAIN codes
  PROVE  /\ c \in 1 .. MaxCodes
         /\ \E r \in Requests : /\ CodeInsert(r) /\ ~codes'[c].consumed
                                /\ codes'[c].user = job[r].user
  <1>. USE CodesDomain DEF Typed
  <1>1. ASSUME NEW r \in Requests, CodeInsert(r)
        PROVE  /\ ~codes'[c].consumed /\ codes'[c].user = job[r].user
               /\ c \in 1 .. MaxCodes
    <2> DEFINE row == [user |-> job[r].user, consumed |-> FALSE,
                       expired |-> FALSE, attempts |-> 0]
    <2>1. /\ row \in CodeRows /\ codes' = Append(codes, row)
          /\ ~row.consumed /\ row.user = job[r].user
      BY <1>1 DEF CodeInsert, CodeRows, JobsOK, At
    <2> HIDE DEF row
    <2>2. c = Len(codes) + 1 /\ codes'[c] = row
      BY <2>1, AppendProperties, LenProperties DEF TypeOK
    <2>3. c \in 1 .. MaxCodes
      BY <1>1, <2>2, AccountsAssumption DEF CodeInsert
    <2>. QED  BY <2>1, <2>2, <2>3
  <1>2. \/ DOMAIN codes' = DOMAIN codes
        \/ \E r \in Requests : CodeInsert(r)
    BY DEF Next, Start, Continue, Abort, StartRequestCode, StartVerify, RemoveAdmin,
           RemoveMyArtist, RemoveFromOrganization, VerifyFind, VerifySign, RemoveWrite,
           CodeConsume, VerifyExhaust, VerifyCount, VerifyConsume, Consume, Expire,
           CreateOrganization, AddAdmin, AddMyArtist, SetMember, vars
  <1>. QED  BY <1>1, <1>2

(***************************************************************************)
(* OneTokenPerCode.  A verification that found a code unconsumed will buy   *)
(* a token, and until it has it is in flight; once a token was signed for   *)
(* the code none finds it any more.                                        *)
(***************************************************************************)

Bought(c) ==
    /\ issued[c] + Cardinality(Buying(c)) <= peak[codes[c].user]
    /\ ~codes[c].consumed =>
          /\ issued[c] = 0
          /\ \A r \in Buying(c) : pc[r] # "verify.sign"

BoughtOK ==
    /\ \A c \in DOMAIN codes : Bought(c)
    /\ \A c \in (1 .. MaxCodes) \ DOMAIN codes : issued[c] = 0

LEMMA BuyingNat ==
  ASSUME NEW c
  PROVE  /\ Buying(c) \in SUBSET Requests /\ Buying(c)' \in SUBSET Requests
         /\ Cardinality(Buying(c)) \in Nat /\ Cardinality(Buying(c)') \in Nat
  <1>1. Buying(c) \in SUBSET Requests /\ Buying(c)' \in SUBSET Requests
    BY DEF Buying
  <1>. QED  BY <1>1, RequestSets

\* Steps that sell nothing and bring no buyer.
LEMMA BoughtStays ==
  ASSUME Typed, [Next]_vars, NEW c \in DOMAIN codes, Bought(c), issued'[c] = issued[c],
         \A s \in Buying(c)' : /\ s \in Buying(c)
                               /\ pc'[s] = pc[s] \/ codes'[c].consumed
  PROVE  Bought(c)'
  <1>1. c \in 1 .. MaxCodes /\ codes[c].user \in Users /\ issued[c] \in Nat
    BY CodeIndex DEF Typed
  <1>2. Cardinality(Buying(c)') <= Cardinality(Buying(c))
    BY BuyingNat, RequestSets
  <1>3. peak'[codes[c].user] >= peak[codes[c].user]
        /\ peak'[codes[c].user] \in Nat /\ peak[codes[c].user] \in Nat
    BY <1>1, PeakGrows
  <1>. QED  BY <1>1, <1>2, <1>3, BuyingNat, CodesAfter DEF Bought

LEMMA NextBought == Typed /\ BoughtOK /\ [Next]_vars => BoughtOK'
  <1> SUFFICES ASSUME Typed, BoughtOK, [Next]_vars PROVE BoughtOK'
    OBVIOUS
  <1>0. TypeOK /\ JobsOK /\ Typed'
    BY NextTyped DEF Typed
  <1>1. ASSUME NEW c \in DOMAIN codes, UNCHANGED <<issued, pc, job>> PROVE Bought(c)'
    BY <1>1, BoughtStays DEF BoughtOK, Buying
  <1>2. ASSUME NEW c \in DOMAIN codes, NEW r \in Requests, OthersStay(r),
               r \notin Buying(c)', issued'[c] = issued[c]
        PROVE  Bought(c)'
    <2>1. \A s \in Buying(c)' : s \in Buying(c) /\ pc'[s] = pc[s]
      BY <1>2 DEF OthersStay, Buying
    <2>. QED  BY <1>2, <2>1, BoughtStays DEF BoughtOK
  <1>3. ASSUME NEW c \in DOMAIN codes, NEW r \in Requests, NEW u \in Users, Start(r, u)
        PROVE  Bought(c)'
    <2>1. r \notin Buying(c)' /\ UNCHANGED issued
      BY <1>0, <1>3
      DEF Start, StartRequestCode, StartVerify, RemoveAdmin, RemoveMyArtist,
          RemoveFromOrganization, Begin, Buying, TypeOK
    <2>. QED  BY <1>2, <1>3, <2>1, StepsOfOne
  <1>4. ASSUME NEW c \in DOMAIN codes, NEW r \in Requests, NEW matches \in BOOLEAN,
               VerifyFind(r, matches)
        PROVE  Bought(c)'
    <2>1. OthersStay(r) /\ UNCHANGED <<issued, codes>>
      BY <1>4, StepsOfOne DEF Continue, VerifyFind
    <2>2. CASE r \notin Buying(c)'
      BY <1>2, <2>1, <2>2
    <2>3. CASE r \in Buying(c)'
      <3>1. ~(End(r) /\ UNCHANGED tried)
        BY <1>0, <2>3 DEF End, Free, Buying, TypeOK
      <3>2. PICK d \in Unconsumed(job[r].user), next \in CodeLabels \ {"verify.sign"},
                 claims \in {job[r].claims, None} : Judged(r, d, next, claims)
        BY <1>4, <3>1, FindJudges
      <3>3. c = d /\ pc'[r] # "verify.sign"
        BY <1>0, <2>3, <3>2 DEF Judged, Buying, TypeOK
      <3>4. codes[c].user = job[r].user /\ ~codes[c].consumed /\ job[r].user \in Users
        BY <1>0, <1>4, <3>2, <3>3 DEF Unconsumed, VerifyFind, At, JobsOK
      <3>5. issued'[c] = 0
        BY <2>1, <3>4 DEF BoughtOK, Bought
      <3>6. \A s \in Buying(c)' : pc'[s] # "verify.sign"
        BY <2>1, <3>3, <3>4 DEF BoughtOK, Bought, Buying, OthersStay
      <3>7. Cardinality(Buying(c)') <= peak'[codes'[c].user]
        <4>0. PICK u \in Users : u = job[r].user
          BY <3>4
        <4>1. /\ Buying(c)' \in SUBSET (InFlight(u)')
              /\ InFlight(u)' \in SUBSET Requests
          <5>1. \A s \in Buying(c)' : job'[s].user = u
            BY <1>0, <2>1, <3>4, <4>0 DEF Buying, JobsOK, Typed, CodeLabels
          <5>. QED  BY <5>1 DEF Buying, InFlight, AuthLabels
        <4>2. Cardinality(Buying(c)') <= Cardinality(InFlight(u)')
              /\ Cardinality(InFlight(u)') \in Nat
          BY <4>1, RequestSets
        <4>3. Cardinality(InFlight(u)') <= peak'[u]
          BY <1>0 DEF Typed, PeakOK
        <4>4. codes'[c].user = u /\ peak'[u] \in Nat
          BY <2>1, <3>4, <4>0, PeakGrows
        <4>. QED  BY <4>2, <4>3, <4>4, BuyingNat
      <3>. QED  BY <3>5, <3>6, <3>7, BuyingNat DEF Bought
    <2>. QED  BY <2>2, <2>3
  <1>5. ASSUME NEW c \in DOMAIN codes, NEW r \in Requests, VerifyConsume(r)
        PROVE  Bought(c)'
    <2>1. OthersStay(r) /\ UNCHANGED <<issued, job>> /\ r \notin Buying(c) => r \notin Buying(c)'
      BY <1>5, StepsOfOne DEF Continue, VerifyConsume, Goto, history, Buying, At
    <2>2. OthersStay(r) /\ UNCHANGED <<issued, job>>
      BY <1>5, StepsOfOne DEF Continue, VerifyConsume, Goto, history
    <2>3. CASE r \notin Buying(c)
      BY <1>2, <2>1, <2>2, <2>3
    <2>4. CASE r \in Buying(c)
      <3>1. codes'[c].consumed
        BY <1>0, <1>5, <2>4, CodesDomain DEF VerifyConsume, Consume, Buying, CodeRows
      <3>2. Buying(c)' \subseteq Buying(c)
        BY <2>2, <2>4 DEF OthersStay, Buying
      <3>. QED  BY <2>2, <3>1, <3>2, BoughtStays DEF BoughtOK
    <2>. QED  BY <2>3, <2>4
  <1>6. ASSUME NEW c \in DOMAIN codes, NEW r \in Requests, VerifySign(r)
        PROVE  Bought(c)'
    <2>1. /\ OthersStay(r) /\ UNCHANGED codes /\ r \notin Buying(c)'
          /\ issued' = [issued EXCEPT ![job[r].code] = @ + 1] /\ pc[r] = "verify.sign"
      BY <1>0, <1>6, StepsOfOne DEF Continue, VerifySign, End, Free, Buying, At, TypeOK
    <2>2. CASE job[r].code # c
      BY <1>0, <1>2, <2>1, <2>2 DEF TypeOK
    <2>3. CASE job[r].code = c
      <3>1. r \in Buying(c) /\ codes'[c].consumed
        BY <2>1, <2>3 DEF Buying, BoughtOK, Bought
      <3>2. c \in 1 .. MaxCodes /\ codes[c].user \in Users /\ issued[c] \in Nat
        BY <1>0, CodeIndex
      <3>3. issued'[c] = issued[c] + 1
        BY <1>0, <2>1, <2>3, <3>2 DEF TypeOK
      <3>4. Cardinality(Buying(c)') <= Cardinality(Buying(c)) - 1
        <4>1. Cardinality(Buying(c) \ {r}) = Cardinality(Buying(c)) - 1
          BY <3>1, BuyingNat, RequestSets
        <4>2. /\ Buying(c)' \in SUBSET (Buying(c) \ {r})
              /\ Buying(c) \ {r} \in SUBSET Requests
          BY <2>1 DEF OthersStay, Buying
        <4>. QED  BY <4>1, <4>2, RequestSets
      <3>5. /\ peak'[codes[c].user] >= peak[codes[c].user]
            /\ peak'[codes[c].user] \in Nat /\ peak[codes[c].user] \in Nat
        BY <3>2, PeakGrows
      <3>. QED  BY <2>1, <3>1, <3>2, <3>3, <3>4, <3>5, BuyingNat DEF BoughtOK, Bought
    <2>. QED  BY <2>2, <2>3
  <1>7. ASSUME NEW c \in DOMAIN codes, NEW r \in Requests,
               Abort(r) \/ CodeConsume(r) \/ CodeInsert(r) \/ VerifyExhaust(r)
                  \/ VerifyCount(r) \/ RemoveWrite(r)
        PROVE  Bought(c)'
    <2>1. OthersStay(r)
      BY <1>7, StepsOfOne DEF Continue
    <2>2. r \notin Buying(c)' /\ UNCHANGED issued
      BY <1>0, <1>7
      DEF Abort, CodeConsume, CodeInsert, VerifyExhaust, VerifyCount, RemoveWrite, End, Free,
          Goto, history, Buying, TypeOK
    <2>. QED  BY <1>2, <2>1, <2>2
  <1>8. ASSUME NEW c \in DOMAIN codes PROVE Bought(c)'
    <2>1. \/ UNCHANGED <<issued, pc, job>>
          \/ \E r \in Requests : Continue(r) \/ Abort(r) \/ \E u \in Users : Start(r, u)
      BY DEF Next, Expire, CreateOrganization, AddAdmin, AddMyArtist, SetMember,
             requests, history, vars
    <2>. QED
      BY <1>1, <1>3, <1>4, <1>5, <1>6, <1>7, <2>1 DEF Continue
  <1>9. ASSUME NEW c \in DOMAIN codes' \ DOMAIN codes PROVE Bought(c)'
    <2>1. PICK r \in Requests : /\ CodeInsert(r) /\ ~codes'[c].consumed
                                /\ codes'[c].user = job[r].user
      BY <1>9, NewCode
    <2>2. Buying(c)' = {}
      <3>1. OthersStay(r)
        BY <2>1, StepsOfOne DEF Continue
      <3>. QED
        BY <1>0, <1>9, <2>1, <3>1
        DEF CodeInsert, End, Free, OthersStay, Buying, JobsOK, CodeLabels, TypeOK
    <2>3. issued'[c] = 0
      <3>1. c \in 1 .. MaxCodes
        BY <1>9, NewCode
      <3>. QED  BY <1>9, <2>1, <3>1 DEF CodeInsert, history, BoughtOK
    <2>4. Cardinality({}) = 0 /\ job[r].user \in Users
      BY <1>0, <2>1, FS_EmptySet DEF CodeInsert, JobsOK, At
    <2>. QED  BY <2>1, <2>2, <2>3, <2>4, PeakGrows DEF Bought
  <1>10. ASSUME NEW c \in (1 .. MaxCodes) \ DOMAIN codes' PROVE issued'[c] = 0
    <2>1. c \notin DOMAIN codes
      BY <1>10, CodesAfter
    <2>2. \/ UNCHANGED issued
          \/ \E r \in Requests : VerifySign(r)
      BY DEF Next, Start, Continue, Abort, StartRequestCode, StartVerify, RemoveAdmin,
             RemoveMyArtist, RemoveFromOrganization, VerifyFind, RemoveWrite, CodeConsume,
             CodeInsert, VerifyExhaust, VerifyCount, VerifyConsume, Expire,
             CreateOrganization, AddAdmin, AddMyArtist, SetMember, history, vars
    <2>3. \A r \in Requests : VerifySign(r) => job[r].code # c
      BY <1>0, <2>1 DEF VerifySign, At, JobsOK, CodeLabels
    <2>. QED  BY <1>0, <1>10, <2>1, <2>2, <2>3 DEF VerifySign, BoughtOK, TypeOK
  <1>. QED  BY <1>8, <1>9, <1>10 DEF BoughtOK

\* A code buys as many tokens as verifications of its user were in flight
\* together, so one for a user who takes turns (AuthService.verifyCode).
THEOREM TokensPerCode == Spec => []OneTokenPerCode
  <1>1. Init => BoughtOK
    <2> SUFFICES ASSUME Init PROVE BoughtOK
      OBVIOUS
    <2>. QED  BY DEF Init, BoughtOK
  <1>2. Typed /\ BoughtOK => OneTokenPerCode
    <2> SUFFICES ASSUME Typed, BoughtOK, NEW c \in DOMAIN codes
                 PROVE  issued[c] <= peak[codes[c].user]
      BY DEF OneTokenPerCode
    <2>1. c \in 1 .. MaxCodes /\ codes[c].user \in Users
      BY CodesDomain, AccountsAssumption DEF Typed, CodeRows
    <2>2. issued[c] \in Nat /\ peak[codes[c].user] \in Nat
      BY <2>1, RequestSets DEF Typed, TypeOK
    <2>. QED  BY <2>2, BuyingNat DEF BoughtOK, Bought
  <1>. QED  BY InitTyped, NextTyped, NextBought, <1>1, <1>2, PTL DEF Spec

(***************************************************************************)
(* GuessesBounded.  A wrong guess is on its way to being counted, counted,  *)
(* or was lost with its request; and whoever compares a guess read a count *)
(* below MAX_ATTEMPTS while no more than peak requests were in flight.      *)
(***************************************************************************)

Guessed(c) ==
    /\ tried[c] <= codes[c].attempts + Cardinality(Counting(c)) + aborts
    /\ tried[c] < MAX_ATTEMPTS + peak[codes[c].user] + aborts
    /\ peak[codes[c].user] >= 1

GuessedOK ==
    /\ \A c \in DOMAIN codes : Guessed(c)
    /\ \A c \in (1 .. MaxCodes) \ DOMAIN codes : tried[c] = 0

LEMMA CountingNat ==
  ASSUME NEW c
  PROVE  /\ Counting(c) \in SUBSET Requests /\ Counting(c)' \in SUBSET Requests
         /\ Cardinality(Counting(c)) \in Nat /\ Cardinality(Counting(c)') \in Nat
  <1>1. Counting(c) \in SUBSET Requests /\ Counting(c)' \in SUBSET Requests
    BY DEF Counting
  <1>. QED  BY <1>1, RequestSets

\* The size of a set of requests after one of them left it or not.
LEMMA LeaveByOne ==
  ASSUME NEW S \in SUBSET Requests, NEW T \in SUBSET Requests, NEW r \in Requests,
         S \ {r} \subseteq T
  PROVE  /\ Cardinality(T) + 1 >= Cardinality(S)
         /\ r \notin S \/ r \in T => Cardinality(T) >= Cardinality(S)
         /\ r \in T \ S => Cardinality(T) >= Cardinality(S) + 1
  <1>0. /\ Cardinality(S) \in Nat /\ Cardinality(T) \in Nat
        /\ S \ {r} \in SUBSET Requests /\ Cardinality(S \ {r}) \in Nat
    BY RequestSets
  <1>1. Cardinality(S \ {r}) <= Cardinality(T)
    BY RequestSets
  <1>2. r \in S => Cardinality(S \ {r}) = Cardinality(S) - 1
    BY RequestSets
  <1>3. r \notin S => S \ {r} = S
    OBVIOUS
  <1>4. r \in S /\ r \in T => Cardinality(T) >= Cardinality(S)
    <2>1. r \in S /\ r \in T => S \in SUBSET T
      OBVIOUS
    <2>. QED  BY <2>1, RequestSets
  <1>5. r \in T \ S => Cardinality(T) >= Cardinality(S) + 1
    <2> SUFFICES ASSUME r \in T \ S PROVE Cardinality(T) >= Cardinality(S) + 1
      OBVIOUS
    <2>1. Cardinality(S \cup {r}) = Cardinality(S) + 1
      BY RequestSets
    <2>2. S \cup {r} \in SUBSET T
      BY <1>3
    <2>. QED  BY <2>1, <2>2, RequestSets
  <1>6. Cardinality(T) + 1 >= Cardinality(S)
    <2>1. CASE r \in S
      BY <1>0, <1>1, <1>2, <2>1
    <2>2. CASE r \notin S
      BY <1>0, <1>1, <1>3, <2>2
    <2>. QED  BY <2>1, <2>2
  <1>7. r \notin S => Cardinality(T) >= Cardinality(S)
    BY <1>0, <1>1, <1>3
  <1>. QED  BY <1>4, <1>5, <1>6, <1>7

\* Steps that compare no guess with c: the wrong guesses under way are counted,
\* or lost with a request.
LEMMA GuessedStays ==
  ASSUME Typed, [Next]_vars, NEW c \in DOMAIN codes, Guessed(c), tried'[c] = tried[c],
         codes'[c].attempts + Cardinality(Counting(c)') + aborts'
            >= codes[c].attempts + Cardinality(Counting(c)) + aborts
  PROVE  Guessed(c)'
  <1>1. /\ c \in DOMAIN codes /\ codes[c].user \in Users /\ codes[c].attempts \in Nat
        /\ tried[c] \in Nat
    BY CodeIndex DEF Typed
  <1>2. codes'[c].user = codes[c].user /\ codes'[c].attempts \in Nat
    BY <1>1, CodesAfter
  <1>3. PICK u \in Users : u = codes[c].user
    BY <1>1
  <1>4. /\ peak'[u] >= peak[u] /\ peak'[u] \in Nat /\ peak[u] \in Nat
        /\ aborts' >= aborts /\ aborts' \in Nat /\ aborts \in Nat
    BY PeakGrows
  <1>. QED
    BY <1>1, <1>2, <1>3, <1>4, CountingNat, AccountsAssumption DEF Guessed

LEMMA NextGuessed == Typed /\ GuessedOK /\ [Next]_vars => GuessedOK'
  <1> SUFFICES ASSUME Typed, GuessedOK, [Next]_vars PROVE GuessedOK'
    OBVIOUS
  <1>0. TypeOK /\ JobsOK /\ Typed' /\ aborts \in Nat
    <2>1. TypeOK /\ JobsOK
      BY DEF Typed
    <2>2. Typed'
      BY NextTyped
    <2>3. aborts \in Nat
      BY <2>1, AccountsAssumption DEF TypeOK
    <2>. QED  BY <2>1, <2>2, <2>3
  <1>1. ASSUME NEW c \in DOMAIN codes, NEW r \in Requests, OthersStay(r)
        PROVE  Counting(c) \ {r} \subseteq Counting(c)'
    BY <1>1 DEF OthersStay, Counting
  <1>2. ASSUME NEW c \in DOMAIN codes, NEW r \in Requests, OthersStay(r),
               pc[r] # "verify.count", tried'[c] = tried[c],
               UNCHANGED aborts, \A s \in Requests : ~VerifyCount(s)
        PROVE  Guessed(c)'
    <2>1. codes'[c].attempts = codes[c].attempts /\ codes[c].attempts \in Nat
      BY <1>0, <1>2, CodesAfter, CodeIndex
    <2>2. Cardinality(Counting(c)') >= Cardinality(Counting(c))
      <3>1. r \notin Counting(c)
        BY <1>2 DEF Counting
      <3>. QED  BY <1>1, <1>2, <3>1, CountingNat, LeaveByOne
    <2>. QED  BY <1>0, <1>2, <2>1, <2>2, CountingNat, GuessedStays DEF GuessedOK
  <1>3. ASSUME NEW c \in DOMAIN codes, UNCHANGED <<tried, pc, job, aborts>>
        PROVE  Guessed(c)'
    <2>1. codes'[c].attempts >= codes[c].attempts /\ codes'[c].attempts \in Nat
      BY <1>0, CodesAfter, CodeIndex
    <2>2. Counting(c)' = Counting(c)
      BY <1>3 DEF Counting
    <2>3. codes[c].attempts \in Nat
      BY <1>0, CodeIndex
    <2>. QED  BY <1>0, <1>3, <2>1, <2>2, <2>3, CountingNat, GuessedStays DEF GuessedOK
  <1>4. ASSUME NEW c \in DOMAIN codes, NEW r \in Requests, NEW matches \in BOOLEAN,
               VerifyFind(r, matches)
        PROVE  Guessed(c)'
    <2>1. /\ OthersStay(r) /\ UNCHANGED <<codes, peak, aborts>>
          /\ pc[r] = "verify.find"
      BY <1>4, StepsOfOne DEF Continue, VerifyFind, At
    <2>2. /\ codes[c].attempts \in Nat /\ codes[c].user \in Users /\ c \in 1 .. MaxCodes
          /\ tried[c] \in Nat
      BY <1>0, CodeIndex
    <2>3. r \notin Counting(c) /\ Counting(c) \subseteq Counting(c)'
      BY <1>1, <2>1 DEF Counting
    <2>4. Cardinality(Counting(c)') >= Cardinality(Counting(c))
      BY <2>3, CountingNat, RequestSets
    <2>5. CASE tried'[c] = tried[c]
      BY <1>0, <2>1, <2>2, <2>4, <2>5, CountingNat, GuessedStays DEF GuessedOK
    <2>6. CASE tried'[c] # tried[c]
      <3>1. PICK d \in Unconsumed(job[r].user), next \in CodeLabels \ {"verify.sign"},
                 claims \in {job[r].claims, None} : Judged(r, d, next, claims)
        BY <1>4, <2>6, FindJudges
      <3>2. /\ d = c /\ next = "verify.count" /\ tried'[c] = tried[c] + 1
            /\ codes[c].attempts < MAX_ATTEMPTS
        BY <1>0, <2>2, <2>6, <3>1 DEF Judged, TypeOK
      <3>3. Cardinality(Counting(c)') >= Cardinality(Counting(c)) + 1
        <4>1. r \in Counting(c)'
          BY <1>0, <3>1, <3>2 DEF Judged, Counting, TypeOK
        <4>. QED  BY <1>1, <2>1, <2>3, <4>1, CountingNat, LeaveByOne
      <3>4. Cardinality(Counting(c)) + 1 <= peak[codes[c].user]
        <4>0. PICK u \in Users : u = codes[c].user
          BY <2>2
        <4>1. job[r].user = u
          BY <3>1, <3>2, <4>0 DEF Unconsumed
        <4>2. /\ Counting(c) \in SUBSET (InFlight(u) \ {r}) /\ r \in InFlight(u)
              /\ InFlight(u) \in SUBSET Requests
          BY <1>0, <2>1, <2>3, <4>0, <4>1
          DEF Counting, InFlight, JobsOK, CodeLabels, AuthLabels
        <4>3. /\ Cardinality(InFlight(u) \ {r}) = Cardinality(InFlight(u)) - 1
              /\ Cardinality(InFlight(u)) \in Nat
              /\ InFlight(u) \ {r} \in SUBSET Requests
          BY <4>2, RequestSets
        <4>4. Cardinality(Counting(c)) <= Cardinality(InFlight(u) \ {r})
          BY <4>2, <4>3, RequestSets
        <4>5. Cardinality(InFlight(u)) <= peak[u] /\ peak[u] \in Nat
          BY PeakGrows DEF Typed, PeakOK
        <4>. QED  BY <4>0, <4>3, <4>4, <4>5, CountingNat
      <3>5. peak[codes[c].user] \in Nat
        BY <2>2, PeakGrows
      <3>. QED
        BY <1>0, <2>1, <2>2, <3>2, <3>3, <3>4, <3>5, CountingNat, AccountsAssumption
        DEF GuessedOK, Guessed
    <2>. QED  BY <2>5, <2>6
  <1>5. ASSUME NEW c \in DOMAIN codes, NEW r \in Requests, VerifyCount(r)
        PROVE  Guessed(c)'
    <2>1. OthersStay(r) /\ UNCHANGED <<tried, aborts>> /\ pc[r] = "verify.count"
      BY <1>5, StepsOfOne DEF Continue, VerifyCount, history, At
    <2>2. codes[c] \in CodeRows /\ codes[c].attempts \in Nat
      BY <1>0, CodesDomain DEF CodeRows
    <2>3. codes'[c].attempts = IF job[r].code = c THEN codes[c].attempts + 1
                               ELSE codes[c].attempts
      BY <1>0, <1>5, <2>2, CodesDomain DEF VerifyCount, CodeRows
    <2>4. /\ Cardinality(Counting(c)') + 1 >= Cardinality(Counting(c))
          /\ job[r].code # c => Cardinality(Counting(c)') >= Cardinality(Counting(c))
      <3>1. job[r].code # c => r \notin Counting(c)
        BY DEF Counting
      <3>. QED  BY <1>1, <2>1, <3>1, CountingNat, LeaveByOne
    <2>. QED
      BY <1>0, <2>1, <2>2, <2>3, <2>4, CountingNat, GuessedStays DEF GuessedOK
  <1>6. ASSUME NEW c \in DOMAIN codes, NEW r \in Requests, Abort(r) PROVE Guessed(c)'
    <2>1. OthersStay(r) /\ UNCHANGED <<tried, codes>> /\ aborts' = aborts + 1
      BY <1>6, StepsOfOne DEF Abort, history
    <2>2. codes[c].attempts \in Nat
      BY <1>0, CodeIndex
    <2>3. Cardinality(Counting(c)') + 1 >= Cardinality(Counting(c))
      BY <1>1, <2>1, CountingNat, LeaveByOne
    <2>. QED  BY <1>0, <2>1, <2>2, <2>3, CountingNat, GuessedStays DEF GuessedOK
  <1>7. ASSUME NEW c \in DOMAIN codes, NEW r \in Requests,
               \/ \E u \in Users : Start(r, u)
               \/ CodeConsume(r) \/ CodeInsert(r) \/ VerifyExhaust(r)
               \/ VerifyConsume(r) \/ VerifySign(r) \/ RemoveWrite(r)
        PROVE  Guessed(c)'
    <2>1. OthersStay(r)
      BY <1>7, StepsOfOne DEF Continue
    <2>2. pc[r] # "verify.count" /\ UNCHANGED <<tried, aborts>>
      BY <1>7
      DEF Start, StartRequestCode, StartVerify, RemoveAdmin, RemoveMyArtist,
          RemoveFromOrganization, Begin, CodeConsume, CodeInsert, VerifyExhaust,
          VerifyConsume, VerifySign, RemoveWrite, At, history
    <2>3. r \notin Counting(c) /\ Cardinality(Counting(c)') >= Cardinality(Counting(c))
      <3>1. r \notin Counting(c)
        BY <2>2 DEF Counting
      <3>. QED  BY <1>1, <2>1, <3>1, CountingNat, LeaveByOne
    <2>4. codes'[c].attempts >= codes[c].attempts /\ codes'[c].attempts \in Nat
      BY <1>0, CodesAfter, CodeIndex
    <2>5. codes[c].attempts \in Nat
      BY <1>0, CodeIndex
    <2>. QED
      BY <1>0, <2>2, <2>3, <2>4, <2>5, CountingNat, GuessedStays DEF GuessedOK
  <1>8. ASSUME NEW c \in DOMAIN codes PROVE Guessed(c)'
    <2>1. \/ UNCHANGED <<tried, pc, job, aborts>>
          \/ \E r \in Requests : Continue(r) \/ Abort(r) \/ \E u \in Users : Start(r, u)
      BY DEF Next, Expire, CreateOrganization, AddAdmin, AddMyArtist, SetMember,
             requests, history, vars
    <2>. QED  BY <1>3, <1>4, <1>5, <1>6, <1>7, <2>1 DEF Continue
  <1>9. ASSUME NEW c \in DOMAIN codes' \ DOMAIN codes PROVE Guessed(c)'
    <2>1. PICK r \in Requests : /\ CodeInsert(r) /\ ~codes'[c].consumed
                                /\ codes'[c].user = job[r].user
      BY <1>9, NewCode
    <2>2. tried'[c] = 0
      <3>1. c \in 1 .. MaxCodes
        BY <1>9, NewCode
      <3>. QED  BY <1>9, <2>1, <3>1 DEF CodeInsert, history, GuessedOK
    <2>3. PICK u \in Users : u = job[r].user
      BY <1>0, <2>1 DEF CodeInsert, JobsOK, At
    <2>4. peak'[u] >= 1 /\ peak'[u] \in Nat
      <3>1. r \in InFlight(u) /\ InFlight(u) \in SUBSET Requests
        BY <2>1, <2>3 DEF CodeInsert, At, InFlight, AuthLabels
      <3>2. Cardinality(InFlight(u)) \in Nat /\ Cardinality(InFlight(u)) # 0
        <4>1. IsFiniteSet(InFlight(u)) /\ Cardinality(InFlight(u)) \in Nat
          BY <3>1, RequestSets
        <4>. QED  BY <3>1, <4>1, FS_EmptySet
      <3>3. Cardinality(InFlight(u)) <= peak[u]
        BY DEF Typed, PeakOK
      <3>. QED  BY <3>2, <3>3, PeakGrows
    <2>5. codes'[c].attempts \in Nat
      <3>1. TypeOK' /\ c \in DOMAIN codes'
        BY <1>0, <1>9 DEF Typed
      <3>2. codes'[c] \in CodeRows
        BY <3>1, LenProperties DEF TypeOK
      <3>. QED  BY <3>2 DEF CodeRows
    <2>6. aborts' \in Nat
      BY <2>3, PeakGrows
    <2>. QED
      BY <2>1, <2>2, <2>3, <2>4, <2>5, <2>6, CountingNat, AccountsAssumption DEF Guessed
  <1>10. ASSUME NEW c \in (1 .. MaxCodes) \ DOMAIN codes' PROVE tried'[c] = 0
    <2>1. c \notin DOMAIN codes
      BY <1>10, CodesAfter
    <2>2. ASSUME NEW r \in Requests, NEW matches \in BOOLEAN, VerifyFind(r, matches)
          PROVE  tried'[c] = tried[c]
      <3>1. CASE ~(End(r) /\ UNCHANGED tried)
        <4>1. PICK d \in Unconsumed(job[r].user), next \in CodeLabels \ {"verify.sign"},
                   claims \in {job[r].claims, None} : Judged(r, d, next, claims)
          BY <2>2, <3>1, FindJudges
        <4>2. d # c
          BY <2>1 DEF Unconsumed
        <4>. QED  BY <1>0, <1>10, <4>1, <4>2 DEF Judged, TypeOK
      <3>. QED  BY <3>1
    <2>3. \/ UNCHANGED tried
          \/ \E r \in Requests, matches \in BOOLEAN : VerifyFind(r, matches)
      BY DEF Next, Start, Continue, Abort, StartRequestCode, StartVerify, RemoveAdmin,
             RemoveMyArtist, RemoveFromOrganization, VerifySign, RemoveWrite, CodeConsume,
             CodeInsert, VerifyExhaust, VerifyCount, VerifyConsume, Expire,
             CreateOrganization, AddAdmin, AddMyArtist, SetMember, history, vars
    <2>. QED  BY <1>10, <2>1, <2>2, <2>3 DEF GuessedOK
  <1>. QED  BY <1>8, <1>9, <1>10 DEF GuessedOK

\* A code survives MAX_ATTEMPTS wrong guesses, one more for each request in flight
\* together and for each lost before it was counted (AuthService.verifyCode).
THEOREM GuessesPerCode == Spec => []GuessesBounded
  <1>1. Init => GuessedOK
    <2> SUFFICES ASSUME Init PROVE GuessedOK
      OBVIOUS
    <2>. QED  BY DEF Init, GuessedOK
  <1>2. GuessedOK => GuessesBounded
    BY DEF GuessedOK, Guessed, GuessesBounded
  <1>. QED  BY InitTyped, NextTyped, NextGuessed, <1>1, <1>2, PTL DEF Spec

=============================================================================
