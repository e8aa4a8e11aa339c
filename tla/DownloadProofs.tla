--------------------------- MODULE DownloadProofs ---------------------------
(***************************************************************************)
(* Batches of any chunks, requested under any tokens, and answered in any  *)
(* fragments.                                                              *)
(*                                                                         *)
(* Refusals: time only takes rights away.                                  *)
(*                                                                         *)
(* Parts: the client looks for boundaries in whatever has arrived, and     *)
(* what lies between two of them is a part, although the contents of       *)
(* chunks may look like anything but a boundary.  What has arrived, is on  *)
(* its way or was lost with the connection is, from where the client       *)
(* stands, the rest of the answer (BatchInv).                              *)
(***************************************************************************)
EXTENDS DownloadBatch, SequenceTheorems, FiniteSetTheorems, TLAPS

\* The service would still refuse what it has refused.
Refusing == EntitledStatus(mode, token, now) # 200

RefusedInv ==
  /\ now \in Nat /\ token \in Tokens
  /\ refused => Refusing
  /\ RefusalsStand

\* A token that is refused now is refused later, under the same mode.
LEMMA TimeTakesRightsAway ==
  ASSUME NEW t \in Tokens, NEW n \in Nat, NEW m, EntitledStatus(m, t, n) # 200
  PROVE  EntitledStatus(m, t, n + 1) # 200
<1>1. t.exp \in Nat /\ t.sync_until.time \in Nat /\ Leeway \in Nat
  BY DownloadAssumption, EntitlementAssumption
<1>2. ~ Decodes(t, n) => ~ Decodes(t, n + 1)
  BY <1>1 DEF Decodes
<1>3. Rejects(m, LenientTs(t.sync_until), n) => Rejects(m, LenientTs(t.sync_until), n + 1)
  <2>1. LenientTs(t.sync_until).time \in Nat
    BY <1>1 DEF LenientTs, Missing
  <2> QED BY <2>1 DEF Rejects, Expired
<1> QED BY <1>2, <1>3 DEF EntitledStatus

\* A token that is not valid is refused in every mode.
LEMMA InvalidIsRefused ==
  ASSUME NEW t, NEW n, NEW m, UserStatus(t, n) = 401
  PROVE  EntitledStatus(m, t, n) = 401
BY DEF UserStatus, EntitledStatus

LEMMA RefusedStep == RefusedInv /\ [Next]_vars => RefusedInv'
<1> SUFFICES ASSUME RefusedInv, [Next]_vars PROVE RefusedInv'
  OBVIOUS
<1>1. CASE Ask
  <2>1. UNCHANGED <<now, mode, token>>
    BY <1>1 DEF Ask, setting
  <2>2. Refusing' <=> Refusing
    BY <2>1 DEF Refusing
  <2>3. Answer \in {401, 402} => Refusing
    BY DEF Answer, Refusing
  <2>4. Answer = 200 => ~ Refusing
    BY DEF Answer, Refusing
  <2>5. /\ client' = IF Answer = 200 THEN "stream" ELSE "failed"
        /\ refused' => refused \/ Answer \in {401, 402}
    BY <1>1 DEF Ask
  <2>6. refused' => Refusing'
    <3> SUFFICES ASSUME refused' PROVE Refusing'
      OBVIOUS
    <3>1. CASE refused
      BY <2>2, <3>1 DEF RefusedInv
    <3>2. CASE Answer \in {401, 402}
      BY <2>2, <2>3, <3>2
    <3> QED BY <2>5, <3>1, <3>2
  <2>7. client' = "stream" => ~ refused'
    BY <2>2, <2>4, <2>5, <2>6
  <2> QED BY <2>1, <2>6, <2>7 DEF RefusedInv, RefusalsStand
<1>2. CASE Tick
  <2>1. /\ now' = now + 1 /\ client = "idle" /\ UNCHANGED <<mode, token, client, refused>>
    BY <1>2 DEF Tick
  <2>2. Refusing => Refusing'
    BY <2>1, TimeTakesRightsAway DEF Refusing, RefusedInv
  <2> QED BY <2>1, <2>2 DEF RefusedInv, RefusalsStand
<1>3. CASE Deploy
  <2>1. /\ UNCHANGED <<now, token, client>> /\ client = "idle"
        /\ refused' => UserStatus(token, now) = 401
    BY <1>3 DEF Deploy
  <2>2. refused' => Refusing'
    <3> SUFFICES ASSUME refused' PROVE Refusing'
      OBVIOUS
    <3>1. EntitledStatus(mode', token, now) = 401
      BY <2>1, InvalidIsRefused
    <3>2. EntitledStatus(mode', token', now') = 401
      BY <2>1, <3>1
    <3> QED BY <3>2 DEF Refusing
  <2> QED BY <2>1, <2>2 DEF RefusedInv, RefusalsStand
<1>4. ASSUME UNCHANGED <<now, mode, token, refused>>, client' = "stream" => client = "stream"
      PROVE  RefusedInv'
  BY <1>4 DEF RefusedInv, RefusalsStand, Refusing
<1>5. CASE Client
  BY <1>1, <1>4, <1>5 DEF Client, Receive, Extract, StreamEnds, RunsAgain, setting
<1>6. CASE Server \/ Breaks
  BY <1>4, <1>6 DEF Server, OpenPart, ReadPart, EndPart, Breaks, setting
<1>7. CASE Uploads \/ \E c \in Chunks : UploadCreates(c)
  BY <1>4, <1>7 DEF Uploads, UploadCreates, UploadWrites, UploadFails, UploadLosesWrite,
                    Rewritten, setting
<1>8. CASE UNCHANGED vars
  BY <1>4, <1>8 DEF vars, setting
<1> QED BY <1>2, <1>3, <1>5, <1>6, <1>7, <1>8 DEF Next

\* A token that was refused is not served later, at whatever times it is used:
\* only a deployment in another mode may serve it, and only a valid one
\* (auth/entitlement.rs, decide; auth/token.rs, decode_token).
THEOREM RefusalsAreFinal == Spec => []RefusalsStand
<1>1. Init => RefusedInv
  BY DEF Init, RefusedInv, RefusalsStand
<1>2. RefusedInv => RefusalsStand
  BY DEF RefusedInv
<1> QED BY <1>1, <1>2, RefusedStep, PTL DEF Spec

----------------------------------------------------------------------------
(* Tokens, and where a boundary begins.                                    *)

Bytes == {"CR", "LF", "--", "x"}

\* What travels.
Symbols == Bytes \cup Chunks \cup {"boundary", "Content-Type", "X-Chunk-ID:"}

LEMMA AtBoundary ==
  ASSUME NEW T, NEW d \in Seq(T), NEW i \in 1 .. Len(d) - 1
  PROVE  SubSeq(d, i, i + 1) = Boundary <=> d[i] = "--" /\ d[i + 1] = "boundary"
<1>1. /\ SubSeq(d, i, i + 1) \in Seq(T) /\ Len(SubSeq(d, i, i + 1)) = 2
      /\ SubSeq(d, i, i + 1)[1] = d[i] /\ SubSeq(d, i, i + 1)[2] = d[i + 1]
  BY SubSeqProperties
<1>2. Boundary[1] = "--" /\ Boundary[2] = "boundary" /\ Len(Boundary) = 2
  BY DEF Boundary
<1>3. ASSUME SubSeq(d, i, i + 1) = Boundary PROVE d[i] = "--" /\ d[i + 1] = "boundary"
  BY <1>1, <1>2, <1>3
<1>4. ASSUME d[i] = "--", d[i + 1] = "boundary" PROVE SubSeq(d, i, i + 1) = Boundary
  <2>1. "--" \in T /\ "boundary" \in T
    BY <1>4
  <2>2. Boundary \in Seq(T)
    BY <2>1 DEF Boundary
  <2>3. \A j \in 1 .. 2 : SubSeq(d, i, i + 1)[j] = Boundary[j]
    BY <1>1, <1>2, <1>4
  <2> QED BY <1>1, <1>2, <2>2, <2>3, SeqEqual
<1> QED BY <1>3, <1>4

LEMMA PlacesOfBoundary ==
  ASSUME NEW T, NEW d \in Seq(T)
  PROVE  Places(d, Boundary) =
           {i \in 1 .. Len(d) - 1 : d[i] = "--" /\ d[i + 1] = "boundary"}
<1>1. Len(Boundary) = 2 /\ Boundary = <<"--", "boundary">>
  BY DEF Boundary
<1>2. Places(d, Boundary) = {i \in 1 .. Len(d) - 2 + 1 : SubSeq(d, i, i + 2 - 1) = Boundary}
  BY <1>1 DEF Places
<1>3. \A i \in 1 .. Len(d) - 1 :
        SubSeq(d, i, i + 1) = Boundary <=> d[i] = "--" /\ d[i + 1] = "boundary"
  BY AtBoundary
<1>4. Len(d) \in Nat
  OBVIOUS
<1>5. Len(d) - 2 + 1 = Len(d) - 1
  BY <1>4
<1>6. \A i \in 1 .. Len(d) - 1 : SubSeq(d, i, i + 2 - 1) = SubSeq(d, i, i + 1)
  <2>1. \A i \in 1 .. Len(d) - 1 : i + 2 - 1 = i + 1
    BY <1>4
  <2> QED BY <2>1
<1>7. Places(d, Boundary) = {i \in 1 .. Len(d) - 1 : SubSeq(d, i, i + 1) = Boundary}
  BY <1>2, <1>5, <1>6
<1> QED BY <1>3, <1>7

----------------------------------------------------------------------------
(* The first section of an answer.  R is what follows it: nothing yet, the *)
(* next section, or the closing boundary.                                  *)

\* Token o of a section that carries the part p, and of what follows it.
At(p, R, o) ==
  IF o <= 15 THEN SectionHeader(p.id)[o]
  ELSE IF o <= 15 + Len(p.content) THEN p.content[o - 15]
  ELSE R[o - 15 - Len(p.content)]

\* Whatever comes next begins as a boundary does.
BeginsWithBoundary(R) ==
  /\ 4 <= Len(R)
  /\ R[1] = "CR" /\ R[2] = "LF" /\ R[3] = "--" /\ R[4] = "boundary"

\* b is what has arrived of a section and of what follows; the first q tokens
\* are parsed already.
ArrivedOf(b, q, p, R) ==
  /\ Len(b) + q <= 15 + Len(p.content) + Len(R)
  /\ \A m \in 1 .. Len(b) : b[m] = At(p, R, m + q)

LEMMA AtBoundaryOnly ==
  ASSUME NEW p \in Part, NEW R \in Seq(Symbols), R = << >> \/ BeginsWithBoundary(R),
         NEW o \in Nat \ {0}, o <= 15 + Len(p.content) + Len(R), At(p, R, o) = "boundary"
  PROVE  o = 4 \/ 19 + Len(p.content) <= o
<1>1. PICK l \in Nat : l = Len(p.content)
  BY DEF Part
<1>2. CASE o <= 15
  <2>1. SectionHeader(p.id)[o] = "boundary"
    BY <1>2 DEF At
  <2>2. "boundary" \notin Chunks
    BY DownloadAssumption, Zenon
  <2>3. p.id # "boundary"
    BY <2>2 DEF Part
  <2>4. \/ o = 1 \/ o = 2 \/ o = 3 \/ o = 4 \/ o = 5 \/ o = 6 \/ o = 7 \/ o = 8
        \/ o = 9 \/ o = 10 \/ o = 11 \/ o = 12 \/ o = 13 \/ o = 14 \/ o = 15
    BY <1>2
  <2>5. LET h == SectionHeader(p.id)
        IN  /\ h[1] = "CR" /\ h[2] = "LF" /\ h[3] = "--" /\ h[5] = "CR" /\ h[6] = "LF"
            /\ h[7] = "Content-Type" /\ h[8] = "CR" /\ h[9] = "LF" /\ h[10] = "X-Chunk-ID:"
            /\ h[11] = p.id /\ h[12] = "CR" /\ h[13] = "LF" /\ h[14] = "CR" /\ h[15] = "LF"
    BY DEF SectionHeader
  <2> QED BY <2>1, <2>3, <2>4, <2>5
<1>3. CASE 15 < o /\ o <= 15 + l
  <2>1. p.content[o - 15] = "boundary"
    BY <1>1, <1>3 DEF At
  <2>2. o - 15 \in 1 .. Len(p.content)
    BY <1>1, <1>3
  <2>3. p.content \in Seq(Bytes)
    BY DEF Part, Bytes
  <2>4. p.content[o - 15] \in Bytes
    BY <2>2, <2>3, ElementOfSeq
  <2> QED BY <2>1, <2>4 DEF Bytes
<1>4. CASE 15 + l < o
  <2>1. PICK j \in Int : j = o - 15 - l
    OBVIOUS
  <2>7. ~ (o <= 15) /\ ~ (o <= 15 + Len(p.content)) /\ o - 15 - Len(p.content) = j
    BY <1>1, <1>4, <2>1
  <2>2. R[j] = "boundary"
    BY <2>7 DEF At
  <2>3. 1 <= j
    BY <1>4, <2>1
  <2>4. R # << >>
    BY <1>1, <1>4
  <2>5. j # 1 /\ j # 2 /\ j # 3
    BY <2>2, <2>4 DEF BeginsWithBoundary
  <2>6. 4 <= j
    BY <2>3, <2>5
  <2> QED BY <1>1, <2>1, <2>6
<1> QED BY <1>2, <1>3, <1>4

LEMMA AtHeader ==
  ASSUME NEW p, NEW R
  PROVE  /\ At(p, R, 3) = "--" /\ At(p, R, 4) = "boundary" /\ At(p, R, 5) = "CR"
         /\ At(p, R, 6) = "LF" /\ At(p, R, 7) = "Content-Type" /\ At(p, R, 8) = "CR"
         /\ At(p, R, 9) = "LF" /\ At(p, R, 10) = "X-Chunk-ID:" /\ At(p, R, 11) = p.id
         /\ At(p, R, 12) = "CR" /\ At(p, R, 13) = "LF" /\ At(p, R, 14) = "CR"
         /\ At(p, R, 15) = "LF"
BY DEF At, SectionHeader

\* Where boundaries begin in what has arrived: at the section's own, and not
\* before the one that follows it.
LEMMA BoundaryPlaces ==
  ASSUME NEW b \in Seq(Symbols), NEW q \in {0, 2}, NEW p \in Part, NEW R \in Seq(Symbols),
         R = << >> \/ BeginsWithBoundary(R), ArrivedOf(b, q, p, R),
         NEW l \in Nat, l = Len(p.content)
  PROVE  /\ \A i \in Places(b, Boundary) : i = 3 - q \/ 18 + l - q <= i
         /\ 5 - q <= Len(b) => 3 - q \in Places(b, Boundary)
         /\ 19 + l - q <= Len(b) =>
              BeginsWithBoundary(R) /\ 18 + l - q \in Places(b, Boundary)
<1>1. Places(b, Boundary) =
        {i \in 1 .. Len(b) - 1 : b[i] = "--" /\ b[i + 1] = "boundary"}
  BY PlacesOfBoundary
<1>2. PICK L \in Nat : L = Len(b)
  OBVIOUS
<1>3. q \in Nat /\ q <= 2
  OBVIOUS
<1>4. ASSUME NEW m \in 1 .. L PROVE b[m] = At(p, R, m + q)
  BY <1>2, <1>4 DEF ArrivedOf
<1>5. PICK rl \in Nat : rl = Len(R)
  OBVIOUS
<1>6. L + q <= 15 + l + rl
  BY <1>2, <1>5 DEF ArrivedOf
<1>7. ASSUME NEW i \in Places(b, Boundary) PROVE i = 3 - q \/ 18 + l - q <= i
  <2>1. i \in Int /\ 1 <= i /\ i <= L - 1 /\ b[i + 1] = "boundary"
    BY <1>1, <1>2
  <2>2. PICK o \in Int : o = i + 1 + q
    BY <1>3, <2>1
  <2>3. i + 1 \in 1 .. L /\ o \in Nat \ {0} /\ o <= 15 + l + rl
    BY <1>2, <1>3, <1>6, <2>1, <2>2
  <2>4. At(p, R, o) = "boundary"
    BY <1>4, <2>1, <2>2, <2>3
  <2>5. o = 4 \/ 19 + l <= o
    BY <1>5, <2>3, <2>4, AtBoundaryOnly
  <2> QED BY <1>3, <2>1, <2>2, <2>5
<1>8. ASSUME 5 - q <= L PROVE 3 - q \in Places(b, Boundary)
  <2>1. PICK i \in Int : i = 3 - q
    BY <1>3
  <2>2. i \in 1 .. L - 1 /\ i \in 1 .. L /\ i + 1 \in 1 .. L /\ i + q = 3 /\ i + 1 + q = 4
    BY <1>3, <1>8, <2>1
  <2>3. At(p, R, 3) = "--" /\ At(p, R, 4) = "boundary"
    BY AtHeader
  <2>4. b[i] = At(p, R, i + q) /\ b[i + 1] = At(p, R, i + 1 + q)
    BY <1>4, <2>2
  <2>5. b[i] = "--" /\ b[i + 1] = "boundary"
    BY <2>2, <2>3, <2>4
  <2> QED BY <1>1, <1>2, <2>1, <2>2, <2>5
<1>9. ASSUME 19 + l - q <= L
      PROVE  BeginsWithBoundary(R) /\ 18 + l - q \in Places(b, Boundary)
  <2>1. rl >= 4
    BY <1>3, <1>6, <1>9
  <2>2. BeginsWithBoundary(R)
    BY <1>5, <2>1
  <2>3. PICK i \in Int : i = 18 + l - q
    <3>1. 18 + l - q \in Int
      BY <1>3
    <3> QED BY <3>1
  <2>4. i \in 1 .. L - 1 /\ i \in 1 .. L /\ i + 1 \in 1 .. L
        /\ i + q = 18 + l /\ i + 1 + q = 19 + l
    BY <1>3, <1>9, <2>3
  <2>5. At(p, R, 18 + l) = R[3] /\ At(p, R, 19 + l) = R[4]
    <3>1. /\ ~ (18 + l <= 15) /\ ~ (18 + l <= 15 + l) /\ 18 + l - 15 - l = 3
          /\ ~ (19 + l <= 15) /\ ~ (19 + l <= 15 + l) /\ 19 + l - 15 - l = 4
      OBVIOUS
    <3> QED BY <3>1 DEF At
  <2>6. b[i] = "--" /\ b[i + 1] = "boundary"
    BY <1>4, <2>2, <2>4, <2>5 DEF BeginsWithBoundary
  <2> QED BY <1>1, <1>2, <2>2, <2>3, <2>4, <2>6
<1> QED BY <1>2, <1>7, <1>8, <1>9

LEMMA MoreThanOne ==
  ASSUME NEW n \in Nat, NEW P \in SUBSET (1 .. n), NEW x \in P, NEW y \in P, x # y
  PROVE  Cardinality(P) > 1
<1>1. IsFiniteSet(P)
  BY FS_Interval, FS_Subset, 1 \in Int, n \in Int
<1>2. {x} \in SUBSET P /\ Cardinality({x}) = 1 /\ P # {x}
  BY FS_Singleton
<1>3. 1 <= Cardinality(P) /\ Cardinality(P) # 1
  BY <1>1, <1>2, FS_Subset
<1> QED BY <1>1, <1>3, FS_CardinalityType

LEMMA AtMostOne ==
  ASSUME NEW x, NEW P \in SUBSET {x}
  PROVE  ~ (Cardinality(P) > 1)
<1>1. IsFiniteSet({x}) /\ Cardinality({x}) = 1
  BY FS_Singleton
<1>2. Cardinality(P) <= 1 /\ IsFiniteSet(P)
  BY <1>1, FS_Subset
<1> QED BY <1>2, FS_CardinalityType

LEMMA AtDoubleCRLF ==
  ASSUME NEW T, NEW d \in Seq(T)
  PROVE  Places(d, DoubleCRLF) =
           {i \in 1 .. Len(d) - 3 :
              d[i] = "CR" /\ d[i + 1] = "LF" /\ d[i + 2] = "CR" /\ d[i + 3] = "LF"}
<1>1. /\ DoubleCRLF[1] = "CR" /\ DoubleCRLF[2] = "LF" /\ DoubleCRLF[3] = "CR"
      /\ DoubleCRLF[4] = "LF" /\ Len(DoubleCRLF) = 4
  BY DEF DoubleCRLF
<1>2. PICK n \in Nat : n = Len(d)
  OBVIOUS
<1>3. ASSUME NEW i \in 1 .. n - 3
      PROVE  SubSeq(d, i, i + 3) = DoubleCRLF <=>
               d[i] = "CR" /\ d[i + 1] = "LF" /\ d[i + 2] = "CR" /\ d[i + 3] = "LF"
  <2>1. /\ SubSeq(d, i, i + 3) \in Seq(T) /\ Len(SubSeq(d, i, i + 3)) = 4
        /\ SubSeq(d, i, i + 3)[1] = d[i] /\ SubSeq(d, i, i + 3)[2] = d[i + 1]
        /\ SubSeq(d, i, i + 3)[3] = d[i + 2] /\ SubSeq(d, i, i + 3)[4] = d[i + 3]
    <3>1. i \in Int /\ i + 3 \in Int /\ \A j \in i .. i + 3 : d[j] \in T
      BY <1>2
    <3>2. /\ SubSeq(d, i, i + 3) \in Seq(T)
          /\ Len(SubSeq(d, i, i + 3)) = IF i <= i + 3 THEN i + 3 - i + 1 ELSE 0
          /\ \A j \in 1 .. i + 3 - i + 1 : SubSeq(d, i, i + 3)[j] = d[i + j - 1]
      BY <3>1, SubSeqProperties
    <3>3. i <= i + 3 /\ i + 3 - i + 1 = 4 /\ i + 1 - 1 = i /\ i + 2 - 1 = i + 1
          /\ i + 3 - 1 = i + 2 /\ i + 4 - 1 = i + 3
      OBVIOUS
    <3>4. \A j \in 1 .. 4 : SubSeq(d, i, i + 3)[j] = d[i + j - 1]
      BY <3>2, <3>3
    <3>5. 1 \in 1 .. 4 /\ 2 \in 1 .. 4 /\ 3 \in 1 .. 4 /\ 4 \in 1 .. 4
      OBVIOUS
    <3> QED BY <3>2, <3>3, <3>4, <3>5
  <2>2. ASSUME SubSeq(d, i, i + 3) = DoubleCRLF
        PROVE  d[i] = "CR" /\ d[i + 1] = "LF" /\ d[i + 2] = "CR" /\ d[i + 3] = "LF"
    BY <1>1, <2>1, <2>2
  <2>3. ASSUME d[i] = "CR", d[i + 1] = "LF", d[i + 2] = "CR", d[i + 3] = "LF"
        PROVE  SubSeq(d, i, i + 3) = DoubleCRLF
    <3>1. i \in 1 .. Len(d) /\ i + 1 \in 1 .. Len(d)
      BY <1>2
    <3>2. "CR" \in T /\ "LF" \in T
      BY <2>3, <3>1
    <3>3. DoubleCRLF \in Seq(T)
      BY <3>2 DEF DoubleCRLF
    <3>4. \A j \in 1 .. 4 : SubSeq(d, i, i + 3)[j] = DoubleCRLF[j]
      BY <1>1, <2>1, <2>3
    <3> QED BY <1>1, <2>1, <3>3, <3>4, SeqEqual
  <2> QED BY <2>2, <2>3
<1>4. Places(d, DoubleCRLF) = {i \in 1 .. n - 4 + 1 : SubSeq(d, i, i + 4 - 1) = DoubleCRLF}
  BY <1>1, <1>2 DEF Places
<1>5. n - 4 + 1 = n - 3 /\ \A i \in 1 .. n - 3 : i + 4 - 1 = i + 3
  OBVIOUS
<1>6. Places(d, DoubleCRLF) = {i \in 1 .. n - 3 : SubSeq(d, i, i + 3) = DoubleCRLF}
  BY <1>4, <1>5
<1> QED BY <1>2, <1>3, <1>6

LEMMA AtChunkId ==
  ASSUME NEW T, NEW d \in Seq(T)
  PROVE  Places(d, <<"X-Chunk-ID:">>) = {i \in 1 .. Len(d) : d[i] = "X-Chunk-ID:"}
<1>1. Len(<<"X-Chunk-ID:">>) = 1 /\ <<"X-Chunk-ID:">>[1] = "X-Chunk-ID:"
  OBVIOUS
<1>2. PICK n \in Nat : n = Len(d)
  OBVIOUS
<1>3. ASSUME NEW i \in 1 .. n
      PROVE  SubSeq(d, i, i) = <<"X-Chunk-ID:">> <=> d[i] = "X-Chunk-ID:"
  <2>1. SubSeq(d, i, i) \in Seq(T) /\ Len(SubSeq(d, i, i)) = 1 /\ SubSeq(d, i, i)[1] = d[i]
    BY <1>2
  <2>2. ASSUME SubSeq(d, i, i) = <<"X-Chunk-ID:">> PROVE d[i] = "X-Chunk-ID:"
    BY <1>1, <2>1, <2>2
  <2>3. ASSUME d[i] = "X-Chunk-ID:" PROVE SubSeq(d, i, i) = <<"X-Chunk-ID:">>
    <3>1. "X-Chunk-ID:" \in T
      BY <1>2, <2>3
    <3>2. <<"X-Chunk-ID:">> \in Seq(T)
      BY <3>1
    <3>3. \A j \in 1 .. 1 : SubSeq(d, i, i)[j] = <<"X-Chunk-ID:">>[j]
      BY <1>1, <2>1, <2>3
    <3> QED BY <1>1, <2>1, <3>2, <3>3, SeqEqual
  <2> QED BY <2>2, <2>3
<1>4. Places(d, <<"X-Chunk-ID:">>) =
        {i \in 1 .. n - 1 + 1 : SubSeq(d, i, i + 1 - 1) = <<"X-Chunk-ID:">>}
  BY <1>1, <1>2 DEF Places
<1>5. n - 1 + 1 = n /\ \A i \in 1 .. n : i + 1 - 1 = i
  OBVIOUS
<1>6. Places(d, <<"X-Chunk-ID:">>) = {i \in 1 .. n : SubSeq(d, i, i) = <<"X-Chunk-ID:">>}
  BY <1>4, <1>5
<1> QED BY <1>2, <1>3, <1>6

LEMMA MinIs ==
  ASSUME NEW S, S \subseteq Int, NEW x \in S, \A y \in S : x <= y
  PROVE  Min(S) = x
<1>1. \A y \in S : (\A z \in S : y <= z) => y = x
  OBVIOUS
<1>2. Min(S) = CHOOSE y \in S : \A z \in S : y <= z
  BY DEF Min
<1> QED BY <1>1, <1>2

\* Two boundaries have arrived just when the beginning of what follows the
\* section has, and then the part lies between them.
LEMMA WholeSection ==
  ASSUME NEW b \in Seq(Symbols), NEW q \in {0, 2}, NEW p \in Part, NEW R \in Seq(Symbols),
         R = << >> \/ BeginsWithBoundary(R), ArrivedOf(b, q, p, R),
         NEW l \in Nat, l = Len(p.content)
  PROVE  /\ 19 + l - q <= Len(b) <=> HasPart(b)
         /\ HasPart(b) => BeginsWithBoundary(R) /\ Start(b) = 3 - q /\ Stop(b) = 18 + l - q
<1> DEFINE P == Places(b, Boundary)
<1>1. PICK L \in Nat : L = Len(b)
  OBVIOUS
<1>2. P = {i \in 1 .. L - 1 : b[i] = "--" /\ b[i + 1] = "boundary"}
  BY <1>1, PlacesOfBoundary
<1>3. P \in SUBSET (1 .. L) /\ P \subseteq Int
  BY <1>2
<1>4. /\ \A i \in P : i = 3 - q \/ 18 + l - q <= i
      /\ 5 - q <= L => 3 - q \in P
      /\ 19 + l - q <= L => BeginsWithBoundary(R) /\ 18 + l - q \in P
  BY <1>1, BoundaryPlaces
<1>5. PICK x \in Int, y \in Int : x = 3 - q /\ y = 18 + l - q
  <2>1. 3 - q \in Int /\ 18 + l - q \in Int
    OBVIOUS
  <2> QED BY <2>1
<1>6. x < y /\ (19 + l - q <= L => 5 - q <= L) /\ (y + 1 <= L <=> 19 + l - q <= L)
  BY <1>5
<1> HIDE DEF P
<1>7. ASSUME 19 + l - q <= L
      PROVE  /\ HasPart(b) /\ BeginsWithBoundary(R)
             /\ Start(b) = x /\ Stop(b) = y
  <2>1. x \in P /\ y \in P /\ x # y /\ BeginsWithBoundary(R)
    BY <1>4, <1>5, <1>6, <1>7
  <2>2. HasPart(b)
    BY <1>3, <2>1, MoreThanOne DEF HasPart, P
  <2>3. \A i \in P : x <= i
    BY <1>3, <1>4, <1>5, <1>6
  <2>4. Start(b) = x
    BY <1>3, <2>1, <2>3, MinIs DEF Start, P
  <2>5. y \in P \ {x} /\ P \ {x} \subseteq Int /\ \A i \in P \ {x} : y <= i
    BY <1>3, <1>4, <1>5, <2>1
  <2>6. Stop(b) = y
    BY <2>4, <2>5, MinIs DEF Stop, P
  <2> QED BY <2>1, <2>2, <2>4, <2>6
<1>8. ASSUME HasPart(b) PROVE 19 + l - q <= L
  <2>1. SUFFICES ASSUME ~ (19 + l - q <= L) PROVE FALSE
    OBVIOUS
  <2>2. ASSUME NEW i \in P PROVE i = x
    <3>1. i \in Int /\ i <= L - 1
      BY <1>2
    <3>2. ~ (y <= i)
      BY <1>6, <2>1, <3>1
    <3> QED BY <1>4, <1>5, <3>2
  <2>3. P \in SUBSET {x}
    BY <2>2
  <2>4. ~ (Cardinality(P) > 1)
    BY <2>3, AtMostOne
  <2> QED BY <1>8, <2>4 DEF HasPart, P
<1> QED BY <1>1, <1>5, <1>7, <1>8

\* What the client makes of it is the part.
LEMMA ParsedPart ==
  ASSUME NEW p \in Part, NEW R, NEW l \in Nat, l = Len(p.content),
         NEW d \in Seq(Symbols), Len(d) = 13 + l, \A m \in 1 .. 13 + l : d[m] = At(p, R, m + 4)
  PROVE  Parsed(d) = <<p>>
<1>1. /\ d[1] = "CR" /\ d[2] = "LF" /\ d[3] = "Content-Type" /\ d[4] = "CR" /\ d[5] = "LF"
      /\ d[6] = "X-Chunk-ID:" /\ d[7] = p.id
      /\ d[8] = "CR" /\ d[9] = "LF" /\ d[10] = "CR" /\ d[11] = "LF"
  <2>1. \A m \in 1 .. 11 : d[m] = At(p, R, m + 4)
    <3>1. \A m \in 1 .. 11 : m \in 1 .. 13 + l
      OBVIOUS
    <3> QED BY <3>1
  <2>2. /\ d[1] = At(p, R, 5) /\ d[2] = At(p, R, 6) /\ d[3] = At(p, R, 7)
        /\ d[4] = At(p, R, 8) /\ d[5] = At(p, R, 9) /\ d[6] = At(p, R, 10)
        /\ d[7] = At(p, R, 11) /\ d[8] = At(p, R, 12) /\ d[9] = At(p, R, 13)
        /\ d[10] = At(p, R, 14) /\ d[11] = At(p, R, 15)
    BY <2>1
  <2> QED BY <2>2, AtHeader
<1>2. HeadersEnd(d) = 8 /\ Places(d, DoubleCRLF) # {}
  <2> DEFINE S == Places(d, DoubleCRLF)
  <2>1. S = {i \in 1 .. 10 + l : d[i] = "CR" /\ d[i + 1] = "LF" /\ d[i + 2] = "CR" /\ d[i + 3] = "LF"}
    <3>1. Len(d) - 3 = 10 + l
      OBVIOUS
    <3> QED BY <3>1, AtDoubleCRLF
  <2>2. 8 \in S
    BY <1>1, <2>1
  <2>3. ASSUME NEW i \in S PROVE 8 <= i
    <3>1. i \in Int /\ 1 <= i /\ d[i] = "CR" /\ d[i + 1] = "LF" /\ d[i + 2] = "CR"
      BY <2>1
    <3>2. /\ i = 1 => d[3] = "CR"
          /\ i = 2 => d[2] = "CR"
          /\ i = 3 => d[3] = "CR"
          /\ i = 4 => d[6] = "CR"
          /\ i = 5 => d[5] = "CR"
          /\ i = 6 => d[6] = "CR"
          /\ i = 7 => d[8] = "LF"
      BY <3>1
    <3>3. i # 1 /\ i # 2 /\ i # 3 /\ i # 4 /\ i # 5 /\ i # 6 /\ i # 7
      BY <1>1, <3>2
    <3> QED BY <3>1, <3>3
  <2>4. S \subseteq Int
    BY <2>1
  <2> HIDE DEF S
  <2>5. Min(S) = 8
    BY <2>2, <2>3, <2>4, MinIs
  <2> QED BY <2>2, <2>5 DEF HeadersEnd, S
<1>3. ChunkId(d) = p.id
  <2> DEFINE S == Places(d, <<"X-Chunk-ID:">>)
  <2>1. S = {i \in 1 .. 13 + l : d[i] = "X-Chunk-ID:"}
    BY AtChunkId
  <2>2. 6 \in S
    <3>1. 6 \in 1 .. 13 + l
      OBVIOUS
    <3> QED BY <1>1, <2>1, <3>1
  <2>3. ASSUME NEW i \in S PROVE 6 <= i
    <3>1. i \in Int /\ 1 <= i /\ d[i] = "X-Chunk-ID:"
      BY <2>1
    <3>2. i # 1 /\ i # 2 /\ i # 3 /\ i # 4 /\ i # 5
      BY <1>1, <3>1
    <3> QED BY <3>1, <3>2
  <2>4. S \subseteq Int
    BY <2>1
  <2> HIDE DEF S
  <2>5. Min(S) = 6
    BY <2>2, <2>3, <2>4, MinIs
  <2> QED BY <1>1, <2>5 DEF ChunkId, S
<1>4. Content(d) = p.content
  <2>1. Content(d) = SubSeq(d, 12, 11 + l)
    <3>1. 8 + 4 = 12 /\ Len(d) - 2 = 11 + l
      OBVIOUS
    <3> QED BY <1>2, <3>1 DEF Content
  <2>2. p.content \in Seq(Bytes) /\ p.content \in Seq(Symbols)
    BY SeqMonotonic DEF Part, Bytes, Symbols
  <2>3. /\ SubSeq(d, 12, 11 + l) \in Seq(Symbols) /\ Len(SubSeq(d, 12, 11 + l)) = l
        /\ \A j \in 1 .. l : SubSeq(d, 12, 11 + l)[j] = d[12 + j - 1]
    <3>1. \A j \in 12 .. 11 + l : d[j] \in Symbols
      BY ElementOfSeq
    <3>2. 12 \in Int /\ 11 + l \in Int
      OBVIOUS
    <3>3. /\ SubSeq(d, 12, 11 + l) \in Seq(Symbols)
          /\ Len(SubSeq(d, 12, 11 + l)) = IF 12 <= 11 + l THEN 11 + l - 12 + 1 ELSE 0
          /\ \A j \in 1 .. 11 + l - 12 + 1 : SubSeq(d, 12, 11 + l)[j] = d[12 + j - 1]
      BY <3>1, <3>2, SubSeqProperties
    <3>4. 11 + l - 12 + 1 = l /\ (~ (12 <= 11 + l) => l = 0)
      OBVIOUS
    <3> QED BY <3>3, <3>4
  <2>4. ASSUME NEW j \in 1 .. l PROVE d[12 + j - 1] = p.content[j]
    <3>1. PICK m \in Int : m = 12 + j - 1
      OBVIOUS
    <3>2. m \in 1 .. 13 + l /\ m + 4 = 15 + j /\ ~ (15 + j <= 15) /\ 15 + j <= 15 + l
          /\ 15 + j - 15 = j
      BY <3>1
    <3>3. d[m] = At(p, R, 15 + j)
      BY <3>2
    <3>4. At(p, R, 15 + j) = p.content[j]
      BY <3>2 DEF At
    <3> QED BY <3>1, <3>3, <3>4
  <2> QED BY <2>1, <2>2, <2>3, <2>4, SeqEqual
<1>5. p = [id |-> p.id, content |-> p.content]
  BY DEF Part
<1> QED BY <1>2, <1>3, <1>4, <1>5 DEF Parsed

----------------------------------------------------------------------------
(* An answer and what the client has made of it.  d is what it has not     *)
(* parsed, on its way and lost included; k of the parts r that the server  *)
(* has streamed are parsed; rest[i] is the answer from its section i on.   *)
(* The client stops between the first two tokens of a section and the      *)
(* boundary that follows.                                                  *)

Section(p) == SectionHeader(p.id) \o p.content

Before(k) == IF k = 0 THEN << >> ELSE <<"CR", "LF">>
Skipped(k) == IF k = 0 THEN 0 ELSE 2
Resume(k, d) == Before(k) \o d

Answers(d, k, r, rest, closed) ==
  /\ rest \in [Nat -> Seq(Symbols)]
  /\ k \in 0 .. Len(r)
  /\ rest[Len(r) + 1] = IF closed THEN Closing ELSE << >>
  /\ \A i \in k + 1 .. Len(r) : rest[i] = Section(r[i]) \o rest[i + 1]
  /\ Resume(k, d) = rest[k + 1]

LEMMA SectionType ==
  ASSUME NEW p \in Part
  PROVE  /\ SectionHeader(p.id) \in Seq(Symbols) /\ Len(SectionHeader(p.id)) = 15
         /\ p.content \in Seq(Symbols)
         /\ Section(p) \in Seq(Symbols) /\ Len(Section(p)) = 15 + Len(p.content)
<1>1. SectionHeader(p.id) \in Seq(Symbols) /\ Len(SectionHeader(p.id)) = 15
  <2>1. p.id \in Symbols
    BY DEF Part, Symbols
  <2> QED BY <2>1 DEF SectionHeader, Symbols, Bytes
<1>2. p.content \in Seq(Symbols)
  BY SeqMonotonic DEF Part, Bytes, Symbols
<1>3. PICK l \in Nat : l = Len(p.content)
  BY DEF Part
<1>4. /\ Section(p) \in Seq(Symbols)
      /\ Len(Section(p)) = Len(SectionHeader(p.id)) + Len(p.content)
  BY <1>1, <1>2, ConcatProperties DEF Section
<1>5. Section(p) \in Seq(Symbols) /\ Len(Section(p)) = 15 + l
  BY <1>1, <1>3, <1>4
<1> QED BY <1>1, <1>2, <1>3, <1>5

LEMMA ClosingType == Closing \in Seq(Symbols) /\ Len(Closing) = 7 /\ BeginsWithBoundary(Closing)
BY DEF Closing, Symbols, Bytes, BeginsWithBoundary

LEMMA BeforeType ==
  ASSUME NEW k \in Nat
  PROVE  /\ Before(k) \in Seq(Symbols)
         /\ k = 0 => Len(Before(k)) = 0
         /\ k # 0 => Len(Before(k)) = 2 /\ Before(k)[1] = "CR" /\ Before(k)[2] = "LF"
<1>1. CASE k = 0
  BY <1>1 DEF Before
<1>2. CASE k # 0
  BY <1>2 DEF Before, Symbols, Bytes
<1> QED BY <1>1, <1>2

LEMMA SectionAt ==
  ASSUME NEW p \in Part, NEW R \in Seq(Symbols)
  PROVE  /\ Section(p) \o R \in Seq(Symbols)
         /\ Len(Section(p) \o R) = 15 + Len(p.content) + Len(R)
         /\ \A o \in 1 .. 15 + Len(p.content) + Len(R) : (Section(p) \o R)[o] = At(p, R, o)
<1>1. PICK l \in Nat : l = Len(p.content)
  BY DEF Part
<1>2. /\ Section(p) \in Seq(Symbols) /\ Len(Section(p)) = 15 + l
      /\ SectionHeader(p.id) \in Seq(Symbols) /\ Len(SectionHeader(p.id)) = 15
      /\ p.content \in Seq(Symbols)
  BY <1>1, SectionType
<1>3. PICK rl \in Nat : rl = Len(R)
  OBVIOUS
<1>4. /\ Section(p) \o R \in Seq(Symbols) /\ Len(Section(p) \o R) = Len(Section(p)) + Len(R)
      /\ \A o \in 1 .. Len(Section(p)) + Len(R) :
           (Section(p) \o R)[o] =
             IF o <= Len(Section(p)) THEN Section(p)[o] ELSE R[o - Len(Section(p))]
  BY <1>2, ConcatProperties
<1>5. /\ Section(p) \o R \in Seq(Symbols) /\ Len(Section(p) \o R) = 15 + l + rl
      /\ \A o \in 1 .. 15 + l + rl :
           (Section(p) \o R)[o] = IF o <= 15 + l THEN Section(p)[o] ELSE R[o - (15 + l)]
  <2>1. Len(Section(p)) = 15 + l /\ Len(R) = rl
    BY <1>2, <1>3
  <2> QED BY <1>4, <2>1
<1>6. \A o \in 1 .. 15 + l :
        Section(p)[o] = IF o <= 15 THEN SectionHeader(p.id)[o] ELSE p.content[o - 15]
  <2>1. \A o \in 1 .. Len(SectionHeader(p.id)) + Len(p.content) :
          Section(p)[o] =
            IF o <= Len(SectionHeader(p.id)) THEN SectionHeader(p.id)[o]
            ELSE p.content[o - Len(SectionHeader(p.id))]
    BY <1>2, ConcatProperties DEF Section
  <2>2. Len(SectionHeader(p.id)) = 15 /\ Len(p.content) = l
    BY <1>1, <1>2
  <2> QED BY <2>1, <2>2
<1>7. ASSUME NEW o \in 1 .. 15 + l + rl PROVE (Section(p) \o R)[o] = At(p, R, o)
  <2>1. CASE o <= 15 + l
    <3>1. o \in 1 .. 15 + l
      BY <2>1
    <3>2. (Section(p) \o R)[o] = Section(p)[o]
      BY <1>5, <2>1
    <3>3. Section(p)[o] = IF o <= 15 THEN SectionHeader(p.id)[o] ELSE p.content[o - 15]
      BY <1>6, <3>1
    <3>4. o <= 15 + Len(p.content)
      BY <1>1, <2>1
    <3> QED BY <3>2, <3>3, <3>4 DEF At
  <2>2. CASE ~ (o <= 15 + l)
    <3>1. o - (15 + l) = o - 15 - l /\ ~ (o <= 15)
      BY <2>2
    <3>2. (Section(p) \o R)[o] = R[o - 15 - l]
      BY <1>5, <2>2, <3>1
    <3>3. ~ (o <= 15 + Len(p.content)) /\ o - 15 - Len(p.content) = o - 15 - l
      BY <1>1, <2>2
    <3> QED BY <3>1, <3>2, <3>3 DEF At
  <2> QED BY <2>1, <2>2
<1> QED BY <1>1, <1>3, <1>5, <1>7

LEMMA RestBegins ==
  ASSUME NEW d, NEW k, NEW r \in Seq(Part), NEW rest, NEW closed \in BOOLEAN,
         Answers(d, k, r, rest, closed), NEW i \in k + 1 .. Len(r) + 1
  PROVE  /\ rest[i] \in Seq(Symbols)
         /\ BeginsWithBoundary(rest[i]) \/ (rest[i] = << >> /\ i = Len(r) + 1 /\ ~ closed)
<1>1. PICK n \in Nat : n = Len(r)
  OBVIOUS
<1>2. k \in Nat /\ k <= n /\ rest \in [Nat -> Seq(Symbols)]
  BY <1>1 DEF Answers
<1>3. i \in Nat /\ rest[i] \in Seq(Symbols)
  BY <1>1, <1>2
<1>4. CASE i = n + 1
  <2>1. rest[i] = IF closed THEN Closing ELSE << >>
    BY <1>1, <1>4 DEF Answers
  <2> QED BY <1>1, <1>3, <1>4, <2>1, ClosingType
<1>5. CASE i # n + 1
  <2>1. i \in k + 1 .. n /\ i \in 1 .. n /\ i + 1 \in Nat
    <3>1. i \in Int /\ k + 1 <= i /\ i <= n + 1
      BY <1>1, <1>2
    <3> QED BY <1>2, <1>5, <3>1
  <2>2. r[i] \in Part /\ rest[i + 1] \in Seq(Symbols)
    BY <1>1, <1>2, <2>1
  <2>3. rest[i] = Section(r[i]) \o rest[i + 1]
    BY <1>1, <2>1 DEF Answers
  <2>4. PICK l \in Nat, rl \in Nat : l = Len(r[i].content) /\ rl = Len(rest[i + 1])
    BY <2>2 DEF Part
  <2>5. 4 <= Len(rest[i]) /\ \A o \in 1 .. 4 : rest[i][o] = At(r[i], rest[i + 1], o)
    <3>0. PICK p \in Part, R \in Seq(Symbols) : p = r[i] /\ R = rest[i + 1]
      BY <2>2
    <3>1. /\ Len(rest[i]) = 15 + l + rl
          /\ \A o \in 1 .. 15 + l + rl : rest[i][o] = At(r[i], rest[i + 1], o)
      <4>1. /\ Len(Section(p) \o R) = 15 + Len(p.content) + Len(R)
            /\ \A o \in 1 .. 15 + Len(p.content) + Len(R) : (Section(p) \o R)[o] = At(p, R, o)
        BY SectionAt
      <4> QED BY <2>3, <2>4, <3>0, <4>1
    <3>2. 4 <= 15 + l + rl /\ \A o \in 1 .. 4 : o \in 1 .. 15 + l + rl
      OBVIOUS
    <3> QED BY <3>1, <3>2
  <2>6. /\ At(r[i], rest[i + 1], 1) = "CR" /\ At(r[i], rest[i + 1], 2) = "LF"
        /\ At(r[i], rest[i + 1], 3) = "--" /\ At(r[i], rest[i + 1], 4) = "boundary"
    BY DEF At, SectionHeader
  <2> QED BY <1>3, <2>5, <2>6 DEF BeginsWithBoundary
<1> QED BY <1>4, <1>5

\* What has arrived, b, and what has not, w, token by token.
LEMMA AnswerAt ==
  ASSUME NEW b \in Seq(Symbols), NEW w \in Seq(Symbols), NEW k \in Nat
  PROVE  /\ Resume(k, b \o w) \in Seq(Symbols)
         /\ Len(Resume(k, b \o w)) = Skipped(k) + Len(b) + Len(w)
         /\ \A m \in 1 .. Len(b) : b[m] = Resume(k, b \o w)[m + Skipped(k)]
         /\ \A m \in 1 .. Len(w) : w[m] = Resume(k, b \o w)[m + Skipped(k) + Len(b)]
<1> DEFINE F == Resume(k, b \o w)
<1>0. PICK q \in {0, 2} : q = Skipped(k)
  BY DEF Skipped
<1>1. PICK bl \in Nat, wl \in Nat : bl = Len(b) /\ wl = Len(w)
  OBVIOUS
<1>2. Before(k) \in Seq(Symbols) /\ Len(Before(k)) = q
  BY <1>0, BeforeType DEF Skipped
<1>3. /\ b \o w \in Seq(Symbols) /\ Len(b \o w) = bl + wl
      /\ \A m \in 1 .. bl + wl : (b \o w)[m] = IF m <= bl THEN b[m] ELSE w[m - bl]
  BY <1>1, ConcatProperties
<1>4. /\ F \in Seq(Symbols) /\ Len(F) = Len(Before(k)) + Len(b \o w)
      /\ \A o \in 1 .. Len(Before(k)) + Len(b \o w) :
           F[o] = IF o <= Len(Before(k)) THEN Before(k)[o] ELSE (b \o w)[o - Len(Before(k))]
  BY <1>2, <1>3, ConcatProperties DEF Resume
<1> HIDE DEF F
<1>5. /\ Len(F) = q + (bl + wl)
      /\ \A o \in 1 .. q + (bl + wl) :
           F[o] = IF o <= q THEN Before(k)[o] ELSE (b \o w)[o - q]
  BY <1>2, <1>3, <1>4
<1>6. q \in Nat
  OBVIOUS
<1>7. ASSUME NEW m \in 1 .. bl + wl PROVE (b \o w)[m] = F[m + q]
  <2>1. PICK o \in Int : o = m + q
    BY <1>6
  <2>2. o \in 1 .. q + (bl + wl) /\ ~ (o <= q) /\ o - q = m
    BY <1>6, <2>1
  <2>3. F[o] = (b \o w)[o - q]
    BY <1>5, <2>2
  <2> QED BY <2>1, <2>2, <2>3
<1>8. ASSUME NEW m \in 1 .. bl PROVE b[m] = F[m + q]
  <2>1. m \in 1 .. bl + wl /\ m <= bl
    OBVIOUS
  <2> QED BY <1>3, <1>7, <2>1
<1>9. ASSUME NEW m \in 1 .. wl PROVE w[m] = F[m + q + bl]
  <2>1. m + bl \in 1 .. bl + wl /\ ~ (m + bl <= bl) /\ m + bl - bl = m /\ m + bl + q = m + q + bl
    BY <1>6
  <2>2. (b \o w)[m + bl] = w[m]
    BY <1>3, <2>1
  <2>3. (b \o w)[m + bl] = F[m + bl + q]
    BY <1>7, <2>1
  <2> QED BY <2>1, <2>2, <2>3
<1>10. q + (bl + wl) = q + bl + wl
  BY <1>6
<1> QED BY <1>0, <1>1, <1>4, <1>5, <1>8, <1>9, <1>10 DEF F

LEMMA ArrivedOfFirst ==
  ASSUME NEW b \in Seq(Symbols), NEW w \in Seq(Symbols), NEW k \in Nat, NEW p \in Part,
         NEW R \in Seq(Symbols), Resume(k, b \o w) = Section(p) \o R
  PROVE  ArrivedOf(b, Skipped(k), p, R)
<1>0. PICK q \in {0, 2} : q = Skipped(k)
  BY DEF Skipped
<1>1. PICK bl \in Nat, wl \in Nat, l \in Nat, rl \in Nat :
        bl = Len(b) /\ wl = Len(w) /\ l = Len(p.content) /\ rl = Len(R)
  <2>1. Len(b) \in Nat /\ Len(w) \in Nat /\ Len(p.content) \in Nat /\ Len(R) \in Nat
    BY DEF Part
  <2> QED BY <2>1
<1>2. PICK F : F = Section(p) \o R
  OBVIOUS
<1>3. /\ F \in Seq(Symbols) /\ Len(F) = 15 + l + rl
      /\ \A o \in 1 .. 15 + l + rl : F[o] = At(p, R, o)
  BY <1>1, <1>2, SectionAt
<1>4. Resume(k, b \o w) = F
  BY <1>2
<1>5. Len(F) = q + bl + wl /\ \A m \in 1 .. bl : b[m] = F[m + q]
  <2>1. /\ Len(F) = Skipped(k) + Len(b) + Len(w)
        /\ \A m \in 1 .. Len(b) : b[m] = F[m + Skipped(k)]
    <3>1. /\ Len(Resume(k, b \o w)) = Skipped(k) + Len(b) + Len(w)
          /\ \A m \in 1 .. Len(b) : b[m] = Resume(k, b \o w)[m + Skipped(k)]
      BY AnswerAt, ZenonT(60)
    <3> QED BY <1>4, <3>1, Zenon
  <2> QED BY <1>0, <1>1, <2>1
<1>6. q \in Nat /\ bl + q <= 15 + l + rl
  BY <1>3, <1>5
<1>7. \A m \in 1 .. bl : m + q \in 1 .. 15 + l + rl
  BY <1>6
<1>8. \A m \in 1 .. bl : b[m] = At(p, R, m + q)
  BY <1>3, <1>5, <1>7
<1> QED BY <1>0, <1>1, <1>6, <1>8 DEF ArrivedOf

\* With every section parsed there is at most one boundary left.
LEMMA NoneLeft ==
  ASSUME NEW b \in Seq(Symbols), NEW w \in Seq(Symbols), NEW k, NEW r \in Seq(Part), NEW rest,
         NEW closed \in BOOLEAN, Answers(b \o w, k, r, rest, closed), k = Len(r)
  PROVE  ~ HasPart(b) /\ (k = 0 \/ closed)
<1>1. k \in Nat
  OBVIOUS
<1>2. PICK q \in {0, 2} : q = Skipped(k)
  BY DEF Skipped
<1>3. PICK F : F = rest[k + 1]
  OBVIOUS
<1>4. F = (IF closed THEN Closing ELSE << >>) /\ Resume(k, b \o w) = F
  BY <1>3 DEF Answers
<1>5. F \in Seq(Symbols)
  BY <1>4, ClosingType
<1>6. PICK bl \in Nat, wl \in Nat : bl = Len(b) /\ wl = Len(w)
  OBVIOUS
<1>7. Len(F) = q + bl + wl /\ \A m \in 1 .. bl : b[m] = F[m + q]
  <2>1. /\ Len(F) = Skipped(k) + Len(b) + Len(w)
        /\ \A m \in 1 .. Len(b) : b[m] = F[m + Skipped(k)]
    <3>1. /\ Len(Resume(k, b \o w)) = Skipped(k) + Len(b) + Len(w)
          /\ \A m \in 1 .. Len(b) : b[m] = Resume(k, b \o w)[m + Skipped(k)]
      BY <1>1, AnswerAt, ZenonT(60)
    <3> QED BY <1>4, <3>1, Zenon
  <2> QED BY <1>2, <1>6, <2>1
<1>8. Places(b, Boundary) = {i \in 1 .. bl - 1 : b[i] = "--" /\ b[i + 1] = "boundary"}
  BY <1>6, PlacesOfBoundary
<1>9. CASE closed
  <2>1. F = Closing
    BY <1>4, <1>9
  <2>2. ASSUME NEW i \in Places(b, Boundary) PROVE i = 3 - q
    <3>1. i \in Int /\ 1 <= i /\ i <= bl - 1 /\ b[i + 1] = "boundary"
      BY <1>8
    <3>2. PICK o \in Int : o = i + 1 + q
      BY <3>1
    <3>6. q \in Nat /\ bl + q <= 7
      <4>1. Len(F) = 7
        BY <2>1, ClosingType
      <4>2. q + bl + wl = 7
        BY <1>7, <4>1
      <4> QED BY <4>2
    <3>3. i + 1 \in 1 .. bl /\ o \in 1 .. 7
      BY <3>1, <3>2, <3>6
    <3>4. Closing[o] = "boundary"
      BY <1>7, <2>1, <3>1, <3>2, <3>3
    <3>5. o = 4
      BY <3>3, <3>4 DEF Closing
    <3> QED BY <3>1, <3>2, <3>5
  <2>3. Places(b, Boundary) \in SUBSET {3 - q}
    BY <2>2
  <2> QED BY <1>9, <2>3, AtMostOne DEF HasPart
<1>10. CASE ~ closed
  <2>1. Len(F) = 0
    BY <1>4, <1>10
  <2>2. q = 0 /\ bl = 0
    BY <1>7, <2>1
  <2>3. Places(b, Boundary) \in SUBSET {0}
    BY <1>8, <2>2
  <2>4. k = 0
    BY <1>2, <2>2 DEF Skipped
  <2> QED BY <2>3, <2>4, AtMostOne DEF HasPart
<1> QED BY <1>9, <1>10

\* The next section and what follows it.
SectionAhead(d, k, r, rest, closed) ==
  /\ k \in Nat /\ k + 1 \in Nat /\ k + 1 # 0 /\ k + 1 \in 1 .. Len(r)
  /\ r[k + 1] \in Part /\ rest[k + 2] \in Seq(Symbols)
  /\ Resume(k, d) = Section(r[k + 1]) \o rest[k + 2]
  /\ BeginsWithBoundary(rest[k + 2]) \/ (rest[k + 2] = << >> /\ ~ closed)

LEMMA NextSection ==
  ASSUME NEW d, NEW k, NEW r \in Seq(Part), NEW rest, NEW closed \in BOOLEAN,
         Answers(d, k, r, rest, closed), k # Len(r)
  PROVE  SectionAhead(d, k, r, rest, closed)
<1>1. PICK n \in Nat : n = Len(r)
  OBVIOUS
<1>2. k \in Nat /\ k <= n
  BY <1>1 DEF Answers
<1>3. /\ k + 1 \in k + 1 .. n /\ k + 1 \in 1 .. n /\ k + 1 + 1 = k + 2 /\ k + 1 # 0
      /\ k + 2 \in k + 1 .. n + 1 /\ k + 1 \in Nat
  BY <1>1, <1>2
<1>4. r[k + 1] \in Part
  BY <1>1, <1>3
<1>5. Resume(k, d) = rest[k + 1] /\ rest[k + 1] = Section(r[k + 1]) \o rest[k + 1 + 1]
  BY <1>1, <1>3 DEF Answers
<1>6. /\ rest[k + 2] \in Seq(Symbols)
      /\ BeginsWithBoundary(rest[k + 2]) \/ (rest[k + 2] = << >> /\ ~ closed)
  <2>1. PICK i \in k + 1 .. Len(r) + 1 : i = k + 2
    BY <1>1, <1>3
  <2>2. /\ rest[i] \in Seq(Symbols)
        /\ BeginsWithBoundary(rest[i]) \/ (rest[i] = << >> /\ ~ closed)
    BY RestBegins
  <2> QED BY <2>1, <2>2
<1> QED BY <1>1, <1>2, <1>3, <1>4, <1>5, <1>6 DEF SectionAhead

\* A part is extracted when it has arrived, and is the next one.
LEMMA Extracted ==
  ASSUME NEW b \in Seq(Symbols), NEW w \in Seq(Symbols), NEW k, NEW r \in Seq(Part), NEW rest,
         NEW closed \in BOOLEAN, Answers(b \o w, k, r, rest, closed), HasPart(b)
  PROVE  /\ k + 1 \in 1 .. Len(r)
         /\ Parsed(NextPart(b)) = <<r[k + 1]>>
         /\ Rest(b) \in Seq(Symbols)
         /\ Answers(Rest(b) \o w, k + 1, r, rest, closed)
<1>1. k # Len(r)
  BY NoneLeft
<1>2. /\ k \in Nat /\ k + 1 \in Nat /\ k + 1 # 0 /\ k + 1 \in 1 .. Len(r)
      /\ r[k + 1] \in Part /\ rest[k + 2] \in Seq(Symbols)
      /\ Resume(k, b \o w) = Section(r[k + 1]) \o rest[k + 2]
      /\ BeginsWithBoundary(rest[k + 2]) \/ (rest[k + 2] = << >> /\ ~ closed)
  <2>1. SectionAhead(b \o w, k, r, rest, closed)
    BY <1>1, NextSection
  <2> QED BY <2>1, Zenon DEF SectionAhead
<1>25. PICK p \in Part, R \in Seq(Symbols) : p = r[k + 1] /\ R = rest[k + 2]
  BY <1>2
<1>26. k \in Nat /\ k + 1 \in Nat
  BY <1>2
<1>3. /\ k + 1 # 0 /\ k + 1 \in 1 .. Len(r)
      /\ Resume(k, b \o w) = Section(p) \o R
      /\ R = << >> \/ BeginsWithBoundary(R)
  BY <1>2, <1>25
<1>4. PICK q \in {0, 2} : q = Skipped(k)
  BY DEF Skipped
<1>5. PICK bl \in Nat, wl \in Nat, l \in Nat, rl \in Nat :
        bl = Len(b) /\ wl = Len(w) /\ l = Len(p.content) /\ rl = Len(R)
  <2>1. Len(b) \in Nat /\ Len(w) \in Nat /\ Len(p.content) \in Nat /\ Len(R) \in Nat
    BY DEF Part
  <2> QED BY <2>1
<1>6. ArrivedOf(b, q, p, R)
  BY <1>3, <1>4, <1>26, ArrivedOfFirst
<1>7. 19 + l - q <= bl /\ BeginsWithBoundary(R) /\ Start(b) = 3 - q /\ Stop(b) = 18 + l - q
  BY <1>3, <1>5, <1>6, WholeSection
<1>8. q \in Nat /\ q <= 2
  OBVIOUS
<1>9. NextPart(b) = SubSeq(b, 5 - q, 17 + l - q)
  <2>1. Len(Boundary) = 2
    BY DEF Boundary
  <2>2. 3 - q + 2 = 5 - q /\ 18 + l - q - 1 = 17 + l - q
    BY <1>8
  <2> QED BY <1>7, <2>1, <2>2 DEF NextPart
<1>10. Parsed(NextPart(b)) = <<p>>
  <2>1. PICK x \in Int, y \in Int : x = 5 - q /\ y = 17 + l - q
    <3>1. 5 - q \in Int /\ 17 + l - q \in Int
      BY <1>8
    <3> QED BY <3>1
  <2>2. 1 <= x /\ x <= y /\ y <= bl /\ y - x + 1 = 13 + l /\ x - 1 + q = 4
    BY <1>7, <1>8, <2>1
  <2>3. \A i \in x .. y : i \in 1 .. bl
    BY <2>2
  <2>4. \A i \in x .. y : b[i] \in Symbols
    BY <1>5, <2>3
  <2>5. /\ SubSeq(b, x, y) \in Seq(Symbols)
        /\ Len(SubSeq(b, x, y)) = IF x <= y THEN y - x + 1 ELSE 0
        /\ \A i \in 1 .. y - x + 1 : SubSeq(b, x, y)[i] = b[x + i - 1]
    BY <2>4, SubSeqProperties
  <2>6. ASSUME NEW m \in 1 .. 13 + l PROVE SubSeq(b, x, y)[m] = At(p, R, m + 4)
    <3>1. PICK i \in Int : i = x + m - 1
      OBVIOUS
    <3>2. i \in 1 .. bl /\ i + q = m + 4 /\ m \in 1 .. y - x + 1
      BY <1>8, <2>2, <3>1
    <3>3. SubSeq(b, x, y)[m] = b[i]
      BY <2>5, <3>1, <3>2
    <3>4. b[i] = At(p, R, i + q)
      BY <1>5, <1>6, <3>2 DEF ArrivedOf
    <3> QED BY <3>2, <3>3, <3>4
  <2>7. Len(SubSeq(b, x, y)) = 13 + l
    BY <2>2, <2>5
  <2> QED BY <1>5, <1>9, <2>1, <2>5, <2>6, <2>7, ParsedPart
<1>11. PICK t \in Int : t = 18 + l - q
  <2>1. 18 + l - q \in Int
    BY <1>8
  <2> QED BY <2>1
<1>12. 1 <= t /\ t <= bl /\ t + q = 18 + l
  BY <1>7, <1>8, <1>11
<1>13. /\ Rest(b) \in Seq(Symbols) /\ Len(Rest(b)) = bl - t + 1
       /\ \A i \in 1 .. bl - t + 1 : Rest(b)[i] = b[t + i - 1]
  <2>1. \A i \in t .. bl : i \in 1 .. bl
    BY <1>12
  <2>2. \A i \in t .. bl : b[i] \in Symbols
    BY <1>5, <2>1
  <2>3. /\ SubSeq(b, t, bl) \in Seq(Symbols)
        /\ Len(SubSeq(b, t, bl)) = IF t <= bl THEN bl - t + 1 ELSE 0
        /\ \A i \in 1 .. bl - t + 1 : SubSeq(b, t, bl)[i] = b[t + i - 1]
    BY <2>2, SubSeqProperties
  <2>4. Rest(b) = SubSeq(b, t, bl)
    BY <1>5, <1>7, <1>11 DEF Rest
  <2> QED BY <1>12, <2>3, <2>4
<1>14. PICK F \in Seq(Symbols) : F = Section(p) \o R
  BY SectionAt
<1>15. Len(F) = 15 + l + rl /\ \A o \in 1 .. 15 + l + rl : F[o] = At(p, R, o)
  BY <1>5, <1>14, SectionAt
<1>16. /\ Len(F) = q + bl + wl
       /\ \A m \in 1 .. bl : b[m] = F[m + q]
       /\ \A m \in 1 .. wl : w[m] = F[m + q + bl]
  <2>1. /\ Resume(k, b \o w) \in Seq(Symbols)
        /\ Len(Resume(k, b \o w)) = Skipped(k) + Len(b) + Len(w)
        /\ \A m \in 1 .. Len(b) : b[m] = Resume(k, b \o w)[m + Skipped(k)]
        /\ \A m \in 1 .. Len(w) : w[m] = Resume(k, b \o w)[m + Skipped(k) + Len(b)]
    BY <1>26, AnswerAt, ZenonT(60)
  <2> QED BY <1>3, <1>4, <1>5, <1>14, <2>1
<1>17. Skipped(k + 1) = 2
  BY <1>3 DEF Skipped
<1>27. /\ Resume(k + 1, Rest(b) \o w) \in Seq(Symbols)
       /\ Len(Resume(k + 1, Rest(b) \o w)) = Skipped(k + 1) + Len(Rest(b)) + Len(w)
       /\ \A m \in 1 .. Len(Rest(b)) :
            Rest(b)[m] = Resume(k + 1, Rest(b) \o w)[m + Skipped(k + 1)]
       /\ \A m \in 1 .. Len(w) :
            w[m] = Resume(k + 1, Rest(b) \o w)[m + Skipped(k + 1) + Len(Rest(b))]
  <2>1. Rest(b) \in Seq(Symbols)
    BY <1>13
  <2> QED BY <1>26, <2>1, AnswerAt, ZenonT(60)
<1>18. PICK G \in Seq(Symbols) : G = Resume(k + 1, Rest(b) \o w)
  BY <1>27
<1>19. /\ Len(G) = 2 + (bl - t + 1) + wl
       /\ \A m \in 1 .. bl - t + 1 : G[m + 2] = Rest(b)[m]
       /\ \A m \in 1 .. wl : G[m + 2 + (bl - t + 1)] = w[m]
  <2>1. /\ Len(G) = Skipped(k + 1) + Len(Rest(b)) + Len(w)
        /\ \A m \in 1 .. Len(Rest(b)) : Rest(b)[m] = G[m + Skipped(k + 1)]
        /\ \A m \in 1 .. Len(w) : w[m] = G[m + Skipped(k + 1) + Len(Rest(b))]
    BY <1>18, <1>27
  <2> QED BY <1>5, <1>13, <1>17, <2>1
<1>20. ASSUME NEW o \in 1 .. rl PROVE R[o] = F[o + 15 + l]
  <2>1. PICK m \in Int : m = o + 15 + l
    OBVIOUS
  <2>2. m \in 1 .. 15 + l + rl /\ ~ (m <= 15) /\ ~ (m <= 15 + l) /\ m - 15 - l = o
    BY <2>1
  <2>3. At(p, R, m) = R[o]
    <3>1. ~ (m <= 15 + Len(p.content)) /\ m - 15 - Len(p.content) = o
      BY <1>5, <2>2
    <3> QED BY <2>2, <3>1 DEF At
  <2> QED BY <1>15, <2>1, <2>2, <2>3
<1>21. rl = 2 + (bl - t + 1) + wl
  <2>1. 15 + l + rl = q + bl + wl /\ t + q = 18 + l
    BY <1>12, <1>15, <1>16
  <2> QED BY <1>8, <2>1
<1>22. ASSUME NEW o \in 1 .. rl PROVE G[o] = R[o]
  <2>1. CASE o <= 2
    <3>1. G[1] = "CR" /\ G[2] = "LF"
      <4>1. Before(k + 1) = <<"CR", "LF">>
        BY <1>3 DEF Before
      <4>2. Rest(b) \o w \in Seq(Symbols)
        BY <1>13, ConcatProperties
      <4>3. /\ Before(k + 1) \in Seq(Symbols) /\ Len(Before(k + 1)) = 2
            /\ Before(k + 1)[1] = "CR" /\ Before(k + 1)[2] = "LF"
        BY <1>3, <1>26, BeforeType
      <4>4. \A i \in 1 .. Len(Before(k + 1)) + Len(Rest(b) \o w) :
              G[i] = IF i <= Len(Before(k + 1)) THEN Before(k + 1)[i]
                     ELSE (Rest(b) \o w)[i - Len(Before(k + 1))]
        BY <1>18, <4>2, <4>3, ConcatProperties DEF Resume
      <4>5. PICK n \in Nat : n = Len(Rest(b) \o w)
        BY <4>2
      <4>6. \A i \in 1 .. 2 + n : i <= 2 => G[i] = Before(k + 1)[i]
        BY <4>3, <4>4, <4>5
      <4>7. 1 \in 1 .. 2 + n /\ 2 \in 1 .. 2 + n
        OBVIOUS
      <4> QED BY <4>3, <4>6, <4>7
    <3>2. R[1] = "CR" /\ R[2] = "LF"
      BY <1>7 DEF BeginsWithBoundary
    <3>3. o = 1 \/ o = 2
      BY <2>1
    <3> QED BY <3>1, <3>2, <3>3
  <2>2. CASE 2 < o /\ o <= 2 + (bl - t + 1)
    <3>1. PICK m \in Int, i \in Int : m = o - 2 /\ i = t + m - 1
      OBVIOUS
    <3>2. m \in 1 .. bl - t + 1 /\ m + 2 = o /\ i \in 1 .. bl /\ i + q = o + 15 + l
      BY <1>8, <1>12, <2>2, <3>1
    <3>3. G[o] = Rest(b)[m]
      BY <1>19, <3>2
    <3>4. Rest(b)[m] = b[i]
      BY <1>13, <3>1, <3>2
    <3>5. b[i] = F[o + 15 + l]
      BY <1>16, <3>2
    <3> QED BY <1>20, <3>3, <3>4, <3>5
  <2>3. CASE 2 + (bl - t + 1) < o
    <3>1. PICK m \in Int : m = o - 2 - (bl - t + 1)
      OBVIOUS
    <3>2. m \in 1 .. wl /\ m + 2 + (bl - t + 1) = o /\ m + q + bl = o + 15 + l
      BY <1>8, <1>12, <1>21, <2>3, <3>1
    <3>3. G[o] = w[m]
      BY <1>19, <3>2
    <3>4. w[m] = F[o + 15 + l]
      BY <1>16, <3>2
    <3> QED BY <1>20, <3>3, <3>4
  <2> QED BY <2>1, <2>2, <2>3
<1>23. G = R
  BY <1>5, <1>19, <1>21, <1>22, SeqEqual
<1>24. Answers(Rest(b) \o w, k + 1, r, rest, closed)
  <2>1. Resume(k + 1, Rest(b) \o w) = rest[k + 1 + 1]
    <3>1. k + 1 + 1 = k + 2
      BY <1>26
    <3> QED BY <1>18, <1>23, <1>25, <3>1
  <2>2. k + 1 \in 0 .. Len(r) /\ \A i \in k + 1 + 1 .. Len(r) : i \in k + 1 .. Len(r)
    BY <1>3
  <2> QED BY <2>1, <2>2 DEF Answers
<1> QED BY <1>3, <1>10, <1>13, <1>24, <1>25

\* Once the whole answer has arrived, every part is extracted.
LEMMA AllArrived ==
  ASSUME NEW b \in Seq(Symbols), NEW k, NEW r \in Seq(Part), NEW rest,
         Answers(b \o << >>, k, r, rest, TRUE), ~ HasPart(b)
  PROVE  k = Len(r)
<1>1. SUFFICES ASSUME k # Len(r) PROVE FALSE
  OBVIOUS
<1>13. /\ k \in Nat /\ r[k + 1] \in Part /\ rest[k + 2] \in Seq(Symbols)
       /\ Resume(k, b \o << >>) = Section(r[k + 1]) \o rest[k + 2]
       /\ BeginsWithBoundary(rest[k + 2])
  BY <1>1, NextSection DEF SectionAhead
<1>2. PICK p \in Part, R \in Seq(Symbols) : p = r[k + 1] /\ R = rest[k + 2]
  BY <1>13
<1>14. k \in Nat
  BY <1>13
<1>3. Resume(k, b \o << >>) = Section(p) \o R /\ BeginsWithBoundary(R)
  BY <1>2, <1>13
<1>4. PICK q \in {0, 2} : q = Skipped(k)
  BY DEF Skipped
<1>5. << >> \in Seq(Symbols) /\ Len(<< >>) = 0
  OBVIOUS
<1>6. ArrivedOf(b, q, p, R)
  BY <1>3, <1>4, <1>5, <1>14, ArrivedOfFirst
<1>7. PICK bl \in Nat, l \in Nat, rl \in Nat :
        bl = Len(b) /\ l = Len(p.content) /\ rl = Len(R)
  <2>1. Len(b) \in Nat /\ Len(p.content) \in Nat /\ Len(R) \in Nat
    BY DEF Part
  <2> QED BY <2>1
<1>8. Len(Resume(k, b \o << >>)) = q + bl + 0
  <2>1. Len(Resume(k, b \o << >>)) = Skipped(k) + Len(b) + Len(<< >>)
    BY <1>5, <1>14, AnswerAt
  <2> QED BY <1>4, <1>5, <1>7, <2>1
<1>9. Len(Section(p) \o R) = 15 + l + rl
  BY <1>7, SectionAt
<1>10. 4 <= rl
  BY <1>3, <1>7 DEF BeginsWithBoundary
<1>11. 19 + l - q <= bl
  BY <1>3, <1>8, <1>9, <1>10
<1>12. HasPart(b)
  BY <1>3, <1>6, <1>7, <1>11, WholeSection
<1> QED BY <1>12

\* The answer grows at its end.
LEMMA ResumeLonger ==
  ASSUME NEW k \in Nat, NEW d \in Seq(Symbols), NEW x \in Seq(Symbols)
  PROVE  Resume(k, d \o x) = Resume(k, d) \o x
<1>1. Before(k) \in Seq(Symbols)
  BY BeforeType
<1>2. (Before(k) \o d) \o x = Before(k) \o (d \o x)
  BY <1>1, ConcatAssociative
<1> QED BY <1>2 DEF Resume

LEMMA SectionLonger ==
  ASSUME NEW p \in Part, NEW R \in Seq(Symbols), NEW x \in Seq(Symbols)
  PROVE  (Section(p) \o R) \o x = Section(p) \o (R \o x)
BY SectionType, ConcatAssociative

LEMMA SectionOpened ==
  ASSUME NEW d \in Seq(Symbols), NEW k, NEW r \in Seq(Part), NEW rest,
         Answers(d, k, r, rest, FALSE), NEW p \in Part, p.content = << >>
  PROVE  \E rest2 : Answers(d \o SectionHeader(p.id), k, Append(r, p), rest2, FALSE)
<1>1. PICK n \in Nat : n = Len(r)
  OBVIOUS
<1>2. PICK x \in Seq(Symbols) : x = SectionHeader(p.id)
  BY SectionType
<1>0. k \in Nat /\ k <= n
  BY <1>1 DEF Answers
<1>3. k \in Nat /\ rest \in [Nat -> Seq(Symbols)]
  BY <1>1 DEF Answers
<1>4. /\ rest[n + 1] = << >>
      /\ \A i \in k + 1 .. n : rest[i] = Section(r[i]) \o rest[i + 1]
      /\ Resume(k, d) = rest[k + 1]
  BY <1>1 DEF Answers
<1>5. PICK r2 \in Seq(Part) : r2 = Append(r, p)
  <2>1. Append(r, p) \in Seq(Part)
    BY AppendProperties
  <2> QED BY <2>1
<1>6. Len(r2) = n + 1 /\ r2[n + 1] = p /\ \A i \in 1 .. n : r2[i] = r[i]
  BY <1>1, <1>5, AppendProperties
<1> DEFINE rest2 == [i \in Nat |-> IF i <= n + 1 THEN rest[i] \o x ELSE << >>]
<1>7. rest2 \in [Nat -> Seq(Symbols)]
  <2>1. ASSUME NEW i \in Nat PROVE rest[i] \o x \in Seq(Symbols)
    BY <1>3, ConcatProperties
  <2>2. << >> \in Seq(Symbols)
    OBVIOUS
  <2> QED BY <2>1, <2>2
<1>8. rest2[n + 1] = x /\ rest2[n + 1 + 1] = << >>
  <2>1. n + 1 \in Nat /\ n + 1 + 1 \in Nat /\ n + 1 <= n + 1 /\ ~ (n + 1 + 1 <= n + 1)
    OBVIOUS
  <2>2. << >> \o x = x
    BY ConcatEmptySeq
  <2> QED BY <1>4, <2>1, <2>2
<1>9. ASSUME NEW i \in k + 1 .. n + 1 PROVE rest2[i] = Section(r2[i]) \o rest2[i + 1]
  <2>1. CASE i = n + 1
    <3>1. Section(p) = x
      <4>1. x \o << >> = x
        BY ConcatEmptySeq
      <4> QED BY <1>2, <4>1 DEF Section
    <3>2. x \o << >> = x
      BY ConcatEmptySeq
    <3> QED BY <1>6, <1>8, <2>1, <3>1, <3>2
  <2>2. CASE i # n + 1
    <3>1. i \in k + 1 .. n /\ i \in 1 .. n /\ i \in Nat /\ i + 1 \in Nat
          /\ i <= n + 1 /\ i + 1 <= n + 1
      BY <1>0, <2>2
    <3>2. rest2[i] = rest[i] \o x /\ rest2[i + 1] = rest[i + 1] \o x
      BY <3>1
    <3>3. r[i] \in Part /\ rest[i + 1] \in Seq(Symbols)
      BY <1>1, <1>3, <3>1
    <3>4. rest[i] = Section(r[i]) \o rest[i + 1] /\ r2[i] = r[i]
      BY <1>4, <1>6, <3>1
    <3>5. (Section(r[i]) \o rest[i + 1]) \o x = Section(r[i]) \o (rest[i + 1] \o x)
      BY <3>3, SectionLonger
    <3> QED BY <3>2, <3>4, <3>5
  <2> QED BY <2>1, <2>2
<1>10. Resume(k, d \o x) = rest2[k + 1]
  <2>1. k + 1 \in Nat /\ k + 1 <= n + 1
    BY <1>0
  <2>2. rest2[k + 1] = rest[k + 1] \o x
    BY <2>1
  <2>3. Resume(k, d \o x) = Resume(k, d) \o x
    BY <1>3, ResumeLonger
  <2> QED BY <1>4, <2>2, <2>3
<1> HIDE DEF rest2
<1>11. k \in 0 .. n + 1
  BY <1>0
<1>12. Answers(d \o x, k, r2, rest2, FALSE)
  BY <1>6, <1>7, <1>8, <1>9, <1>10, <1>11 DEF Answers
<1> QED BY <1>2, <1>5, <1>12

LEMMA SectionGrows ==
  ASSUME NEW p \in Part, NEW x \in Seq(Symbols)
  PROVE  (SectionHeader(p.id) \o p.content) \o x = SectionHeader(p.id) \o (p.content \o x)
<1>1. PICK h \in Seq(Symbols), c \in Seq(Symbols) : h = SectionHeader(p.id) /\ c = p.content
  BY SectionType
<1>2. (h \o c) \o x = h \o (c \o x)
  BY ConcatAssociative
<1> QED BY <1>1, <1>2

LEMMA SectionRead ==
  ASSUME NEW d \in Seq(Symbols), NEW k, NEW r \in Seq(Part), NEW rest,
         Answers(d, k, r, rest, FALSE), Len(r) # 0, NEW y \in Bytes,
         NEW r2 \in Seq(Part), Len(r2) = Len(r),
         \A i \in 1 .. Len(r) - 1 : r2[i] = r[i],
         r2[Len(r)] = [r[Len(r)] EXCEPT !.content = Append(@, y)]
  PROVE  \E rest2 : Answers(d \o <<y>>, k, r2, rest2, FALSE)
<1>1. PICK n \in Nat : n = Len(r)
  OBVIOUS
<1>2. PICK x \in Seq(Symbols) : x = <<y>>
  <2>1. y \in Symbols
    BY DEF Symbols
  <2>2. <<y>> \in Seq(Symbols)
    BY <2>1
  <2> QED BY <2>2
<1>0. k \in Nat /\ k <= n /\ n # 0
  BY <1>1 DEF Answers
<1>13. n \in 1 .. n
  BY <1>0
<1>3. k \in Nat /\ rest \in [Nat -> Seq(Symbols)]
  BY <1>1 DEF Answers
<1>4. /\ rest[n + 1] = << >>
      /\ \A i \in k + 1 .. n : rest[i] = Section(r[i]) \o rest[i + 1]
      /\ Resume(k, d) = rest[k + 1]
  BY <1>1 DEF Answers
<1>5. k # n
  <2>1. SUFFICES ASSUME k = n PROVE FALSE
    OBVIOUS
  <2>2. << >> \in Seq(Symbols) /\ d \o << >> = d
    BY ConcatEmptySeq
  <2>3. Len(Resume(k, d \o << >>)) = Skipped(k) + Len(d) + Len(<< >>)
    BY <1>3, <2>2, AnswerAt
  <2>4. Skipped(k) = 2
    BY <1>0, <2>1 DEF Skipped
  <2>5. Len(rest[k + 1]) = 0
    BY <1>4, <2>1
  <2>6. Len(d) \in Nat /\ Len(<< >>) = 0
    OBVIOUS
  <2> QED BY <1>4, <2>2, <2>3, <2>4, <2>5, <2>6
<1>6. /\ Section(r2[n]) = Section(r[n]) \o x /\ r[n] \in Part /\ r2[n] \in Part
      /\ \A i \in 1 .. n : i # n => r2[i] = r[i]
  <2>1. r[n] \in Part /\ r2[n] \in Part
    BY <1>1, <1>13
  <2>2. r2[n].id = r[n].id /\ r2[n].content = Append(r[n].content, y)
    BY <1>1, <2>1 DEF Part
  <2>3. /\ SectionHeader(r[n].id) \in Seq(Symbols) /\ r[n].content \in Seq(Symbols)
        /\ y \in Symbols
    BY <2>1, SectionType DEF Symbols
  <2>4. Append(r[n].content, y) = r[n].content \o x
    BY <1>2, <2>3, AppendIsConcat
  <2>5. (SectionHeader(r[n].id) \o r[n].content) \o x =
          SectionHeader(r[n].id) \o (r[n].content \o x)
    BY <2>1, SectionGrows
  <2>6. \A i \in 1 .. n : i # n => i \in 1 .. n - 1
    BY <1>0
  <2> QED BY <1>1, <2>1, <2>2, <2>4, <2>5, <2>6 DEF Section
<1> DEFINE rest2 == [i \in Nat |-> IF i <= n THEN rest[i] \o x ELSE << >>]
<1>7. rest2 \in [Nat -> Seq(Symbols)]
  <2>1. ASSUME NEW i \in Nat PROVE rest[i] \o x \in Seq(Symbols)
    BY <1>3, ConcatProperties
  <2>2. << >> \in Seq(Symbols)
    OBVIOUS
  <2> QED BY <2>1, <2>2
<1>8. rest2[n + 1] = << >>
  OBVIOUS
<1>9. ASSUME NEW i \in k + 1 .. n PROVE rest2[i] = Section(r2[i]) \o rest2[i + 1]
  <2>1. i \in Nat /\ i <= n /\ i \in 1 .. n
    BY <1>0
  <2>2. rest2[i] = rest[i] \o x /\ rest[i] = Section(r[i]) \o rest[i + 1]
    BY <1>4, <2>1
  <2>3. CASE i = n
    <3>1. rest[n] = Section(r[n])
      <4>1. Section(r[n]) \o << >> = Section(r[n])
        BY <1>6, SectionType, ConcatEmptySeq
      <4> QED BY <1>4, <2>2, <2>3, <4>1
    <3>2. Section(r2[n]) \o << >> = Section(r2[n])
      BY <1>6, SectionType, ConcatEmptySeq
    <3> QED BY <1>6, <1>8, <2>2, <2>3, <3>1, <3>2
  <2>4. CASE i # n
    <3>1. i + 1 \in Nat /\ i + 1 <= n
      BY <2>1, <2>4
    <3>2. rest2[i + 1] = rest[i + 1] \o x
      BY <3>1
    <3>3. r[i] \in Part /\ rest[i + 1] \in Seq(Symbols) /\ r2[i] = r[i]
      BY <1>1, <1>3, <1>6, <2>1, <2>4, <3>1
    <3>4. (Section(r[i]) \o rest[i + 1]) \o x = Section(r[i]) \o (rest[i + 1] \o x)
      BY <3>3, SectionLonger
    <3> QED BY <2>2, <3>2, <3>3, <3>4
  <2> QED BY <2>3, <2>4
<1>10. Resume(k, d \o x) = rest2[k + 1]
  <2>1. k + 1 \in Nat /\ k + 1 <= n
    BY <1>0, <1>5
  <2>2. rest2[k + 1] = rest[k + 1] \o x
    BY <2>1
  <2>3. Resume(k, d \o x) = Resume(k, d) \o x
    BY <1>3, ResumeLonger
  <2> QED BY <1>4, <2>2, <2>3
<1> HIDE DEF rest2
<1>11. k \in 0 .. n
  BY <1>0
<1>12. Answers(d \o x, k, r2, rest2, FALSE)
  BY <1>1, <1>7, <1>8, <1>9, <1>10, <1>11 DEF Answers
<1> QED BY <1>2, <1>12

LEMMA AnswerClosed ==
  ASSUME NEW d \in Seq(Symbols), NEW k, NEW r \in Seq(Part), NEW rest,
         Answers(d, k, r, rest, FALSE)
  PROVE  \E rest2 : Answers(d \o Closing, k, r, rest2, TRUE)
<1>1. PICK n \in Nat : n = Len(r)
  OBVIOUS
<1>2. PICK x \in Seq(Symbols) : x = Closing
  BY ClosingType
<1>0. k \in Nat /\ k <= n
  BY <1>1 DEF Answers
<1>3. k \in Nat /\ rest \in [Nat -> Seq(Symbols)]
  BY <1>1 DEF Answers
<1>4. /\ rest[n + 1] = << >>
      /\ \A i \in k + 1 .. n : rest[i] = Section(r[i]) \o rest[i + 1]
      /\ Resume(k, d) = rest[k + 1]
  BY <1>1 DEF Answers
<1> DEFINE rest2 == [i \in Nat |-> rest[i] \o x]
<1>5. rest2 \in [Nat -> Seq(Symbols)]
  BY <1>3, ConcatProperties
<1>55. \A i \in Nat : rest2[i] = rest[i] \o x
  OBVIOUS
<1> HIDE DEF rest2
<1>6. rest2[n + 1] = x
  <2>1. n + 1 \in Nat /\ << >> \o x = x
    BY <1>0, ConcatEmptySeq
  <2> QED BY <1>4, <1>55, <2>1, Zenon
<1>7. ASSUME NEW i \in k + 1 .. n PROVE rest2[i] = Section(r[i]) \o rest2[i + 1]
  <2>1. i \in Nat /\ i + 1 \in Nat /\ i \in 1 .. n
    BY <1>0
  <2>2. r[i] \in Part /\ rest[i + 1] \in Seq(Symbols)
    BY <1>1, <1>3, <2>1
  <2>3. (Section(r[i]) \o rest[i + 1]) \o x = Section(r[i]) \o (rest[i + 1] \o x)
    BY <2>2, SectionLonger
  <2>4. rest2[i] = rest[i] \o x /\ rest2[i + 1] = rest[i + 1] \o x
    BY <1>55, <2>1
  <2>5. rest[i] = Section(r[i]) \o rest[i + 1]
    BY <1>4
  <2> QED BY <2>3, <2>4, <2>5, Zenon
<1>8. Resume(k, d \o x) = rest2[k + 1]
  <2>1. Resume(k, d \o x) = Resume(k, d) \o x
    BY <1>3, ResumeLonger
  <2>2. k + 1 \in Nat
    BY <1>3
  <2> QED BY <1>4, <1>55, <2>1, <2>2
<1>9. k \in 0 .. n
  BY <1>0
<1>10. Answers(d \o x, k, r, rest2, TRUE)
  BY <1>1, <1>2, <1>5, <1>6, <1>7, <1>8, <1>9 DEF Answers
<1> QED BY <1>2, <1>10

----------------------------------------------------------------------------
(* A fragment moves from the wire to the client; the answer grows.         *)

LEMMA Associates ==
  \A s, t, u \in Seq(Symbols) : (s \o t) \o u = s \o (t \o u)
<1>1. TAKE s \in Seq(Symbols), t \in Seq(Symbols), u \in Seq(Symbols)
<1> QED BY ConcatAssociative

LEMMA Concatenates ==
  \A s, t \in Seq(Symbols) : s \o t \in Seq(Symbols)
<1>1. TAKE s \in Seq(Symbols), t \in Seq(Symbols)
<1> QED BY ConcatProperties

LEMMA DataMoves ==
  ASSUME NEW b \in Seq(Symbols), NEW w \in Seq(Symbols), NEW l \in Seq(Symbols)
  PROVE  \A n \in 1 .. Len(w) :
           /\ b \o SubSeq(w, 1, n) \in Seq(Symbols)
           /\ SubSeq(w, n + 1, Len(w)) \in Seq(Symbols)
           /\ (b \o SubSeq(w, 1, n)) \o (SubSeq(w, n + 1, Len(w)) \o l) = b \o (w \o l)
<1>0. ASSUME NEW s \in Seq(Symbols), NEW t \in Seq(Symbols)
      PROVE  b \o s \in Seq(Symbols) /\ (b \o s) \o (t \o l) = b \o ((s \o t) \o l)
  <2>1. PICK u \in Seq(Symbols) : u = t \o l
    BY Concatenates
  <2>2. (b \o s) \o u = b \o (s \o u)
    BY Associates
  <2>3. (s \o t) \o l = s \o (t \o l)
    BY Associates
  <2>4. b \o s \in Seq(Symbols)
    BY Concatenates
  <2> QED BY <2>1, <2>2, <2>3, <2>4, Zenon
<1> TAKE n \in 1 .. Len(w)
<1>1. PICK m \in Nat : m = Len(w)
  OBVIOUS
<1>2. n \in Nat /\ 1 <= n /\ n <= m /\ 1 \in 1 .. m + 1 /\ n \in 1 - 1 .. m /\ m \in n .. m
  BY <1>1
<1>3. \A i \in 1 .. m : w[i] \in Symbols
  BY <1>1
<1>4. \A i \in 1 .. n : w[i] \in Symbols
  BY <1>2, <1>3
<1>5. \A i \in n + 1 .. m : w[i] \in Symbols
  BY <1>2, <1>3
<1>6. SubSeq(w, 1, n) \in Seq(Symbols)
  BY <1>2, <1>4, SubSeqProperties
<1>7. SubSeq(w, n + 1, m) \in Seq(Symbols)
  BY <1>1, <1>2, <1>5, SubSeqProperties
<1>8. SubSeq(w, 1, n) \o SubSeq(w, n + 1, m) = w
  <2>1. SubSeq(w, 1, n) \o SubSeq(w, n + 1, m) = SubSeq(w, 1, m)
    BY <1>1, <1>2, ConcatAdjacentSubSeq
  <2> QED BY <1>1, <2>1, SubSeqFull
<1>9. PICK s \in Seq(Symbols), t \in Seq(Symbols) :
        s = SubSeq(w, 1, n) /\ t = SubSeq(w, n + 1, m)
  BY <1>6, <1>7
<1>10. (b \o s) \o (t \o l) = b \o ((s \o t) \o l)
  BY <1>0, Zenon
<1>11. b \o s \in Seq(Symbols)
  BY <1>0, Zenon
<1>12. (b \o SubSeq(w, 1, n)) \o (SubSeq(w, n + 1, m) \o l) = b \o (w \o l)
  BY <1>8, <1>9, <1>10, Zenon
<1>13. b \o SubSeq(w, 1, n) \in Seq(Symbols)
  BY <1>9, <1>11, Zenon
<1> QED BY <1>1, <1>7, <1>12, <1>13, Zenon

LEMMA DataGrows ==
  ASSUME NEW b \in Seq(Symbols), NEW w \in Seq(Symbols), NEW x \in Seq(Symbols)
  PROVE  /\ b \o (w \o << >>) \in Seq(Symbols) /\ w \o x \in Seq(Symbols)
         /\ b \o ((w \o x) \o << >>) = (b \o (w \o << >>)) \o x
<1>1. w \o x \in Seq(Symbols) /\ b \o w \in Seq(Symbols)
  BY ConcatProperties
<1>2. w \o << >> = w /\ (w \o x) \o << >> = w \o x
  BY <1>1, ConcatEmptySeq
<1>3. (b \o w) \o x = b \o (w \o x)
  BY ConcatAssociative
<1> QED BY <1>1, <1>2, <1>3

----------------------------------------------------------------------------
(* The invariant of the batch.                                             *)

Served == [pc : {"idle", "open", "read", "done", "cut"}, part : Nat, offset : Nat]

\* What has arrived, is on its way, and was on its way when the connection broke.
Arriving(lost) == buffer \o (wire \o lost)

Shape ==
  /\ srv \in Served /\ (client # "stream" => srv = SrvIdle)
  /\ buffer \in Seq(Symbols) /\ wire \in Seq(Symbols)

Unspoilt(p) == p.content = Whole[p.id] \/ p.id \in torn

\* The parts the client has are the first the server streamed, and whole.
Ledger ==
  /\ Len(got) <= Len(sent)
  /\ \A i \in 1 .. Len(got) : got[i] = sent[i] /\ Unspoilt(got[i])

\* The parts are streamed in the order of the request.
Named == Len(sent) <= Len(request) /\ \A i \in 1 .. Len(sent) : sent[i].id = request[i]

\* How far the part is that the server reads.
AsFar ==
  /\ srv.offset <= Len(Whole[Chunk])
  /\ sent[srv.part].content = SubSeq(Whole[Chunk], 1, srv.offset)

Serving ==
  /\ srv.pc # "idle"
  /\ srv.pc = "open" => srv.part = Len(sent) + 1
  /\ srv.pc = "read" => srv.part = Len(sent) /\ srv.part # 0 /\ (Chunk \in torn \/ AsFar)
  /\ srv.pc = "done" => Len(sent) = Len(request)

\* Who has not been seen with another content has its own.
AtRest == \A c \in Chunks : c \in torn \/ file[c] = [there |-> TRUE, data |-> Whole[c]]

\* The part that is being read need not be whole.
Complete(closed) ==
  \A i \in 1 .. Len(sent) :
    Unspoilt(sent[i]) \/ (i = Len(sent) /\ ~ closed /\ srv.pc # "open")

\* The answer, of which nothing is lost while the connection stands.
Coming(rest, closed, lost) ==
  /\ Answers(Arriving(lost), Len(got), sent, rest, closed)
  /\ srv.pc # "cut" => lost = << >>
  /\ srv.pc \in {"open", "read"} => ~ closed
  /\ srv.pc = "done" => closed
  /\ Complete(closed)

Streaming ==
  /\ Named /\ Serving /\ AtRest
  /\ \E closed \in BOOLEAN, lost \in Seq(Symbols) : \E rest : Coming(rest, closed, lost)

BatchInv ==
  /\ TypeOK /\ Shape /\ Ledger
  /\ client = "stream" => Streaming
  /\ client = "ok" => Len(got) = Len(sent) /\ Len(sent) = Len(request) /\ Named

LEMMA RequestType ==
  ASSUME TypeOK
  PROVE  request \in Seq(Chunks) /\ Len(request) \in Nat /\ Len(request) # 0
<1>1. request \in Seq(Chunks) /\ request # << >>
  BY DownloadAssumption DEF TypeOK
<1> QED BY <1>1, EmptySeq

\* What an action need say that leaves the client in the stream.
LEMMA StreamStep ==
  ASSUME BatchInv, client = "stream", UNCHANGED <<setting, store, torn, client, refused>>,
         srv' \in Served, srv'.part <= Len(request), buffer' \in Seq(Symbols),
         wire' \in Seq(Symbols), got' \in Seq(Part), sent' \in Seq(Part),
         Ledger', Streaming'
  PROVE  BatchInv'
<1>1. UNCHANGED <<now, mode, token, request, file, writer, torn, client, refused>>
  BY DEF setting, store
<1>2. srv'.part \in 0 .. Len(request) /\ srv'.pc \in {"idle", "open", "read", "done", "cut"}
  <2>1. Len(request) \in Nat
    BY RequestType DEF BatchInv
  <2> QED BY <2>1 DEF Served
<1>3. TypeOK'
  BY <1>1, <1>2 DEF BatchInv, TypeOK
<1>4. Shape'
  BY <1>1 DEF Shape
<1> QED BY <1>1, <1>3, <1>4 DEF BatchInv

\* What the client has stays what has been streamed while sent only grows.
LEMMA LedgerStays ==
  ASSUME Ledger, Len(got) \in Nat, UNCHANGED <<got, torn>>,
         Len(got) <= Len(sent'), \A i \in 1 .. Len(got) : sent'[i] = sent[i]
  PROVE  Ledger'
BY DEF Ledger, Unspoilt

LEMMA InStream ==
  ASSUME BatchInv, srv.pc # "idle"
  PROVE  /\ client = "stream" /\ Streaming /\ srv \in Served /\ Ledger /\ TypeOK
         /\ got \in Seq(Part) /\ sent \in Seq(Part)
         /\ buffer \in Seq(Symbols) /\ wire \in Seq(Symbols)
         /\ srv.part <= Len(request)
<1>1. SrvIdle.pc = "idle"
  BY DEF SrvIdle
<1>2. client = "stream"
  BY <1>1 DEF BatchInv, Shape
<1>3. srv.part <= Len(request)
  <2>1. Len(request) \in Nat
    BY RequestType DEF BatchInv
  <2>2. srv.part \in 0 .. Len(request)
    BY DEF BatchInv, TypeOK
  <2> QED BY <2>1, <2>2
<1> QED BY <1>2, <1>3 DEF BatchInv, Shape, TypeOK

\* While a part is being streamed, all of it is on its way.
LEMMA Standing ==
  ASSUME BatchInv, srv.pc \in {"open", "read"}
  PROVE  /\ \E rest : Answers(Arriving(<< >>), Len(got), sent, rest, FALSE)
         /\ Complete(FALSE)
<1>1. PICK closed \in BOOLEAN, lost \in Seq(Symbols) : \E rest : Coming(rest, closed, lost)
  BY InStream DEF Streaming
<1>2. PICK rest : Coming(rest, closed, lost)
  BY <1>1
<1>3. closed = FALSE /\ lost = << >>
  BY <1>2 DEF Coming
<1> QED BY <1>2, <1>3 DEF Coming

LEMMA OpenStep ==
  ASSUME BatchInv, OpenPart
  PROVE  BatchInv'
<1>1. /\ srv.pc = "open"
      /\ UNCHANGED <<setting, store, buffer, got, torn, client, refused>>
  BY DEF OpenPart
<1>2. /\ client = "stream" /\ Streaming /\ srv \in Served /\ Ledger /\ TypeOK
      /\ got \in Seq(Part) /\ sent \in Seq(Part)
      /\ buffer \in Seq(Symbols) /\ wire \in Seq(Symbols)
      /\ srv.part <= Len(request)
  BY <1>1, InStream
<1>3. PICK n \in Nat : n = Len(sent)
  BY <1>2
<1>4. /\ Named /\ AtRest /\ srv.part = n + 1 /\ n + 1 <= Len(request) /\ srv.part \in Nat
      /\ srv.offset \in Nat
  BY <1>1, <1>2, <1>3 DEF Streaming, Serving, Served
<1>5. /\ request \in Seq(Chunks) /\ Len(request) \in Nat
      /\ request' = request /\ file' = file /\ torn' = torn /\ got' = got /\ buffer' = buffer
  BY <1>1, <1>2, RequestType DEF setting, store
<1>6. Chunk \in Chunks
  <2>1. n + 1 \in 1 .. Len(request)
    BY <1>4, <1>5
  <2> QED BY <1>4, <1>5, <2>1 DEF Chunk
<1>7. PICK gl \in Nat : gl = Len(got) /\ gl <= n
  BY <1>2, <1>3 DEF Ledger
<1>8. AtRest'
  BY <1>4, <1>5 DEF AtRest
<1>9. (\E rest : Answers(Arriving(<< >>), Len(got), sent, rest, FALSE)) /\ Complete(FALSE)
  BY <1>1, Standing
<1>10. CASE file[Chunk].there
  <2> DEFINE p == [id |-> Chunk, content |-> << >>]
  <2>1. /\ wire' = wire \o SectionHeader(Chunk) /\ sent' = Append(sent, p)
        /\ srv' = [srv EXCEPT !.pc = "read", !.offset = 0]
    BY <1>10 DEF OpenPart
  <2>2. p \in Part /\ p.id = Chunk /\ p.content = << >>
    BY <1>6 DEF Part
  <2> HIDE DEF p
  <2>3. /\ srv' \in Served /\ srv'.pc = "read" /\ srv'.part = n + 1 /\ srv'.offset = 0
    BY <1>2, <1>4, <2>1 DEF Served
  <2>4. Chunk' = Chunk
    BY <1>4, <1>5, <2>3 DEF Chunk
  <2>5. /\ sent' \in Seq(Part) /\ Len(sent') = n + 1
        /\ \A i \in 1 .. n : sent'[i] = sent[i]
        /\ sent'[n + 1] = p
    BY <1>2, <1>3, <2>1, <2>2, AppendProperties
  <2>6. SectionHeader(Chunk) \in Seq(Symbols)
    BY <2>2, SectionType
  <2>7. /\ wire' \in Seq(Symbols) /\ Arriving(<< >>) \in Seq(Symbols)
        /\ Arriving(<< >>)' = Arriving(<< >>) \o SectionHeader(Chunk)
    <3>1. PICK b \in Seq(Symbols), w \in Seq(Symbols), x \in Seq(Symbols) :
            b = buffer /\ w = wire /\ x = SectionHeader(Chunk)
      BY <1>2, <2>6
    <3>2. /\ b \o (w \o << >>) \in Seq(Symbols) /\ w \o x \in Seq(Symbols)
          /\ b \o ((w \o x) \o << >>) = (b \o (w \o << >>)) \o x
      BY DataGrows
    <3>3. buffer' = b /\ wire' = w \o x
      BY <1>5, <2>1, <3>1
    <3> QED BY <3>1, <3>2, <3>3, Zenon DEF Arriving
  <2>8. PICK rest2 : Answers(Arriving(<< >>)', Len(got'), sent', rest2, FALSE)
    <3>1. PICK rest : Answers(Arriving(<< >>), Len(got), sent, rest, FALSE)
      BY <1>9
    <3>2. \E rest2 : Answers(Arriving(<< >>) \o SectionHeader(p.id), Len(got), Append(sent, p),
                             rest2, FALSE)
      BY <1>2, <2>2, <2>7, <3>1, SectionOpened
    <3> QED BY <1>5, <2>1, <2>2, <2>7, <3>2
  <2>9. Ledger'
    <3>1. \A i \in 1 .. gl : sent'[i] = sent[i]
      BY <1>3, <1>7, <2>5
    <3>2. gl <= Len(sent')
      BY <1>7, <2>5
    <3> QED BY <1>2, <1>5, <1>7, <3>1, <3>2, LedgerStays
  <2>10. Named'
    <3>1. \A i \in 1 .. n + 1 : sent'[i].id = request[i]
      <4>1. sent'[n + 1].id = request[n + 1]
        BY <1>4, <2>2, <2>5 DEF Chunk
      <4>2. \A i \in 1 .. n : sent'[i].id = request[i]
        BY <1>3, <1>4, <2>5 DEF Named
      <4>3. \A i \in 1 .. n + 1 : i \in 1 .. n \/ i = n + 1
        OBVIOUS
      <4> QED BY <4>1, <4>2, <4>3
    <3> QED BY <1>4, <1>5, <2>5, <3>1 DEF Named
  <2>11. Serving'
    <3>1. AsFar'
      <4>1. Whole[Chunk] \in Seq({"CR", "LF", "--", "x"})
        BY <1>6, DownloadAssumption
      <4>2. SubSeq(Whole[Chunk], 1, 0) = << >>
        BY SubSeqEmpty
      <4>3. 0 <= Len(Whole[Chunk])
        BY <4>1
      <4>4. sent'[srv'.part].content = << >>
        BY <2>2, <2>3, <2>5
      <4> QED BY <2>3, <2>4, <4>2, <4>3, <4>4 DEF AsFar
    <3>2. srv'.part # 0
      BY <2>3
    <3> QED BY <2>3, <2>5, <3>1, <3>2 DEF Serving
  <2>12. Complete(FALSE)'
    <3>1. \A i \in 1 .. n : Unspoilt(sent[i])
      BY <1>1, <1>3, <1>9 DEF Complete
    <3>2. \A i \in 1 .. n : Unspoilt(sent[i])'
      BY <1>5, <2>5, <3>1 DEF Unspoilt
    <3>3. \A i \in 1 .. n + 1 : i \in 1 .. n \/ i = n + 1
      OBVIOUS
    <3> QED BY <2>3, <2>5, <3>2, <3>3 DEF Complete
  <2>13. Streaming'
    <3>1. Coming(rest2, FALSE, << >>)'
      BY <2>3, <2>8, <2>12 DEF Coming
    <3>2. FALSE \in BOOLEAN /\ << >> \in Seq(Symbols)
      OBVIOUS
    <3> QED BY <1>8, <2>10, <2>11, <3>1, <3>2 DEF Streaming
  <2>14. srv'.part <= Len(request) /\ buffer' \in Seq(Symbols) /\ got' \in Seq(Part)
    BY <1>2, <1>4, <1>5, <2>3
  <2> QED BY <1>1, <1>2, <2>3, <2>5, <2>7, <2>9, <2>13, <2>14, StreamStep
<1>11. CASE ~ file[Chunk].there
  <2>1. srv' = [srv EXCEPT !.pc = "cut"] /\ UNCHANGED <<wire, sent>>
    BY <1>11 DEF OpenPart
  <2>2. srv' \in Served /\ srv'.pc = "cut" /\ srv'.part = srv.part
    BY <1>2, <2>1 DEF Served
  <2>3. PICK rest : Answers(Arriving(<< >>), Len(got), sent, rest, FALSE)
    BY <1>9
  <2>4. Complete(FALSE)'
    BY <1>1, <1>5, <1>9, <2>1 DEF Complete, Unspoilt
  <2>5. Coming(rest, FALSE, << >>)'
    BY <1>5, <2>1, <2>2, <2>3, <2>4 DEF Coming, Arriving
  <2>6. Serving' /\ Named'
    BY <1>4, <1>5, <2>1, <2>2 DEF Serving, Named
  <2>7. Streaming'
    <3>1. FALSE \in BOOLEAN /\ << >> \in Seq(Symbols)
      OBVIOUS
    <3> QED BY <1>8, <2>5, <2>6, <3>1 DEF Streaming
  <2>8. Ledger'
    BY <1>2, <1>5, <2>1 DEF Ledger, Unspoilt
  <2> QED BY <1>1, <1>2, <1>4, <1>5, <2>1, <2>2, <2>7, <2>8, StreamStep
<1> QED BY <1>10, <1>11

LEMMA PrefixGrows ==
  ASSUME NEW W \in Seq(Bytes), NEW o \in Nat, o < Len(W)
  PROVE  SubSeq(W, 1, o + 1) = Append(SubSeq(W, 1, o), W[o + 1])
<1>1. PICK wl \in Nat : wl = Len(W)
  OBVIOUS
<1>2. 1 \in 1 .. Len(W) /\ o + 1 \in 1 .. Len(W) /\ (o + 1) - 1 = o
  BY <1>1
<1>3. SubSeq(W, 1, o + 1) = SubSeq(W, 1, o) \o <<W[o + 1]>>
  BY <1>2, SubSeqRecursiveSecond
<1>4. SubSeq(W, 1, o) \in Seq(Bytes) /\ W[o + 1] \in Bytes
  <2>1. \A i \in 1 .. wl : W[i] \in Bytes
    BY <1>1
  <2>2. \A i \in 1 .. o : W[i] \in Bytes
    BY <1>1, <2>1
  <2> QED BY <1>1, <1>2, <2>1, <2>2, SubSeqProperties
<1>5. Append(SubSeq(W, 1, o), W[o + 1]) = SubSeq(W, 1, o) \o <<W[o + 1]>>
  BY <1>4, AppendIsConcat
<1> QED BY <1>3, <1>5

\* The client has not got the part that is being read.
LEMMA LastNotGot ==
  ASSUME BatchInv, srv.pc = "read"
  PROVE  Len(got) < Len(sent)
<1>1. PICK rest : Answers(Arriving(<< >>), Len(got), sent, rest, FALSE)
  BY Standing
<1>2. /\ sent \in Seq(Part) /\ buffer \in Seq(Symbols) /\ wire \in Seq(Symbols)
      /\ Ledger /\ Streaming /\ got \in Seq(Part)
  BY InStream
<1>3. PICK n \in Nat, gl \in Nat : n = Len(sent) /\ gl = Len(got)
  BY <1>2
<1>4. n # 0 /\ gl <= n
  BY <1>2, <1>3 DEF Streaming, Serving, Ledger
<1>5. gl # n
  <2>1. SUFFICES ASSUME gl = n PROVE FALSE
    OBVIOUS
  <2>2. Len(got) = Len(sent)
    BY <1>3, <2>1
  <2>3. PICK w \in Seq(Symbols) : w = wire \o << >>
    BY <1>2, ConcatEmptySeq
  <2>4. Answers(buffer \o w, Len(got), sent, rest, FALSE) /\ FALSE \in BOOLEAN
    BY <1>1, <2>3 DEF Arriving
  <2>5. Len(got) = 0 \/ FALSE
    BY <1>2, <2>2, <2>4, NoneLeft
  <2> QED BY <1>3, <1>4, <2>1, <2>5
<1> QED BY <1>3, <1>4, <1>5

LEMMA PartGrows ==
  ASSUME NEW p \in Part, NEW y \in Bytes
  PROVE  [p EXCEPT !.content = Append(@, y)] \in Part
<1>1. p.id \in Chunks /\ p.content \in Seq(Bytes)
  BY DEF Part, Bytes
<1>2. Append(p.content, y) \in Seq(Bytes)
  BY <1>1
<1>3. [p EXCEPT !.content = Append(@, y)] = [id |-> p.id, content |-> Append(p.content, y)]
  BY DEF Part
<1> QED BY <1>1, <1>2, <1>3 DEF Part, Bytes

LEMMA ReadStep ==
  ASSUME BatchInv, ReadPart
  PROVE  BatchInv'
<1>1. /\ srv.pc = "read" /\ srv.offset < Len(file[Chunk].data)
      /\ UNCHANGED <<setting, store, buffer, got, torn, client, refused>>
  BY DEF ReadPart
<1>2. /\ client = "stream" /\ Streaming /\ srv \in Served /\ Ledger /\ TypeOK
      /\ got \in Seq(Part) /\ sent \in Seq(Part)
      /\ buffer \in Seq(Symbols) /\ wire \in Seq(Symbols)
      /\ srv.part <= Len(request)
  BY <1>1, InStream
<1>3. PICK n \in Nat, o \in Nat : n = Len(sent) /\ o = srv.offset
  BY <1>2 DEF Served
<1>4. /\ Named /\ AtRest /\ srv.part = n /\ n # 0 /\ n <= Len(request)
      /\ Chunk \in torn \/ AsFar
  BY <1>1, <1>2, <1>3 DEF Streaming, Serving
<1>5. /\ request \in Seq(Chunks) /\ Len(request) \in Nat
      /\ request' = request /\ file' = file /\ torn' = torn /\ got' = got /\ buffer' = buffer
  BY <1>1, <1>2, RequestType DEF setting, store
<1>6. Chunk \in Chunks /\ n \in 1 .. n
  <2>1. n \in 1 .. Len(request) /\ n \in 1 .. n
    BY <1>4, <1>5
  <2> QED BY <1>4, <1>5, <2>1 DEF Chunk
<1>7. PICK gl \in Nat : gl = Len(got) /\ gl < n
  BY <1>1, <1>2, <1>3, LastNotGot
<1>8. AtRest'
  BY <1>4, <1>5 DEF AtRest
<1>9. (\E rest : Answers(Arriving(<< >>), Len(got), sent, rest, FALSE)) /\ Complete(FALSE)
  BY <1>1, Standing
<1>10. file[Chunk] \in File
  BY <1>2, <1>6 DEF TypeOK
<1>11. PICK y \in Bytes : y = file[Chunk].data[o + 1]
  <2>1. file[Chunk].data \in Seq(Bytes)
    BY <1>10 DEF File, Bytes
  <2>2. o + 1 \in 1 .. Len(file[Chunk].data)
    BY <1>1, <1>3, <2>1
  <2> QED BY <2>1, <2>2
<1>12. /\ wire' = Append(wire, y)
       /\ sent' = [sent EXCEPT ![n].content = Append(@, y)]
       /\ srv' = [srv EXCEPT !.offset = o + 1]
  BY <1>3, <1>4, <1>11 DEF ReadPart, ReadTo
<1>13. srv' \in Served /\ srv'.pc = "read" /\ srv'.part = n /\ srv'.offset = o + 1
  <2>1. srv \in Served /\ srv.pc = "read" /\ srv.part = n /\ o + 1 \in Nat
    BY <1>1, <1>2, <1>4
  <2> QED BY <1>12, <2>1 DEF Served
<1>14. Chunk' = Chunk
  BY <1>4, <1>5, <1>13 DEF Chunk
<1>15. sent[n] \in Part
  BY <1>2, <1>3, <1>6
<1>16. PICK e \in Part : e = [sent[n] EXCEPT !.content = Append(@, y)]
  BY <1>15, PartGrows
<1>17. e.id = sent[n].id /\ e.content = Append(sent[n].content, y)
  BY <1>15, <1>16 DEF Part
<1>18. /\ sent' \in Seq(Part) /\ Len(sent') = n /\ sent'[n] = e
       /\ \A i \in 1 .. n - 1 : sent'[i] = sent[i]
  <2>1. sent' = [sent EXCEPT ![n] = e]
    BY <1>12, <1>16
  <2>2. /\ [sent EXCEPT ![n] = e] \in Seq(Part) /\ Len([sent EXCEPT ![n] = e]) = Len(sent)
        /\ \A j \in 1 .. Len(sent) : [sent EXCEPT ![n] = e][j] = IF j = n THEN e ELSE sent[j]
    <3>1. n \in 1 .. Len(sent)
      BY <1>3, <1>6
    <3> QED BY <1>2, <3>1, ExceptSeq
  <2>3. \A j \in 1 .. n : sent'[j] = IF j = n THEN e ELSE sent[j]
    BY <1>3, <2>1, <2>2
  <2>4. \A j \in 1 .. n - 1 : j \in 1 .. n /\ j # n
    OBVIOUS
  <2> QED BY <1>3, <1>6, <2>1, <2>2, <2>3, <2>4
<1>19. PICK x \in Seq(Symbols) : x = <<y>> /\ wire' = wire \o x
  <2>1. y \in Symbols
    BY DEF Symbols
  <2>2. <<y>> \in Seq(Symbols)
    BY <2>1
  <2>3. Append(wire, y) = wire \o <<y>>
    BY <1>2, <2>1, AppendIsConcat
  <2> QED BY <1>12, <2>2, <2>3
<1>20. /\ wire' \in Seq(Symbols) /\ Arriving(<< >>) \in Seq(Symbols)
       /\ Arriving(<< >>)' = Arriving(<< >>) \o x
  BY <1>2, <1>5, <1>19, DataGrows DEF Arriving
<1>21. PICK rest2 : Answers(Arriving(<< >>)', Len(got'), sent', rest2, FALSE)
  <2>1. PICK rest : Answers(Arriving(<< >>), Len(got), sent, rest, FALSE)
    BY <1>9
  <2>2. /\ Len(sent') = Len(sent) /\ Len(sent) # 0
        /\ \A i \in 1 .. Len(sent) - 1 : sent'[i] = sent[i]
        /\ sent'[Len(sent)] = [sent[Len(sent)] EXCEPT !.content = Append(@, y)]
    BY <1>3, <1>4, <1>16, <1>18
  <2>3. \E rest2 : Answers(Arriving(<< >>) \o <<y>>, Len(got), sent', rest2, FALSE)
    BY <1>2, <1>18, <1>20, <2>1, <2>2, SectionRead
  <2> QED BY <1>5, <1>19, <1>20, <2>3
<1>22. Ledger'
  <2>1. \A i \in 1 .. gl : sent'[i] = sent[i]
    BY <1>7, <1>18
  <2>2. gl <= Len(sent')
    BY <1>7, <1>18
  <2> QED BY <1>2, <1>5, <1>7, <2>1, <2>2, LedgerStays
<1>23. \A i \in 1 .. n : i \in 1 .. n - 1 \/ i = n
  OBVIOUS
<1>24. Named'
  <2>1. \A i \in 1 .. n : sent[i].id = request[i]
    BY <1>3, <1>4 DEF Named
  <2>2. \A i \in 1 .. n : sent'[i].id = request[i]
    BY <1>6, <1>17, <1>18, <1>23, <2>1
  <2> QED BY <1>4, <1>5, <1>18, <2>2 DEF Named
<1>25. Serving'
  <2>1. CASE Chunk \in torn
    <3>1. Chunk' \in torn'
      BY <1>5, <1>14, <2>1
    <3> QED BY <1>4, <1>13, <1>18, <3>1 DEF Serving
  <2>2. CASE Chunk \notin torn
    <3>1. file[Chunk] = [there |-> TRUE, data |-> Whole[Chunk]]
      BY <1>4, <1>6, <2>2 DEF AtRest
    <3>2. PICK W \in Seq(Bytes) : W = Whole[Chunk]
      BY <1>6, DownloadAssumption DEF Bytes
    <3>3. PICK wl \in Nat : wl = Len(W)
      OBVIOUS
    <3>4. /\ y = W[o + 1] /\ o < wl
      BY <1>1, <1>3, <1>11, <3>1, <3>2, <3>3
    <3>5. sent[n].content = SubSeq(W, 1, o)
      BY <1>3, <1>4, <2>2, <3>2 DEF AsFar
    <3>6. SubSeq(W, 1, o + 1) = Append(SubSeq(W, 1, o), W[o + 1])
      BY <3>3, <3>4, PrefixGrows
    <3>7. sent'[n].content = SubSeq(W, 1, o + 1)
      BY <1>17, <1>18, <3>4, <3>5, <3>6
    <3>8. o + 1 <= wl
      BY <3>4
    <3>9. AsFar'
      BY <1>13, <1>14, <3>2, <3>3, <3>7, <3>8 DEF AsFar
    <3> QED BY <1>4, <1>13, <1>18, <3>9 DEF Serving
  <2> QED BY <2>1, <2>2
<1>26. Complete(FALSE)'
  <2>1. \A i \in 1 .. n : i # n => Unspoilt(sent[i])
    BY <1>3, <1>9 DEF Complete
  <2>2. \A i \in 1 .. n : i # n => Unspoilt(sent[i])'
    BY <1>5, <1>18, <1>23, <2>1 DEF Unspoilt
  <2> QED BY <1>13, <1>18, <2>2 DEF Complete
<1>27. Streaming'
  <2>1. Coming(rest2, FALSE, << >>)'
    BY <1>13, <1>21, <1>26 DEF Coming
  <2>2. FALSE \in BOOLEAN /\ << >> \in Seq(Symbols)
    OBVIOUS
  <2> QED BY <1>8, <1>24, <1>25, <2>1, <2>2 DEF Streaming
<1>28. srv'.part <= Len(request) /\ buffer' \in Seq(Symbols) /\ got' \in Seq(Part)
  BY <1>2, <1>4, <1>5, <1>13
<1> QED BY <1>1, <1>2, <1>13, <1>18, <1>20, <1>22, <1>27, <1>28, StreamStep

\* A file that has been read to its end has given a whole part, or was torn.
LEMMA ReadToTheEnd ==
  ASSUME BatchInv, srv.pc = "read", srv.offset >= Len(file[Chunk].data)
  PROVE  \A i \in 1 .. Len(sent) : Unspoilt(sent[i])
<1>1. /\ Streaming /\ srv \in Served /\ TypeOK /\ sent \in Seq(Part)
      /\ srv.part <= Len(request)
  BY InStream
<1>2. PICK n \in Nat, o \in Nat : n = Len(sent) /\ o = srv.offset
  BY <1>1 DEF Served
<1>3. /\ Named /\ AtRest /\ srv.part = n /\ n # 0 /\ n <= Len(request)
      /\ Chunk \in torn \/ AsFar
  BY <1>1, <1>2 DEF Streaming, Serving
<1>4. n \in 1 .. n /\ n \in 1 .. Len(request) /\ request \in Seq(Chunks)
  BY <1>1, <1>3, RequestType
<1>5. Chunk \in Chunks /\ sent[n].id = Chunk
  BY <1>2, <1>3, <1>4 DEF Chunk, Named
<1>6. Complete(FALSE)
  BY Standing
<1>7. Unspoilt(sent[n])
  <2>1. CASE Chunk \in torn
    BY <1>5, <2>1 DEF Unspoilt
  <2>2. CASE Chunk \notin torn
    <3>1. file[Chunk] = [there |-> TRUE, data |-> Whole[Chunk]]
      BY <1>3, <1>5, <2>2 DEF AtRest
    <3>2. PICK W \in Seq(Bytes) : W = Whole[Chunk]
      BY <1>5, DownloadAssumption DEF Bytes
    <3>3. PICK wl \in Nat : wl = Len(W)
      OBVIOUS
    <3>4. wl <= o /\ o <= wl
      BY <1>2, <1>3, <2>2, <3>1, <3>2, <3>3 DEF AsFar
    <3>5. o = wl
      BY <3>4
    <3>6. sent[n].content = SubSeq(W, 1, Len(W))
      BY <1>2, <1>3, <2>2, <3>2, <3>3, <3>5 DEF AsFar
    <3>7. sent[n].content = W
      BY <3>6, SubSeqFull
    <3> QED BY <1>5, <3>2, <3>7 DEF Unspoilt
  <2> QED BY <2>1, <2>2
<1> QED BY <1>2, <1>6, <1>7 DEF Complete

LEMMA EndStep ==
  ASSUME BatchInv, EndPart
  PROVE  BatchInv'
<1>1. /\ srv.pc = "read" /\ srv.offset >= Len(file[Chunk].data)
      /\ UNCHANGED <<setting, store, buffer, got, sent, torn, client, refused>>
  BY DEF EndPart
<1>2. /\ client = "stream" /\ Streaming /\ srv \in Served /\ Ledger /\ TypeOK
      /\ got \in Seq(Part) /\ sent \in Seq(Part)
      /\ buffer \in Seq(Symbols) /\ wire \in Seq(Symbols)
      /\ srv.part <= Len(request)
  BY <1>1, InStream
<1>3. PICK n \in Nat, rl \in Nat : n = Len(sent) /\ rl = Len(request)
  BY <1>2, RequestType
<1>4. Named /\ AtRest /\ srv.part = n /\ n # 0 /\ n <= rl
  BY <1>1, <1>2, <1>3 DEF Streaming, Serving
<1>5. /\ request' = request /\ file' = file /\ torn' = torn /\ got' = got /\ buffer' = buffer
      /\ sent' = sent
  BY <1>1 DEF setting, store
<1>6. AtRest' /\ Ledger' /\ Named'
  BY <1>2, <1>4, <1>5 DEF AtRest, Ledger, Named, Unspoilt
<1>7. Complete(FALSE)' /\ Complete(TRUE)'
  <2>1. \A i \in 1 .. n : Unspoilt(sent[i])
    BY <1>1, <1>3, ReadToTheEnd
  <2>2. \A i \in 1 .. n : Unspoilt(sent[i])'
    BY <1>5, <2>1 DEF Unspoilt
  <2> QED BY <1>3, <1>5, <2>2 DEF Complete
<1>8. PICK rest : Answers(Arriving(<< >>), Len(got), sent, rest, FALSE)
  BY <1>1, Standing
<1>9. TRUE \in BOOLEAN /\ FALSE \in BOOLEAN /\ << >> \in Seq(Symbols)
  OBVIOUS
<1>10. CASE srv.part < Len(request)
  <2>1. srv' = [pc |-> "open", part |-> n + 1, offset |-> 0] /\ wire' = wire
    BY <1>4, <1>10 DEF EndPart
  <2>2. srv' \in Served /\ srv'.pc = "open" /\ srv'.part = n + 1 /\ n + 1 <= rl
    BY <1>3, <1>4, <1>10, <2>1 DEF Served
  <2>3. Coming(rest, FALSE, << >>)'
    BY <1>5, <1>7, <1>8, <2>1, <2>2 DEF Coming, Arriving
  <2>4. Serving'
    BY <1>3, <1>5, <2>2 DEF Serving
  <2>5. Streaming'
    BY <1>6, <1>9, <2>3, <2>4 DEF Streaming
  <2>6. srv'.part <= Len(request)
    BY <1>3, <2>2
  <2> QED BY <1>1, <1>2, <1>5, <1>6, <2>1, <2>2, <2>5, <2>6, StreamStep
<1>11. CASE ~ srv.part < Len(request)
  <2>1. srv' = [srv EXCEPT !.pc = "done"] /\ wire' = wire \o Closing
    BY <1>11 DEF EndPart
  <2>2. srv' \in Served /\ srv'.pc = "done" /\ srv'.part = srv.part /\ n = rl
    <3>1. srv' \in Served /\ srv'.pc = "done" /\ srv'.part = srv.part
      BY <1>2, <2>1 DEF Served
    <3>2. ~ n < rl
      BY <1>3, <1>4, <1>11
    <3>3. n = rl
      BY <1>4, <3>2
    <3> QED BY <3>1, <3>3
  <2>3. /\ wire' \in Seq(Symbols) /\ Arriving(<< >>) \in Seq(Symbols)
        /\ Arriving(<< >>)' = Arriving(<< >>) \o Closing
    BY <1>2, <1>5, <2>1, ClosingType, DataGrows DEF Arriving
  <2>4. PICK rest2 : Answers(Arriving(<< >>)', Len(got'), sent', rest2, TRUE)
    <3>1. \E rest2 : Answers(Arriving(<< >>) \o Closing, Len(got), sent, rest2, TRUE)
      BY <1>2, <1>8, <2>3, AnswerClosed
    <3> QED BY <1>5, <2>3, <3>1
  <2>5. Coming(rest2, TRUE, << >>)'
    BY <1>7, <2>2, <2>4 DEF Coming
  <2>6. Serving'
    BY <1>3, <1>5, <2>2 DEF Serving
  <2>7. Streaming'
    BY <1>6, <1>9, <2>5, <2>6 DEF Streaming
  <2> QED BY <1>1, <1>2, <1>5, <1>6, <2>2, <2>3, <2>7, StreamStep
<1> QED BY <1>10, <1>11

\* What was on its way is lost.
LEMMA BreaksStep ==
  ASSUME BatchInv, Breaks
  PROVE  BatchInv'
<1>1. /\ srv.pc \in {"open", "read", "done"} /\ srv.pc # "idle"
      /\ srv' = [srv EXCEPT !.pc = "cut"] /\ wire' = << >>
      /\ UNCHANGED <<setting, store, buffer, got, sent, torn, client, refused>>
  BY DEF Breaks
<1>2. /\ client = "stream" /\ Streaming /\ srv \in Served /\ Ledger /\ TypeOK
      /\ got \in Seq(Part) /\ sent \in Seq(Part)
      /\ buffer \in Seq(Symbols) /\ wire \in Seq(Symbols)
      /\ srv.part <= Len(request)
  BY <1>1, InStream
<1>3. /\ request' = request /\ file' = file /\ torn' = torn /\ got' = got /\ buffer' = buffer
      /\ sent' = sent
  BY <1>1 DEF setting, store
<1>4. srv' \in Served /\ srv'.pc = "cut" /\ srv'.part = srv.part
  BY <1>1, <1>2 DEF Served
<1>5. AtRest' /\ Ledger' /\ Named'
  BY <1>2, <1>3 DEF AtRest, Ledger, Named, Unspoilt, Streaming
<1>6. Serving'
  BY <1>4 DEF Serving
<1>7. PICK closed \in BOOLEAN, lost \in Seq(Symbols) : \E rest : Coming(rest, closed, lost)
  BY <1>2 DEF Streaming
<1>8. PICK rest : Coming(rest, closed, lost)
  BY <1>7
<1>9. lost = << >>
  BY <1>1, <1>8 DEF Coming
<1>10. PICK w \in Seq(Symbols) : w = wire
  BY <1>2
<1>11. Arriving(w)' = Arriving(lost)
  <2>1. w \o << >> = w /\ << >> \o w = w
    BY ConcatEmptySeq
  <2>2. Arriving(w)' = buffer \o (<< >> \o w)
    BY <1>1, <1>3 DEF Arriving
  <2>3. Arriving(lost) = buffer \o (w \o << >>)
    BY <1>9, <1>10 DEF Arriving
  <2> QED BY <2>1, <2>2, <2>3
<1>12. Complete(closed)'
  <2>1. \A i \in 1 .. Len(sent) : Unspoilt(sent[i]) \/ (i = Len(sent) /\ ~ closed)
    BY <1>8 DEF Coming, Complete
  <2>2. \A i \in 1 .. Len(sent) : Unspoilt(sent[i])' \/ (i = Len(sent) /\ ~ closed)
    BY <1>3, <2>1 DEF Unspoilt
  <2> QED BY <1>3, <1>4, <2>2 DEF Complete
<1>13. Coming(rest, closed, w)'
  BY <1>3, <1>4, <1>8, <1>11, <1>12 DEF Coming
<1>14. Streaming'
  BY <1>5, <1>6, <1>13 DEF Streaming
<1>15. wire' \in Seq(Symbols)
  BY <1>1
<1> QED BY <1>1, <1>2, <1>3, <1>4, <1>5, <1>14, <1>15, StreamStep

\* In the stream, whatever became of the server's side of it.
LEMMA Underway ==
  ASSUME BatchInv, client = "stream"
  PROVE  /\ Streaming /\ Named /\ Serving /\ AtRest /\ srv \in Served /\ Ledger /\ TypeOK
         /\ got \in Seq(Part) /\ sent \in Seq(Part)
         /\ buffer \in Seq(Symbols) /\ wire \in Seq(Symbols)
         /\ srv.part <= Len(request)
         /\ \E closed \in BOOLEAN, lost \in Seq(Symbols) : \E rest : Coming(rest, closed, lost)
<1>1. Streaming
  BY DEF BatchInv
<1>2. srv.pc # "idle"
  BY <1>1 DEF Streaming, Serving
<1> QED BY <1>1, <1>2, InStream DEF Streaming

LEMMA ReceiveStep ==
  ASSUME BatchInv, Receive
  PROVE  BatchInv'
<1>1. /\ client = "stream"
      /\ UNCHANGED <<setting, store, srv, got, sent, torn, client, refused>>
  BY DEF Receive
<1>2. PICK n \in 1 .. Len(wire) :
        buffer' = buffer \o SubSeq(wire, 1, n) /\ wire' = SubSeq(wire, n + 1, Len(wire))
  BY DEF Receive
<1>3. /\ Named /\ Serving /\ AtRest /\ srv \in Served /\ Ledger
      /\ got \in Seq(Part) /\ sent \in Seq(Part)
      /\ buffer \in Seq(Symbols) /\ wire \in Seq(Symbols)
      /\ srv.part <= Len(request)
      /\ \E closed \in BOOLEAN, lost \in Seq(Symbols) : \E rest : Coming(rest, closed, lost)
  BY <1>1, Underway
<1>4. /\ request' = request /\ file' = file /\ torn' = torn /\ got' = got /\ sent' = sent
      /\ srv' = srv
  BY <1>1 DEF setting, store
<1>5. PICK closed \in BOOLEAN, lost \in Seq(Symbols) : \E rest : Coming(rest, closed, lost)
  BY <1>3
<1>6. PICK rest : Coming(rest, closed, lost)
  BY <1>5
<1>7. /\ buffer' \in Seq(Symbols) /\ wire' \in Seq(Symbols)
      /\ Arriving(lost)' = Arriving(lost)
  <2>1. PICK b \in Seq(Symbols), w \in Seq(Symbols) : b = buffer /\ w = wire
    BY <1>3
  <2>2. n \in 1 .. Len(w)
    BY <2>1
  <2>3. /\ b \o SubSeq(w, 1, n) \in Seq(Symbols) /\ SubSeq(w, n + 1, Len(w)) \in Seq(Symbols)
        /\ (b \o SubSeq(w, 1, n)) \o (SubSeq(w, n + 1, Len(w)) \o lost) = b \o (w \o lost)
    BY <2>2, DataMoves
  <2> QED BY <1>2, <2>1, <2>3 DEF Arriving
<1>8. Coming(rest, closed, lost)'
  BY <1>4, <1>6, <1>7 DEF Coming, Complete, Unspoilt
<1>9. Streaming'
  <2>1. Named' /\ Serving' /\ AtRest'
    BY <1>3, <1>4 DEF Named, Serving, AtRest, AsFar, Chunk
  <2> QED BY <1>8, <2>1 DEF Streaming
<1>10. Ledger'
  BY <1>3, <1>4 DEF Ledger, Unspoilt
<1> QED BY <1>1, <1>3, <1>4, <1>7, <1>9, <1>10, StreamStep

LEMMA ExtractStep ==
  ASSUME BatchInv, Extract
  PROVE  BatchInv'
<1>1. /\ client = "stream" /\ HasPart(buffer)
      /\ UNCHANGED <<setting, store, srv, wire, sent, torn, client, refused>>
      /\ got' = got \o Parsed(NextPart(buffer)) /\ buffer' = Rest(buffer)
  BY DEF Extract
<1>2. /\ Named /\ Serving /\ AtRest /\ srv \in Served /\ Ledger
      /\ got \in Seq(Part) /\ sent \in Seq(Part)
      /\ buffer \in Seq(Symbols) /\ wire \in Seq(Symbols)
      /\ srv.part <= Len(request)
      /\ \E closed \in BOOLEAN, lost \in Seq(Symbols) : \E rest : Coming(rest, closed, lost)
  BY <1>1, Underway
<1>3. /\ request' = request /\ file' = file /\ torn' = torn /\ sent' = sent
      /\ srv' = srv /\ wire' = wire
  BY <1>1 DEF setting, store
<1>4. PICK closed \in BOOLEAN, lost \in Seq(Symbols) : \E rest : Coming(rest, closed, lost)
  BY <1>2
<1>5. PICK rest : Coming(rest, closed, lost)
  BY <1>4
<1>6. PICK b \in Seq(Symbols), w \in Seq(Symbols) : b = buffer /\ w = wire \o lost
  BY <1>2, ConcatProperties
<1>7. PICK k : k = Len(got)
  OBVIOUS
<1>8. Answers(b \o w, k, sent, rest, closed) /\ HasPart(b)
  BY <1>1, <1>5, <1>6, <1>7 DEF Coming, Arriving
<1>9. /\ k + 1 \in 1 .. Len(sent)
      /\ Parsed(NextPart(b)) = <<sent[k + 1]>>
      /\ Rest(b) \in Seq(Symbols)
      /\ Answers(Rest(b) \o w, k + 1, sent, rest, closed)
  <2>1. sent \in Seq(Part)
    BY <1>2
  <2> QED BY <1>8, <2>1, Extracted
<1>10. k \in Nat
  BY <1>2, <1>7
<1>11. PICK n \in Nat : n = Len(sent)
  BY <1>2
<1>12. k + 1 \in 1 .. n /\ k + 1 <= n /\ sent[k + 1] \in Part
  BY <1>2, <1>9, <1>10, <1>11
<1>13. /\ got' \in Seq(Part) /\ Len(got') = k + 1
       /\ \A i \in 1 .. k : got'[i] = got[i]
       /\ got'[k + 1] = sent[k + 1]
  <2>1. got' = Append(got, sent[k + 1])
    <3>1. Append(got, sent[k + 1]) = got \o <<sent[k + 1]>>
      BY <1>2, <1>12, AppendIsConcat
    <3> QED BY <1>1, <1>6, <1>9, <3>1
  <2> QED BY <1>2, <1>7, <1>12, <2>1, AppendProperties
<1>14. Arriving(lost)' = Rest(b) \o w /\ buffer' \in Seq(Symbols)
  BY <1>1, <1>3, <1>6, <1>9 DEF Arriving
<1>15. Complete(closed)'
  BY <1>3, <1>5 DEF Coming, Complete, Unspoilt
<1>16. Coming(rest, closed, lost)'
  BY <1>3, <1>5, <1>9, <1>13, <1>14, <1>15 DEF Coming
<1>17. Unspoilt(sent[k + 1])
  <2>1. k + 1 # n \/ closed
    <3>1. SUFFICES ASSUME k + 1 = n PROVE closed
      OBVIOUS
    <3>2. Answers(Rest(b) \o w, k + 1, sent, rest, closed) /\ k + 1 = Len(sent)
      BY <1>9, <1>11, <3>1
    <3>3. k + 1 = 0 \/ closed
      BY <1>2, <1>9, <3>2, NoneLeft
    <3> QED BY <1>10, <3>3
  <2> QED BY <1>5, <1>11, <1>12, <2>1 DEF Coming, Complete
<1>18. Ledger'
  <2>1. \A i \in 1 .. k : got'[i] = sent[i] /\ Unspoilt(got'[i])
    BY <1>2, <1>7, <1>13 DEF Ledger
  <2>2. \A i \in 1 .. k + 1 : i \in 1 .. k \/ i = k + 1
    BY <1>10
  <2>3. \A i \in 1 .. k + 1 : got'[i] = sent[i] /\ Unspoilt(got'[i])
    BY <1>13, <1>17, <2>1, <2>2
  <2>4. \A i \in 1 .. k + 1 : Unspoilt(got[i])'
    BY <1>3, <2>3 DEF Unspoilt
  <2> QED BY <1>3, <1>11, <1>12, <1>13, <2>3, <2>4 DEF Ledger
<1>19. Streaming'
  <2>1. Named' /\ Serving' /\ AtRest'
    BY <1>2, <1>3 DEF Named, Serving, AtRest, AsFar, Chunk
  <2> QED BY <1>16, <2>1 DEF Streaming
<1> QED BY <1>1, <1>2, <1>3, <1>13, <1>14, <1>18, <1>19, StreamStep

\* All has arrived when the stream ends without an error.
LEMMA StreamEndsStep ==
  ASSUME BatchInv, StreamEnds
  PROVE  BatchInv'
<1>1. /\ client = "stream" /\ wire = << >> /\ ~ HasPart(buffer)
      /\ client' = (IF srv.pc = "done" THEN "ok" ELSE "failed") /\ srv' = SrvIdle
      /\ UNCHANGED <<setting, store, wire, buffer, got, sent, torn, refused>>
  BY DEF StreamEnds
<1>2. /\ Named /\ Serving /\ srv \in Served /\ Ledger /\ TypeOK
      /\ got \in Seq(Part) /\ sent \in Seq(Part)
      /\ buffer \in Seq(Symbols) /\ wire \in Seq(Symbols)
      /\ \E closed \in BOOLEAN, lost \in Seq(Symbols) : \E rest : Coming(rest, closed, lost)
  BY <1>1, Underway
<1>3. /\ UNCHANGED <<now, mode, token, request, file, writer>> /\ torn' = torn /\ got' = got
      /\ sent' = sent /\ buffer' = buffer /\ wire' = wire /\ refused' = refused
  BY <1>1 DEF setting, store
<1>4. client' = "ok" => Len(got) = Len(sent) /\ Len(sent) = Len(request)
  <2>1. SUFFICES ASSUME srv.pc = "done"
                 PROVE  Len(got) = Len(sent) /\ Len(sent) = Len(request)
    BY <1>1
  <2>2. PICK closed \in BOOLEAN, lost \in Seq(Symbols) : \E rest : Coming(rest, closed, lost)
    BY <1>2
  <2>3. PICK rest : Coming(rest, closed, lost)
    BY <2>2
  <2>4. closed = TRUE /\ lost = << >>
    BY <2>1, <2>3 DEF Coming
  <2>5. Arriving(lost) = buffer \o << >>
    <3>1. << >> \o << >> = << >>
      OBVIOUS
    <3> QED BY <1>1, <2>4, <3>1 DEF Arriving
  <2>6. Answers(buffer \o << >>, Len(got), sent, rest, TRUE)
    BY <2>3, <2>4, <2>5 DEF Coming
  <2>7. Len(got) = Len(sent)
    BY <1>1, <1>2, <2>6, AllArrived
  <2> QED BY <1>2, <2>1, <2>7 DEF Serving
<1>5. Ledger' /\ Named'
  BY <1>2, <1>3 DEF Ledger, Named, Unspoilt
<1>6. Shape'
  BY <1>1, <1>2, <1>3 DEF Shape, SrvIdle, Served
<1>7. TypeOK'
  <2>1. srv'.pc \in {"idle", "open", "read", "done", "cut"} /\ srv'.part \in 0 .. Len(request')
    BY <1>1, <1>2, <1>3, RequestType DEF SrvIdle
  <2>2. client' \in {"idle", "stream", "ok", "failed"}
    BY <1>1
  <2> QED BY <1>2, <1>3, <2>1, <2>2 DEF TypeOK
<1>8. client' # "stream"
  BY <1>1
<1> QED BY <1>3, <1>4, <1>5, <1>6, <1>7, <1>8 DEF BatchInv

LEMMA AskStep ==
  ASSUME BatchInv, Ask
  PROVE  BatchInv'
<1>1. /\ wire' = << >> /\ buffer' = << >> /\ got' = << >> /\ sent' = << >>
      /\ torn' = NotWhole /\ UNCHANGED <<now, mode, token, request, file, writer>>
      /\ refused' = (refused \/ Answer \in {401, 402})
  BY DEF Ask, setting, store
<1>2. TypeOK /\ Len(request) \in Nat /\ Len(request) # 0
  BY RequestType DEF BatchInv
<1>3. /\ << >> \in Seq(Symbols) /\ << >> \in Seq(Part) /\ Len(<< >>) = 0 /\ FALSE \in BOOLEAN
      /\ 1 .. 0 = {}
  OBVIOUS
<1>4. Ledger' /\ Named'
  BY <1>1, <1>2, <1>3 DEF Ledger, Named
<1>5. torn' \subseteq Chunks /\ refused' \in BOOLEAN
  BY <1>1, <1>2 DEF NotWhole, TypeOK
<1>6. CASE Answer = 200
  <2>1. client' = "stream" /\ srv' = [pc |-> "open", part |-> 1, offset |-> 0]
    BY <1>6 DEF Ask
  <2>2. srv' \in Served /\ srv'.pc = "open" /\ srv'.part = 1 /\ srv'.part \in 0 .. Len(request')
    BY <1>1, <1>2, <2>1 DEF Served
  <2>3. Shape'
    BY <1>1, <1>3, <2>1, <2>2 DEF Shape
  <2>4. TypeOK'
    <3>1. /\ client' \in {"idle", "stream", "ok", "failed"}
          /\ srv'.pc \in {"idle", "open", "read", "done", "cut"}
      BY <2>1, <2>2
    <3> QED BY <1>1, <1>2, <1>3, <1>5, <2>2, <3>1 DEF TypeOK
  <2>5. Serving' /\ AtRest'
    BY <1>1, <1>3, <2>2 DEF Serving, AtRest, NotWhole
  <2>6. Coming([i \in Nat |-> << >>], FALSE, << >>)'
    <3> DEFINE rest == [i \in Nat |-> << >>]
    <3>1. rest \in [Nat -> Seq(Symbols)] /\ rest[0 + 1] = << >>
      BY <1>3
    <3> HIDE DEF rest
    <3>2. Arriving(<< >>)' = << >>
      BY <1>1 DEF Arriving
    <3>3. Resume(0, << >>) = << >>
      BY DEF Resume, Before
    <3>4. Answers(<< >>, 0, << >>, rest, FALSE)
      BY <1>3, <3>1, <3>3 DEF Answers
    <3>5. Complete(FALSE)'
      BY <1>1, <1>3 DEF Complete
    <3>6. Coming(rest, FALSE, << >>)'
      BY <1>1, <1>3, <2>2, <3>2, <3>4, <3>5 DEF Coming
    <3> QED BY <3>6 DEF rest
  <2>7. Streaming'
    BY <1>3, <1>4, <2>5, <2>6 DEF Streaming
  <2> QED BY <1>4, <2>1, <2>3, <2>4, <2>7 DEF BatchInv
<1>7. CASE Answer # 200
  <2>1. client' = "failed" /\ srv' = SrvIdle
    BY <1>7 DEF Ask
  <2>2. Shape'
    BY <1>1, <1>3, <2>1 DEF Shape, SrvIdle, Served
  <2>3. TypeOK'
    <3>1. /\ client' \in {"idle", "stream", "ok", "failed"}
          /\ srv'.pc \in {"idle", "open", "read", "done", "cut"}
          /\ srv'.part \in 0 .. Len(request')
      BY <1>1, <1>2, <2>1 DEF SrvIdle
    <3> QED BY <1>1, <1>2, <1>3, <1>5, <3>1 DEF TypeOK
  <2> QED BY <1>4, <2>1, <2>2, <2>3 DEF BatchInv
<1> QED BY <1>6, <1>7

LEMMA RunsAgainStep ==
  ASSUME BatchInv, RunsAgain
  PROVE  BatchInv'
<1>1. /\ client' = "idle" /\ srv' = SrvIdle
      /\ wire' = << >> /\ buffer' = << >> /\ got' = << >> /\ sent' = << >>
      /\ torn' = {} /\ UNCHANGED <<now, mode, token, request, file, writer, refused>>
  BY DEF RunsAgain, setting, store
<1>2. TypeOK /\ Len(request) \in Nat
  BY RequestType DEF BatchInv
<1>3. << >> \in Seq(Symbols) /\ << >> \in Seq(Part) /\ Len(<< >>) = 0 /\ 1 .. 0 = {}
  OBVIOUS
<1>4. Ledger'
  BY <1>1, <1>3 DEF Ledger
<1>5. Shape'
  BY <1>1, <1>3 DEF Shape, SrvIdle, Served
<1>6. TypeOK'
  <2>1. /\ client' \in {"idle", "stream", "ok", "failed"}
        /\ srv'.pc \in {"idle", "open", "read", "done", "cut"}
        /\ srv'.part \in 0 .. Len(request')
    BY <1>1, <1>2 DEF SrvIdle
  <2> QED BY <1>1, <1>2, <1>3, <2>1 DEF TypeOK
<1> QED BY <1>1, <1>4, <1>5, <1>6 DEF BatchInv

\* A chunk that is rewritten is torn from then on, unless it is what it was.
LEMMA RewrittenStep ==
  ASSUME BatchInv, NEW c \in Chunks, NEW data \in File, Rewritten(c, data), writer' \subseteq Chunks
  PROVE  BatchInv'
<1>1. /\ file' = [file EXCEPT ![c] = data] /\ torn \subseteq torn' /\ torn' \subseteq torn \cup {c}
      /\ c \in torn' \/ data = [there |-> TRUE, data |-> Whole[c]]
      /\ UNCHANGED <<now, mode, token, request, srv, wire, buffer, got, sent, client, refused>>
  BY DEF Rewritten, setting
<1>2. TypeOK /\ Shape /\ Ledger
  BY DEF BatchInv
<1>3. /\ file' \in [Chunks -> File] /\ torn' \subseteq Chunks /\ file'[c] = data
      /\ \A d \in Chunks : d # c => file'[d] = file[d]
  BY <1>1, <1>2 DEF TypeOK
<1>4. TypeOK'
  BY <1>1, <1>2, <1>3 DEF TypeOK
<1>5. Shape'
  BY <1>1, <1>2 DEF Shape
<1>6. ASSUME NEW p, Unspoilt(p) PROVE p.content = Whole[p.id] \/ p.id \in torn'
  BY <1>1, <1>6 DEF Unspoilt
<1>7. Ledger'
  <2>1. \A i \in 1 .. Len(got) : got[i] = sent[i] /\ Unspoilt(got[i])
    BY <1>2 DEF Ledger
  <2>2. \A i \in 1 .. Len(got) : Unspoilt(got[i])'
    BY <1>1, <1>6, <2>1 DEF Unspoilt
  <2> QED BY <1>1, <1>2, <2>1, <2>2 DEF Ledger
<1>8. Named => Named'
  BY <1>1 DEF Named
<1>9. ASSUME client = "stream" PROVE Streaming'
  <2>1. /\ Named /\ Serving /\ AtRest
        /\ \E closed \in BOOLEAN, lost \in Seq(Symbols) : \E rest : Coming(rest, closed, lost)
    BY <1>9, Underway
  <2>2. AtRest'
    BY <1>1, <1>3, <2>1 DEF AtRest
  <2>3. Serving'
    <3>1. Chunk' = Chunk
      BY <1>1 DEF Chunk
    <3>2. Chunk \in torn \/ AsFar => (Chunk \in torn)' \/ AsFar'
      BY <1>1, <3>1 DEF AsFar
    <3> QED BY <1>1, <2>1, <3>2 DEF Serving
  <2>4. PICK closed \in BOOLEAN, lost \in Seq(Symbols) : \E rest : Coming(rest, closed, lost)
    BY <2>1
  <2>5. PICK rest : Coming(rest, closed, lost)
    BY <2>4
  <2>6. Complete(closed)'
    <3>1. \A i \in 1 .. Len(sent) :
            Unspoilt(sent[i]) \/ (i = Len(sent) /\ ~ closed /\ srv.pc # "open")
      BY <2>5 DEF Coming, Complete
    <3>2. \A i \in 1 .. Len(sent) :
            Unspoilt(sent[i])' \/ (i = Len(sent) /\ ~ closed /\ srv.pc # "open")
      BY <1>1, <1>6, <3>1 DEF Unspoilt
    <3> QED BY <1>1, <3>2 DEF Complete
  <2>7. Coming(rest, closed, lost)'
    BY <1>1, <2>5, <2>6 DEF Coming, Arriving
  <2> QED BY <1>8, <2>1, <2>2, <2>3, <2>7 DEF Streaming
<1> QED BY <1>1, <1>4, <1>5, <1>7, <1>8, <1>9 DEF BatchInv

LEMMA UploadStep ==
  ASSUME BatchInv, NEW c \in Chunks, UploadCreates(c) \/ UploadWrites(c) \/ UploadFails(c)
  PROVE  BatchInv'
<1>1. writer' \subseteq Chunks
  <2>1. writer \subseteq Chunks
    BY DEF BatchInv, TypeOK
  <2> QED BY <2>1 DEF UploadCreates, UploadWrites, UploadFails
<1>2. /\ [there |-> TRUE, data |-> << >>] \in File /\ [there |-> FALSE, data |-> << >>] \in File
      /\ [there |-> TRUE, data |-> Whole[c]] \in File
  <2>1. Whole[c] \in Seq({"CR", "LF", "--", "x"}) /\ << >> \in Seq({"CR", "LF", "--", "x"})
    BY DownloadAssumption
  <2> QED BY <2>1 DEF File
<1>3. \E data \in File : Rewritten(c, data)
  BY <1>2 DEF UploadCreates, UploadWrites, UploadFails
<1> QED BY <1>1, <1>3, RewrittenStep

\* A lost write leaves everything but the writers as it was.
LEMMA LostWriteStep ==
  ASSUME BatchInv, NEW c \in Chunks, UploadLosesWrite(c)
  PROVE  BatchInv'
<1>1. /\ writer' = writer \ {c}
      /\ UNCHANGED <<now, mode, token, request, file, srv, wire, buffer, got, sent, torn,
                     client, refused>>
  BY DEF UploadLosesWrite, setting, answer
<1>2. TypeOK'
  BY <1>1 DEF BatchInv, TypeOK
<1> QED BY <1>1, <1>2 DEF BatchInv, Shape, Ledger, Streaming, Named, Serving, AsFar, AtRest,
                          Coming, Complete, Unspoilt, Arriving, Chunk

LEMMA SettingStep ==
  ASSUME BatchInv, Tick \/ Deploy
  PROVE  BatchInv'
<1>1. /\ client = "idle"
      /\ UNCHANGED <<token, request, file, writer, srv, wire, buffer, got, sent, torn, client>>
  BY DEF Tick, Deploy, answer, store
<1>2. TypeOK /\ Shape /\ Ledger
  BY DEF BatchInv
<1>3. now' \in 0 .. MaxTime /\ mode' \in Modes /\ refused' \in BOOLEAN
  <2>1. now \in 0 .. MaxTime /\ MaxTime \in Nat /\ mode \in Modes /\ refused \in BOOLEAN
    BY <1>2, DownloadAssumption DEF TypeOK
  <2>2. now' \in 0 .. MaxTime
    BY <2>1 DEF Tick, Deploy
  <2>3. mode' \in Modes
    BY <2>1 DEF Tick, Deploy
  <2>4. refused' \in BOOLEAN
    BY <2>1 DEF Tick, Deploy
  <2> QED BY <2>2, <2>3, <2>4
<1>4. TypeOK'
  BY <1>1, <1>2, <1>3 DEF TypeOK
<1>5. Shape' /\ Ledger'
  BY <1>1, <1>2 DEF Shape, Ledger, Unspoilt
<1> QED BY <1>1, <1>4, <1>5 DEF BatchInv

LEMMA BatchStep == BatchInv /\ [Next]_vars => BatchInv'
<1> SUFFICES ASSUME BatchInv, [Next]_vars PROVE BatchInv'
  OBVIOUS
<1>1. CASE Server
  BY <1>1, OpenStep, ReadStep, EndStep DEF Server
<1>2. CASE Client
  BY <1>2, AskStep, ReceiveStep, ExtractStep, StreamEndsStep, RunsAgainStep DEF Client
<1>3. CASE Uploads \/ \E c \in Chunks : UploadCreates(c)
  BY <1>3, UploadStep, LostWriteStep DEF Uploads
<1>4. CASE Breaks
  BY <1>4, BreaksStep
<1>5. CASE Tick \/ Deploy
  BY <1>5, SettingStep
<1>6. CASE UNCHANGED vars
  <2>1. UNCHANGED <<now, mode, token, request, file, writer, srv, wire, buffer, got, sent, torn,
                    client, refused>>
    BY <1>6 DEF vars, setting, store, answer
  <2> QED BY <2>1 DEF BatchInv, TypeOK, Shape, Ledger, Streaming, Named, Serving, AsFar, AtRest,
                      Coming, Complete, Unspoilt, Arriving, Chunk
<1> QED BY <1>1, <1>2, <1>3, <1>4, <1>5, <1>6 DEF Next

LEMMA BatchInit == Init => BatchInv
<1> SUFFICES ASSUME Init PROVE BatchInv
  OBVIOUS
<1>1. /\ now = 0 /\ mode \in Modes /\ token \in Tokens /\ request \in Requests
      /\ file = [c \in Chunks |-> [there |-> TRUE, data |-> Whole[c]]]
      /\ writer = {} /\ srv = SrvIdle /\ wire = << >> /\ buffer = << >> /\ got = << >>
      /\ sent = << >> /\ torn = {} /\ client = "idle" /\ refused = FALSE
  BY DEF Init
<1>2. << >> \in Seq(Symbols) /\ << >> \in Seq(Part) /\ Len(<< >>) = 0 /\ 1 .. 0 = {}
  OBVIOUS
<1>3. Len(request) \in Nat
  BY <1>1, DownloadAssumption
<1>4. TypeOK
  <2>1. now \in 0 .. MaxTime
    BY <1>1, DownloadAssumption
  <2>2. file \in [Chunks -> File]
    <3>1. \A c \in Chunks : Whole[c] \in Seq({"CR", "LF", "--", "x"})
      BY DownloadAssumption
    <3> QED BY <1>1, <3>1 DEF File
  <2>3. srv.pc \in {"idle", "open", "read", "done", "cut"} /\ srv.part \in 0 .. Len(request)
    BY <1>1, <1>3 DEF SrvIdle
  <2> QED BY <1>1, <1>2, <2>1, <2>2, <2>3 DEF TypeOK
<1>5. Shape
  BY <1>1, <1>2 DEF Shape, Served, SrvIdle
<1>6. Ledger
  BY <1>1, <1>2 DEF Ledger
<1> QED BY <1>1, <1>4, <1>5, <1>6 DEF BatchInv

LEMMA BatchAlways == Spec => []BatchInv
BY BatchInit, BatchStep, PTL DEF Spec

\* The state keeps its types through every answer, break and rewrite.
THEOREM BatchTypes == Spec => []TypeOK
<1>1. BatchInv => TypeOK
  BY DEF BatchInv
<1> QED BY <1>1, BatchAlways, PTL

\* The client's search for boundaries yields the parts the server streamed,
\* in order and byte for byte, however they are cut on their way, and all of
\* them when the stream ends well (client/src/remote.rs, extract_next_part;
\* server/src/chunks/response.rs, into_response).
THEOREM PartsArriveAsStreamed == Spec => []PartsAsStreamed
<1>1. BatchInv => PartsAsStreamed
  <2> SUFFICES ASSUME BatchInv PROVE PartsAsStreamed
    OBVIOUS
  <2>1. got \in Seq(Part) /\ sent \in Seq(Part) /\ Ledger
    BY DEF BatchInv, TypeOK
  <2>2. PICK n \in Nat, m \in Nat : n = Len(got) /\ m = Len(sent)
    BY <2>1
  <2>3. n <= m /\ \A i \in 1 .. n : got[i] = sent[i]
    BY <2>1, <2>2 DEF Ledger
  <2>4. IsPrefix(got, sent)
    <3>1. SubSeq(got, 1, n) = SubSeq(sent, 1, n)
      <4>1. /\ SubSeq(got, 1, n) \in Seq(Part) /\ Len(SubSeq(got, 1, n)) = n
            /\ \A i \in 1 .. n : SubSeq(got, 1, n)[i] = got[i]
        <5>1. \A i \in 1 .. n : got[i] \in Part
          BY <2>1, <2>2
        <5> QED BY <5>1, SubSeqProperties
      <4>2. /\ SubSeq(sent, 1, n) \in Seq(Part) /\ Len(SubSeq(sent, 1, n)) = n
            /\ \A i \in 1 .. n : SubSeq(sent, 1, n)[i] = sent[i]
        <5>1. \A i \in 1 .. n : sent[i] \in Part
          BY <2>1, <2>2, <2>3
        <5> QED BY <5>1, SubSeqProperties
      <4> QED BY <2>3, <4>1, <4>2, SeqEqual
    <3> QED BY <2>2, <2>3, <3>1 DEF IsPrefix
  <2>5. ASSUME client = "ok" PROVE got = sent /\ [i \in DOMAIN got |-> got[i].id] = request
    <3>1. n = m /\ m = Len(request) /\ Named /\ TypeOK
      BY <2>2, <2>5 DEF BatchInv
    <3>2. got = sent
      BY <2>1, <2>2, <2>3, <3>1, SeqEqual
    <3>3. \A i \in 1 .. n : got[i].id = request[i]
      BY <2>2, <3>1, <3>2 DEF Named
    <3>4. request \in Seq(Chunks)
      BY <3>1, RequestType
    <3>5. request = [i \in 1 .. n |-> request[i]] /\ DOMAIN got = 1 .. n
      <4>1. DOMAIN got = 1 .. n
        BY <2>1, <2>2
      <4>2. request \in [1 .. n -> Chunks]
        BY <3>1, <3>4, LenProperties
      <4> QED BY <4>1, <4>2
    <3> QED BY <3>2, <3>3, <3>5
  <2> QED BY <2>4, <2>5 DEF PartsAsStreamed
<1> QED BY <1>1, BatchAlways, PTL

\* What a batch puts into the cache under a hash is that hash's content unless
\* the chunk's file was being rewritten during the answer
\* (server/src/chunks/mod.rs, upload_chunks; client/src/syncer.rs, download_batch).
THEOREM PartsAreWhole == Spec => []WholeUnlessRewritten
<1>1. BatchInv => WholeUnlessRewritten
  <2> SUFFICES ASSUME BatchInv PROVE WholeUnlessRewritten
    OBVIOUS
  <2>1. got \in Seq(Part) /\ Ledger
    BY DEF BatchInv, TypeOK
  <2>2. DOMAIN got = 1 .. Len(got)
    BY <2>1
  <2> QED BY <2>1, <2>2 DEF WholeUnlessRewritten, Ledger, Unspoilt
<1> QED BY <1>1, BatchAlways, PTL
=============================================================================
