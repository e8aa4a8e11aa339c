---------------------------- MODULE Entitlement ----------------------------
(***************************************************************************)
(* What a request's token is good for (server/src/auth).                   *)
(*                                                                         *)
(* All routes want an authenticated User; all but has_files want an        *)
(* EntitledUser, whose token also carries sync_until, the time its account *)
(* may sync until.  How much that matters is the deployment's              *)
(* SYNC_ENFORCEMENT, read anew for each request.                           *)
(***************************************************************************)
EXTENDS Integers

CONSTANT Leeway     \* how long jsonwebtoken takes a token after its exp

ASSUME EntitlementAssumption == Leeway \in Nat

Modes == {"off", "log", "enforce"}

Missing == [kind |-> "missing", time |-> 0]

\* A token: whether it is signed with the server's JWT_SECRET, and its claims
\* exp and sync_until; the latter of kind "missing", "integer", or "malformed"
\* (a string, float, boolean or null).

\* decode_token, in extract_claims: what both extractors begin with.
Decodes(token, now) == token.signed /\ token.exp + Leeway >= now

\* lenient_ts
LenientTs(claim) == IF claim.kind = "integer" THEN claim ELSE Missing

\* The two reasons decide may have.
Expired(claim, now) == claim.kind = "integer" /\ claim.time < now
Lacking(claim) == claim.kind = "missing"

\* Mutant: a claim in the past and none at all are told apart the wrong way.
RejectsFutureClaims(mode, claim, now) ==
  mode = "enforce" /\ (Lacking(claim) \/ ~ Expired(claim, now))

\* decide: EntitlementDecision::Reject
Rejects(mode, claim, now) == mode = "enforce" /\ (Lacking(claim) \/ Expired(claim, now))

\* The extractor User.
UserStatus(token, now) == IF Decodes(token, now) THEN 200 ELSE 401

\* The extractor EntitledUser.
EntitledStatus(mode, token, now) ==
  IF ~ Decodes(token, now) THEN 401
  ELSE IF Rejects(mode, LenientTs(token.sync_until), now) THEN 402
  ELSE 200
=============================================================================
