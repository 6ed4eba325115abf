------------------------------- MODULE Claims -------------------------------
(***************************************************************************)
(* Claims: leases on resources (packages/core/src/claims.mjs), with the    *)
(* session events that end them (finishSession in conversations.mjs, the   *)
(* claims class of prune.mjs).                                             *)
(*                                                                         *)
(* Every operation is one store transaction that reads the session, the    *)
(* claims and the clock under the writer mutex.  The look that             *)
(* requireOwner takes before it can only refuse earlier what the           *)
(* transaction refuses again, so it is not a step.  What can go wrong lies *)
(* between transactions: a lease lapses, somebody else takes the resource, *)
(* the session is closed or its id passes to another generation.           *)
(*                                                                         *)
(* A session has at most one claim record per resource, because acquire    *)
(* reuses the record it finds, so a claim id is the pair of both.  Claims  *)
(* of a session id pass to its next generation: ownership is judged by the *)
(* session id alone.                                                       *)
(***************************************************************************)
EXTENDS Resources, FiniteSets

CONSTANTS
    SessionIds,
    Claimable,   \* the resources claimed, as claimResources leaves them
    Leases,      \* the lengths of a lease
    MaxTime,     \* bound on the clock
    MaxGen,      \* bound on the generations of a session id
    None         \* no claim

ASSUME ClaimableAssumption ==
    \A r \in Claimable : r.rest \in Seq(Segments)
ASSUME LeasesAssumption == Leases \subseteq Nat
ASSUME ClaimBoundsAssumption == MaxTime \in Nat /\ MaxGen \in Nat

VARIABLES
    now,        \* the clock
    session,    \* session[s]: [gen, open]
    claim,      \* claim[s][r]: the claim of s on r, or None
    taken       \* history: taken[s][r]: when s last acquired r exclusively, or -1

vars == <<now, session, claim, taken>>

-----------------------------------------------------------------------------
Modes == {"shared", "exclusive"}

ClaimRecord == [mode : Modes, acquired : Nat, expires : Nat]

ASSUME NoneAssumption == None \notin ClaimRecord

\* isLive
IsLive(c) == c # None /\ c.expires > now

\* requireOwner: open, and of the caller's generation.
Owns(s, g) == session[s].open /\ session[s].gen = g

\* Does the claim c on r stand in the way of acquiring `wanted`?
Blocks(c, r, wanted, mode) ==
    /\ IsLive(c)
    /\ Overlaps(r, wanted)
    /\ c.mode = "exclusive" \/ mode = "exclusive"

Init ==
    /\ now = 0
    /\ session = [s \in SessionIds |-> [gen |-> 0, open |-> FALSE]]
    /\ claim = [s \in SessionIds |-> [r \in Claimable |-> None]]
    /\ taken = [s \in SessionIds |-> [r \in Claimable |-> -1]]

\* Time passes.
Tick ==
    /\ now < MaxTime
    /\ now' = now + 1
    /\ UNCHANGED <<session, claim, taken>>

\* A generation of s opens; it may replace one that is open (its process is dead).
Open(s) ==
    /\ session[s].gen < MaxGen
    /\ session' = [session EXCEPT ![s] = [gen |-> @.gen + 1, open |-> TRUE]]
    /\ UNCHANGED <<now, claim, taken>>

\* closeSession leaves the claims to their leases.
Close(s) ==
    /\ session[s].open
    /\ session' = [session EXCEPT ![s].open = FALSE]
    /\ UNCHANGED <<now, claim, taken>>

\* Mutant: a lapsed record that is reused keeps the time it was first acquired.
AcquiredAtKept(c) == IF c # None THEN c.acquired ELSE now

\* Mutant: the time is filled in only from a record that is live.
AcquiredAtUnset(c) == IF IsLive(c) THEN c.acquired ELSE -1

\* A live record keeps the time it was acquired; a lapsed one starts anew.
AcquiredAt(c) == IF IsLive(c) THEN c.acquired ELSE now

\* acquire: all the resources of a batch, or none.
Acquire(s, g, wanted, mode, lease) ==
    /\ Owns(s, g)
    /\ \A t \in SessionIds \ {s}, r \in Claimable, w \in wanted :
          ~Blocks(claim[t][r], r, w, mode)
    /\ claim' = [claim EXCEPT ![s] = [r \in Claimable |->
          IF r \in wanted
          THEN [mode |-> mode, acquired |-> AcquiredAt(claim[s][r]), expires |-> now + lease]
          ELSE claim[s][r]]]
    /\ taken' = [taken EXCEPT ![s] = [r \in Claimable |->
          IF r \in wanted /\ mode = "exclusive" THEN now ELSE taken[s][r]]]
    /\ UNCHANGED <<now, session>>

\* Mutant: a lapsed claim is renewed.
RenewLapsed(s, g, r, lease) ==
    /\ Owns(s, g)
    /\ claim[s][r] # None
    /\ claim' = [claim EXCEPT ![s][r].expires = now + lease]
    /\ UNCHANGED <<now, session, taken>>

\* renewClaim: only a live claim, since a lapsed one no longer holds its resource.
Renew(s, g, r, lease) ==
    /\ Owns(s, g)
    /\ IsLive(claim[s][r])
    /\ claim' = [claim EXCEPT ![s][r].expires = now + lease]
    /\ UNCHANGED <<now, session, taken>>

\* removeClaims by their owner: the resources, the ids, or all of them.
Release(s, g, released) ==
    /\ Owns(s, g)
    /\ \A r \in released : claim[s][r] # None
    /\ claim' = [claim EXCEPT ![s] = [r \in Claimable |->
                    IF r \in released THEN None ELSE claim[s][r]]]
    /\ UNCHANGED <<now, session, taken>>

\* removeClaims of somebody else's claim, by human or policy authority.
ForceRelease(s, g, t, r) ==
    /\ Owns(s, g)
    /\ claim[t][r] # None
    /\ claim' = [claim EXCEPT ![t][r] = None]
    /\ UNCHANGED <<now, session, taken>>

\* finishSession: the hand-off, the release of every claim and the close are one
\* transaction.
Finish(s, g) ==
    /\ Owns(s, g)
    /\ claim' = [claim EXCEPT ![s] = [r \in Claimable |-> None]]
    /\ session' = [session EXCEPT ![s].open = FALSE]
    /\ UNCHANGED <<now, taken>>

\* prune, class claims: decided again under the writer mutex.
Prune(s, r) ==
    /\ claim[s][r] # None
    /\ ~IsLive(claim[s][r])
    /\ claim' = [claim EXCEPT ![s][r] = None]
    /\ UNCHANGED <<now, session, taken>>

Next ==
    \/ Tick
    \/ \E s \in SessionIds :
          \/ Open(s)
          \/ Close(s)
          \/ \E r \in Claimable : Prune(s, r)
          \/ \E g \in 1 .. MaxGen :
                \/ Finish(s, g)
                \/ \E wanted \in SUBSET Claimable \ {{}}, mode \in Modes, lease \in Leases :
                      Acquire(s, g, wanted, mode, lease)
                \/ \E r \in Claimable, lease \in Leases : Renew(s, g, r, lease)
                \/ \E released \in SUBSET Claimable \ {{}} : Release(s, g, released)
                \/ \E t \in SessionIds \ {s}, r \in Claimable : ForceRelease(s, g, t, r)

Spec == Init /\ [][Next]_vars

-----------------------------------------------------------------------------
\* Every claim is a record of the protocol's shape.
TypeOK ==
    /\ now \in Nat
    /\ session \in [SessionIds -> [gen : Nat, open : BOOLEAN]]
    /\ claim \in [SessionIds -> [Claimable -> ClaimRecord \cup {None}]]
    /\ taken \in [SessionIds -> [Claimable -> Nat \cup {-1}]]

\* Conflict detection: two sessions never hold live claims on overlapping resources
\* unless both are shared, whatever lapsed, was renewed, re-acquired or passed to
\* another generation before.
NoConflictingClaims ==
    \A s, t \in SessionIds, r, q \in Claimable :
        s # t /\ IsLive(claim[s][r]) /\ IsLive(claim[t][q]) /\ Overlaps(r, q) =>
            claim[s][r].mode = "shared" /\ claim[t][q].mode = "shared"

\* acquiredAt begins one uninterrupted holding: since then no other session has
\* acquired an overlapping resource exclusively.
HoldingUninterrupted ==
    \A s, t \in SessionIds, r, q \in Claimable :
        s # t /\ IsLive(claim[s][r]) /\ Overlaps(r, q) =>
            taken[t][q] <= claim[s][r].acquired
=============================================================================
