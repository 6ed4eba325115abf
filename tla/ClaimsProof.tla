---------------------------- MODULE ClaimsProof ----------------------------
(***************************************************************************)
(* Proofs about Claims, for any set of sessions, resources and leases and  *)
(* any bounds: the claims are typed, two sessions never hold conflicting   *)
(* live claims, and a holding is uninterrupted.  The argument rests on the *)
(* clock never going backwards: a claim that is live after a step that     *)
(* leaves it alone was live before it.                                     *)
(***************************************************************************)
EXTENDS Claims, TLAPS

\* No exclusive acquisition lies in the future.
TakenBefore == \A t \in SessionIds, q \in Claimable : taken[t][q] <= now

\* The inductive invariant.
Inv == TypeOK /\ TakenBefore /\ NoConflictingClaims /\ HoldingUninterrupted

\* overlaps compares both ways, so the order of its arguments does not matter.
LEMMA OverlapsSymmetric ==
    ASSUME NEW r, NEW q, Overlaps(r, q)
    PROVE  Overlaps(q, r)
BY DEF Overlaps

\* The type invariant is inductive.
LEMMA TypeStep == TypeOK /\ [Next]_vars => TypeOK'
<1> SUFFICES ASSUME TypeOK, [Next]_vars PROVE TypeOK'
    OBVIOUS
<1> USE LeasesAssumption, NoneAssumption, ClaimBoundsAssumption DEF TypeOK, ClaimRecord, Modes
<1>1. CASE Tick
    BY <1>1 DEF Tick
<1>2. ASSUME NEW s \in SessionIds, Open(s) \/ Close(s) PROVE TypeOK'
    <2>1. session[s] \in [gen : Nat, open : BOOLEAN]
        OBVIOUS
    <2>2. [gen |-> session[s].gen + 1, open |-> TRUE] \in [gen : Nat, open : BOOLEAN]
        BY <2>1
    <2>3. [session[s] EXCEPT !.open = FALSE] \in [gen : Nat, open : BOOLEAN]
        BY <2>1
    <2>4. \/ session' = [session EXCEPT ![s] = [gen |-> session[s].gen + 1, open |-> TRUE]]
          \/ session' = [session EXCEPT ![s] = [session[s] EXCEPT !.open = FALSE]]
        BY <1>2 DEF Open, Close
    <2>5. session' \in [SessionIds -> [gen : Nat, open : BOOLEAN]]
        BY <2>2, <2>3, <2>4
    <2> QED
        BY <1>2, <2>5 DEF Open, Close
<1>3. ASSUME NEW s \in SessionIds, NEW r \in Claimable, Prune(s, r) PROVE TypeOK'
    BY <1>3 DEF Prune
<1>4. ASSUME NEW s \in SessionIds, NEW g, Finish(s, g) PROVE TypeOK'
    BY <1>4 DEF Finish
<1>5. ASSUME NEW s \in SessionIds, NEW g, NEW wanted, NEW mode \in Modes,
             NEW lease \in Leases, Acquire(s, g, wanted, mode, lease)
      PROVE  TypeOK'
    <2>1. \A r \in Claimable : AcquiredAt(claim[s][r]) \in Nat
        BY DEF AcquiredAt, IsLive
    <2>2. now + lease \in Nat
        OBVIOUS
    <2> QED
        BY <1>5, <2>1, <2>2 DEF Acquire
<1>6. ASSUME NEW s \in SessionIds, NEW g, NEW r \in Claimable, NEW lease \in Leases,
             Renew(s, g, r, lease)
      PROVE  TypeOK'
    <2>1. now + lease \in Nat /\ claim[s][r] \in ClaimRecord
        BY <1>6 DEF Renew, IsLive
    <2> QED
        BY <1>6, <2>1 DEF Renew
<1>7. ASSUME NEW s \in SessionIds, NEW g, NEW released, Release(s, g, released)
      PROVE  TypeOK'
    BY <1>7 DEF Release
<1>8. ASSUME NEW s \in SessionIds, NEW g, NEW t \in SessionIds, NEW r \in Claimable,
             ForceRelease(s, g, t, r)
      PROVE  TypeOK'
    BY <1>8 DEF ForceRelease
<1>9. CASE UNCHANGED vars
    BY <1>9 DEF vars
<1> HIDE DEF TypeOK, ClaimRecord, Modes
<1> QED
    BY <1>1, <1>2, <1>3, <1>4, <1>5, <1>6, <1>7, <1>8, <1>9 DEF Next

\* A step grants nothing when every claim that is live after it was live before it
\* with the same mode and time of acquisition, and nothing new was taken.
GrantsNothing ==
    /\ \A s \in SessionIds, r \in Claimable :
          IsLive(claim[s][r])' => /\ IsLive(claim[s][r])
                                  /\ claim'[s][r].mode = claim[s][r].mode
                                  /\ claim'[s][r].acquired = claim[s][r].acquired
    /\ taken' = taken
    /\ now <= now'

LEMMA GrantsNothingStep ==
    ASSUME TypeOK, TypeOK', TakenBefore, NoConflictingClaims, HoldingUninterrupted,
           GrantsNothing
    PROVE  TakenBefore' /\ NoConflictingClaims' /\ HoldingUninterrupted'
<1>1. TakenBefore'
    BY DEF TakenBefore, GrantsNothing, TypeOK
<1>2. NoConflictingClaims'
    BY DEF NoConflictingClaims, GrantsNothing
<1>3. HoldingUninterrupted'
    BY DEF HoldingUninterrupted, GrantsNothing
<1> QED
    BY <1>1, <1>2, <1>3

\* Every action but Acquire grants nothing; Acquire grants only what no live claim
\* of another session blocks.
LEMMA InvStep == Inv /\ [Next]_vars => Inv'
<1> SUFFICES ASSUME Inv, [Next]_vars PROVE Inv'
    OBVIOUS
<1> USE DEF Inv
<1>0. TypeOK'
    BY TypeStep
<1>a. ASSUME GrantsNothing PROVE Inv'
    BY <1>a, <1>0, GrantsNothingStep
<1> USE DEF TypeOK, ClaimRecord, IsLive, GrantsNothing
<1>1. CASE Tick
    <2>1. GrantsNothing
        BY <1>1, NoneAssumption DEF Tick
    <2> QED
        BY <2>1, <1>a
<1>2. CASE \E s \in SessionIds : Open(s) \/ Close(s)
    <2>1. GrantsNothing
        BY <1>2 DEF Open, Close
    <2> QED
        BY <2>1, <1>a
<1>3. ASSUME NEW s \in SessionIds, NEW r \in Claimable, Prune(s, r) PROVE Inv'
    <2>1. GrantsNothing
        BY <1>3 DEF Prune
    <2> QED
        BY <2>1, <1>a
<1>4. ASSUME NEW s \in SessionIds, NEW g, Finish(s, g) PROVE Inv'
    <2>1. GrantsNothing
        BY <1>4 DEF Finish
    <2> QED
        BY <2>1, <1>a
<1>5. ASSUME NEW s \in SessionIds, NEW g, NEW wanted, NEW mode \in Modes,
             NEW lease \in Leases, Acquire(s, g, wanted, mode, lease)
      PROVE  Inv'
    <2>1. /\ now' = now
          /\ \A t \in SessionIds \ {s} : claim'[t] = claim[t] /\ taken'[t] = taken[t]
          /\ \A r \in Claimable : r \notin wanted =>
                claim'[s][r] = claim[s][r] /\ taken'[s][r] = taken[s][r]
          /\ \A r \in Claimable : r \in wanted =>
                /\ claim'[s][r].mode = mode
                /\ claim'[s][r].acquired = AcquiredAt(claim[s][r])
                /\ taken'[s][r] = IF mode = "exclusive" THEN now ELSE taken[s][r]
        BY <1>5 DEF Acquire
    <2>2. \A t \in SessionIds \ {s}, r \in Claimable, w \in wanted :
             IsLive(claim[t][r]) /\ Overlaps(r, w) =>
                claim[t][r].mode # "exclusive" /\ mode # "exclusive"
        BY <1>5 DEF Acquire, Blocks
    <2>3. TakenBefore'
        <3> SUFFICES ASSUME NEW t \in SessionIds, NEW q \in Claimable
                     PROVE  taken'[t][q] <= now'
            BY DEF TakenBefore
        <3>1. taken'[t][q] = taken[t][q] \/ taken'[t][q] = now
            BY <2>1
        <3> QED
            BY <3>1, <2>1 DEF TakenBefore
    <2>4. NoConflictingClaims'
        <3> SUFFICES ASSUME NEW x \in SessionIds, NEW y \in SessionIds,
                            NEW r \in Claimable, NEW q \in Claimable,
                            x # y, IsLive(claim[x][r])', IsLive(claim[y][q])', Overlaps(r, q)
                     PROVE  claim'[x][r].mode = "shared" /\ claim'[y][q].mode = "shared"
            BY DEF NoConflictingClaims
        <3>0. Overlaps(q, r)
            BY OverlapsSymmetric
        <3>1. CASE x = s /\ r \in wanted
            BY <3>1, <3>0, <2>1, <2>2 DEF Modes
        <3>2. CASE y = s /\ q \in wanted
            BY <3>2, <2>1, <2>2 DEF Modes
        <3>3. CASE ~(x = s /\ r \in wanted) /\ ~(y = s /\ q \in wanted)
            <4>1. claim'[x][r] = claim[x][r] /\ claim'[y][q] = claim[y][q]
                BY <3>3, <2>1
            <4> QED
                BY <4>1, <2>1 DEF NoConflictingClaims
        <3> QED
            BY <3>1, <3>2, <3>3
    <2>5. HoldingUninterrupted'
        <3> SUFFICES ASSUME NEW x \in SessionIds, NEW y \in SessionIds,
                            NEW r \in Claimable, NEW q \in Claimable,
                            x # y, IsLive(claim[x][r])', Overlaps(r, q)
                     PROVE  taken'[y][q] <= claim'[x][r].acquired
            BY DEF HoldingUninterrupted
        <3>1. CASE x = s /\ r \in wanted
            <4>1. taken'[y][q] = taken[y][q] /\ taken[y][q] <= now
                BY <3>1, <2>1 DEF TakenBefore
            <4>2. CASE IsLive(claim[s][r])
                BY <3>1, <4>1, <4>2, <2>1 DEF AcquiredAt, HoldingUninterrupted
            <4>3. CASE ~IsLive(claim[s][r])
                BY <3>1, <4>1, <4>3, <2>1 DEF AcquiredAt
            <4> QED
                BY <4>2, <4>3
        <3>2. CASE y = s /\ q \in wanted
            <4>1. claim'[x][r] = claim[x][r] /\ IsLive(claim[x][r])
                BY <3>2, <2>1
            <4>2. mode # "exclusive"
                BY <4>1, <3>2, <2>2
            <4> QED
                BY <4>1, <4>2, <3>2, <2>1 DEF HoldingUninterrupted
        <3>3. CASE ~(x = s /\ r \in wanted) /\ ~(y = s /\ q \in wanted)
            <4>1. claim'[x][r] = claim[x][r] /\ taken'[y][q] = taken[y][q]
                BY <3>3, <2>1
            <4> QED
                BY <4>1, <2>1 DEF HoldingUninterrupted
        <3> QED
            BY <3>1, <3>2, <3>3
    <2> QED
        BY <1>0, <2>3, <2>4, <2>5
<1>6. ASSUME NEW s \in SessionIds, NEW g, NEW r \in Claimable, NEW lease \in Leases,
             Renew(s, g, r, lease)
      PROVE  Inv'
    <2>1. GrantsNothing
        BY <1>6 DEF Renew
    <2> QED
        BY <2>1, <1>a
<1>7. ASSUME NEW s \in SessionIds, NEW g, NEW released, Release(s, g, released)
      PROVE  Inv'
    <2>1. GrantsNothing
        BY <1>7 DEF Release
    <2> QED
        BY <2>1, <1>a
<1>8. ASSUME NEW s \in SessionIds, NEW g, NEW t \in SessionIds, NEW r \in Claimable,
             ForceRelease(s, g, t, r)
      PROVE  Inv'
    <2>1. GrantsNothing
        BY <1>8 DEF ForceRelease
    <2> QED
        BY <2>1, <1>a
<1>9. CASE UNCHANGED vars
    <2>1. GrantsNothing
        BY <1>9 DEF vars
    <2> QED
        BY <2>1, <1>a
<1> QED
    BY <1>1, <1>2, <1>3, <1>4, <1>5, <1>6, <1>7, <1>8, <1>9 DEF Next

\* The inductive invariant holds in every reachable state.
THEOREM Invariant == Spec => []Inv
<1>1. Init => Inv
    BY NoneAssumption DEF Init, Inv, TypeOK, TakenBefore, NoConflictingClaims,
       HoldingUninterrupted, IsLive
<1> QED
    BY <1>1, InvStep, PTL DEF Spec

\* Every claim keeps the shape of the protocol's record, for every instance.
THEOREM TypeCorrect == Spec => []TypeOK
BY Invariant, PTL DEF Inv

\* Two sessions never hold conflicting live claims (acquire, renewClaim), for every
\* set of sessions, resources and leases.
THEOREM NoConflict == Spec => []NoConflictingClaims
BY Invariant, PTL DEF Inv

\* acquiredAt begins an uninterrupted holding, for every instance.
THEOREM Uninterrupted == Spec => []HoldingUninterrupted
BY Invariant, PTL DEF Inv
=============================================================================
