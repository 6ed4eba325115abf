------------------------------ MODULE MCClaims ------------------------------
(***************************************************************************)
(* A small instance of Claims (a directory glob and a file inside it) and  *)
(* of ResourceNames (strings of up to four segments over the same names).  *)
(* A behaviour is one of the two.  One session, whichever it is, does not  *)
(* reach its last generation: a bound on the openings of both together.    *)
(***************************************************************************)
EXTENDS Claims, TLC

CONSTANT MaxSegments

ASSUME MaxSegmentsAssumption == MaxSegments \in Nat \ {0}

MCNames == {"ab", "c"}

MCClaimable ==
    {[scheme |-> "file", rest |-> <<"ab", "**">>],
     [scheme |-> "file", rest |-> <<"ab", "c">>]}

Symmetries == Permutations(SessionIds)

VARIABLES part, rest

N == INSTANCE ResourceNames

claimVars == <<now, session, claim, taken>>

MCInit == /\ part \in {"claims", "names"} /\ Init
          /\ IF part = "names" THEN N!Init ELSE rest = <<>>

MCNext == \/ /\ part = "claims" /\ Next /\ UNCHANGED <<part, rest>>
             /\ \E s \in SessionIds : session'[s].gen < MaxGen
          \/ part = "names" /\ N!TypeSegment /\ UNCHANGED <<part, claimVars>>

MCSpec == MCInit /\ [][MCNext]_<<part, claimVars, rest>>

\* Stated and explained in ResourceNames.
NamesMeanPaths == part = "names" => N!NamesMeanPaths
=============================================================================
