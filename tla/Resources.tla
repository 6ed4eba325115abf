----------------------------- MODULE Resources -----------------------------
(***************************************************************************)
(* The names of claimable resources: which are accepted, how they are      *)
(* normalised, and when two of them overlap (packages/protocol/src/        *)
(* resources.mjs; overlaps in packages/core/src/claims.mjs).               *)
(*                                                                         *)
(* A resource is a scheme and the string after its colon.  The string is   *)
(* the sequence of segments that splitting it at "/" gives, so the empty   *)
(* string is <<"">>, "/a" is <<"", "a">> and "a/**" is <<"a", "**">>.  A   *)
(* segment other than "", ".", ".." and "**" holds no "*"; segments with a *)
(* "*" elsewhere and backslashes are left out.                             *)
(***************************************************************************)
EXTENDS Integers, Sequences

CONSTANT Names   \* the ordinary segments

ASSUME NamesAssumption == Names \cap {"", ".", "..", "**"} = {}

Glob == "**"

Segments == Names \cup {"", ".", "..", Glob}

\* endsWith("/**"): the marker is the last of at least two segments.
IsGlob(rest) == Len(rest) >= 2 /\ rest[Len(rest)] = Glob

\* slice(0, -GLOB.length)
Body(rest) == IF IsGlob(rest) THEN SubSeq(rest, 1, Len(rest) - 1) ELSE rest

-----------------------------------------------------------------------------
(* assertMatchableResource and normaliseResource, for the scheme "file".   *)

\* A trailing slash names a directory and is refused (except "/" itself), and so
\* is every "*" but the trailing marker.
Matchable(rest) ==
    /\ ~(Len(rest) >= 2 /\ rest[Len(rest)] = "" /\ rest # <<"", "">>)
    /\ \A n \in 1 .. Len(Body(rest)) : Body(rest)[n] # Glob

\* Mutant: a ".." that climbs past the start is swallowed.
NormalStepSwallows(stack, segment) ==
    IF segment \in {"", "."} THEN stack
    ELSE IF segment = ".."
    THEN IF stack = <<>> THEN stack ELSE SubSeq(stack, 1, Len(stack) - 1)
    ELSE Append(stack, segment)

\* One iteration of normalisePath: a ".." that climbs past the start is kept.
NormalStep(stack, segment) ==
    IF segment \in {"", "."} THEN stack
    ELSE IF segment = ".." /\ stack # <<>> /\ stack[Len(stack)] # ".."
    THEN SubSeq(stack, 1, Len(stack) - 1)
    ELSE Append(stack, segment)

\* normalisePath: the loop over the segments of the body.
NormalPath(body) ==
    LET stack[n \in 0 .. Len(body)] ==
            IF n = 0 THEN <<>> ELSE NormalStep(stack[n - 1], body[n])
    IN stack[Len(body)]

\* join("/"): no segments make the empty string.
Join(path) == IF path = <<>> THEN <<"">> ELSE path

\* normaliseResource: an absolute path keeps its slash and a glob its marker.
Normalise(rest) ==
    LET body == Body(rest)
        absolute == Len(body) >= 2 /\ body[1] = ""
        path == NormalPath(body)
        spelled == (IF absolute THEN <<"">> ELSE <<>>) \o Join(path)
    IN IF path = <<>> /\ ~IsGlob(rest) THEN rest
       ELSE IF IsGlob(rest) THEN Append(spelled, Glob) ELSE spelled

-----------------------------------------------------------------------------
(* overlaps.                                                               *)

\* startsWith, segment by segment.
Within(path, prefix) ==
    Len(prefix) <= Len(path) /\ \A n \in 1 .. Len(prefix) : path[n] = prefix[n]

\* Mutant: a glob covers what is below its directory, not the directory itself.
CoversBelowOnly(glob, plain) ==
    IsGlob(glob) /\ plain # Body(glob) /\ Within(plain, Body(glob))

\* The glob's directory itself, or anything below it.
Covers(glob, plain) == IsGlob(glob) /\ Within(plain, Body(glob))

\* Mutant: one direction of the comparison is missing.
OverlapsOneWay(left, right) ==
    left = right \/ (left.scheme = right.scheme /\ Covers(left.rest, right.rest))

Overlaps(left, right) ==
    \/ left = right
    \/ /\ left.scheme = right.scheme
       /\ Covers(left.rest, right.rest) \/ Covers(right.rest, left.rest)
=============================================================================
