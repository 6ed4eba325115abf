--------------------------- MODULE ResourceNames ---------------------------
(***************************************************************************)
(* The pure functions of Resources, checked on every string of up to       *)
(* MaxSegments segments.  A state is what has been typed after "file:";    *)
(* each step types one more segment.                                       *)
(***************************************************************************)
EXTENDS Resources

CONSTANT MaxSegments   \* bound: how many segments are typed

VARIABLE rest   \* the string after the colon

Init == rest \in [1 .. 1 -> Segments]

TypeSegment ==
    /\ Len(rest) < MaxSegments
    /\ \E segment \in Segments : rest' = Append(rest, segment)

Spec == Init /\ [][TypeSegment]_rest

-----------------------------------------------------------------------------
(* What the names mean, independently of the code.                         *)

\* The directory reached from `base` by walking the first n segments.
Walk(base, body, n) ==
    LET absolute == Len(body) >= 2 /\ body[1] = ""
        at[k \in 0 .. n] ==
            IF k = 0 THEN IF absolute THEN <<>> ELSE base
            ELSE IF body[k] \in {"", "."} THEN at[k - 1]
            ELSE IF body[k] = ".."
                 THEN IF at[k - 1] = <<>> THEN <<>>
                      ELSE SubSeq(at[k - 1], 1, Len(at[k - 1]) - 1)
                 ELSE Append(at[k - 1], body[k])
    IN at[n]

Resolve(base, string) == Walk(base, Body(string), Len(Body(string)))

\* The paths of up to two names that a guarded write can ask about (resourceFor).
Targets == [1 .. 1 -> Names] \cup [1 .. 2 -> Names]

\* Does the claim name a directory of the workspace, or the workspace itself?
NamesInside(string) ==
    LET path == NormalPath(Body(string)) IN
    /\ ~(Len(Body(string)) >= 2 /\ Body(string)[1] = "")
    /\ \A n \in 1 .. Len(path) : path[n] # ".."

\* The strings of up to two segments, to compare a state with.
Short == [1 .. 1 -> Segments] \cup [1 .. 2 -> Segments]

\* What a resource stands for: a path, or the paths at and below a directory.
Denotes(string, path) == IF IsGlob(string) THEN Within(path, Body(string)) ELSE path = string

-----------------------------------------------------------------------------
\* normaliseResource gives one name to one file: the normal form leads where the
\* typed name leads, from any working directory deep enough for its "..", and a
\* glob stays a glob.
NormaliseKeepsMeaning ==
    LET base == [n \in 1 .. MaxSegments |-> "base"] IN
    Matchable(rest) =>
        /\ Resolve(base, Normalise(rest)) = Resolve(base, rest)
        /\ IsGlob(Normalise(rest)) = IsGlob(rest)

\* A glob on a directory below the workspace root covers, in its normal form, the
\* targets in that directory and no others (covers, overlaps).
ClaimCoversDirectory ==
    Matchable(rest) /\ IsGlob(rest) /\ NamesInside(rest) /\ NormalPath(Body(rest)) # <<>> =>
        \A target \in Targets :
            Covers(Normalise(rest), target) <=> Within(target, Resolve(<<>>, rest))

\* overlaps decides intersection: two resources overlap exactly when some path is
\* denoted by both.  Of two that meet, one denotes the other's own string.
OverlapIsIntersection ==
    \A other \in Short, scheme \in {"file", "task"} :
        Overlaps([scheme |-> "file", rest |-> rest], [scheme |-> scheme, rest |-> other]) <=>
            /\ scheme = "file"
            /\ \E path \in {rest, other} : Denotes(rest, path) /\ Denotes(other, path)

\* Names mean paths: normalisation, coverage and overlap agree with what the
\* names denote.
NamesMeanPaths == NormaliseKeepsMeaning /\ ClaimCoversDirectory /\ OverlapIsIntersection
=============================================================================
