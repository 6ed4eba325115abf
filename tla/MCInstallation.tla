---------------------------- MODULE MCInstallation ----------------------------
(* What an integration is made of.  Two sides of acc install and acc          *)
(* uninstall meet only in the record they share: what one adapter writes and  *)
(* takes back, and what is decided about live delivery.  The third is what an *)
(* installed integration is there for at every tool call: the write guard.    *)
(* A behaviour follows one of the three.                                      *)
(*                                                                            *)
(* The guard's file system: the worktree /ws with a directory ab and a file   *)
(* ab/c, /at a link to it, and links ln to ab and ab/ln to /out.              *)
EXTENDS ClientWiring, DeliveryConsent, TLC

CONSTANTS MaxSimple, MaxOps, None

VARIABLES part, call, cwd, beat, answer

Relative(segments) == [absolute |-> FALSE, segments |-> segments]
Absolute(segments) == [absolute |-> TRUE, segments |-> segments]

MCSpelled ==
    "c" :> Relative(<<"c">>) @@ "ln/c" :> Relative(<<"ln", "c">>) @@
    "../c" :> Relative(<<"..", "c">>) @@ "/at/c" :> Absolute(<<"at", "c">>) @@
    "/ws/ab/new/c" :> Absolute(<<"ws", "ab", "new", "c">>)

MCRoot    == <<"ws">>
MCCwds    == {<<"ws">>, <<"at", "ab">>}
MCPresent == {<<>>, <<"ws">>, <<"ws", "ab">>, <<"ws", "ab", "c">>, <<"at">>, <<"out">>}
MCLinks   == <<"at">> :> <<"ws">> @@ <<"ws", "ln">> :> <<"ws", "ab">> @@ <<"ws", "ab", "ln">> :> <<"out">>

MCShellFiles == {"c", "ln/c"}
MCCommands   == {"truncate", "cp", "sed", "git", "dd", "cat"}
MCMaxWords   == [typist \in {"claude_code", "codex", "kimi", "grok", "gemini_cli"} |->
                    IF typist = "claude_code" THEN 4 ELSE 2]

Held(names, hold) == [rest |-> names, hold |-> hold]

\* What the hook may read: others' claims beside its own, a lapsed and an advisory
\* one; a link it may not resolve; no binding.
MCReadings ==
    {[claims |-> {Held(<<"ab", "**">>, "other"), Held(<<"c">>, "own")}, bound |-> TRUE, refused |-> FALSE],
     [claims |-> {Held(<<"c">>, "other"), Held(<<"ab", "**">>, "lapsed")}, bound |-> TRUE, refused |-> FALSE],
     [claims |-> {Held(<<"ab", "c">>, "other"), Held(<<"c">>, "advisory")}, bound |-> TRUE, refused |-> FALSE],
     [claims |-> {Held(<<"c">>, "other")}, bound |-> TRUE, refused |-> TRUE],
     [claims |-> {Held(<<"c">>, "other")}, bound |-> FALSE, refused |-> FALSE]}

G == INSTANCE WriteGuard WITH
         Names <- {"ab", "c"},
         Spelled <- MCSpelled, Root <- MCRoot, Cwds <- MCCwds, Present <- MCPresent,
         Links <- MCLinks, ShellFiles <- MCShellFiles, Readings <- MCReadings,
         Commands <- MCCommands, MaxWords <- MCMaxWords

gvars == <<call, cwd, beat, answer>>
vars == <<part, wvars, dvars, gvars>>

\* The sides a behaviour does not follow stand still in one initial state.
NoCall == call = None /\ cwd = None /\ beat = None /\ answer = None

Init ==
  \/ part = "wiring" /\ WInit /\ NoDelivery /\ NoCall
  \/ part = "consent" /\ ConsentInit /\ Unused /\ NoCall
  \/ part = "guard" /\ G!Init /\ Unused /\ NoDelivery

Next == \/ part = "wiring" /\ WNext /\ UNCHANGED <<part, dvars, gvars>>
        \/ part = "consent" /\ ConsentNext /\ UNCHANGED <<part, wvars, gvars>>
        \/ part = "guard" /\ G!Next /\ UNCHANGED <<part, wvars, dvars>>

Spec == Init /\ [][Next]_vars

\* Stated and explained in WriteGuard.
GuardHonoursClaims == part = "guard" => G!GuardHonoursClaims
===============================================================================
