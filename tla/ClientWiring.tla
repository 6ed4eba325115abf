----------------------------- MODULE ClientWiring -----------------------------
(***************************************************************************)
(* acc install and acc uninstall of one client: what the installer and the *)
(* client's adapter write, in the order they write it, and what they take  *)
(* back.  A command may stop between any two writes (a kill, an I/O error, *)
(* a client that refuses); the user edits the same files between commands. *)
(*                                                                         *)
(* A place on disk holds a set of pieces.  A tree ACC creates holds "v1" or *)
(* "v2" (the files of that ACC version), "user" (a file the user put in it) *)
(* and "edit" (a changed ACC file); half a copy is a "part".  A file of the *)
(* client's holds "file" (it exists), "acc" (ACC's entries), "bare" (ACC's  *)
(* entries without their markers), "rule" (the allow rule for ACC's         *)
(* wrapper), "user" (entries of the user's), "made" (the note that ACC      *)
(* created the file) and "bad" (it does not parse).  Of Kimi's config.toml   *)
(* also: "after" (entries of the user's behind ACC's block) and "open" (the  *)
(* block has lost the line that ends it).                                   *)
(*                                                                         *)
(* Antigravity's own status line, which its adapter sets and takes back by   *)
(* the same notes as Grok's and Kimi's, is left out.                         *)
(***************************************************************************)
EXTENDS Naturals, Sequences

CONSTANTS Adapters,     \* the adapters, by their id
          MaxCommands,  \* bound: install and uninstall commands of a run
          MaxStops,     \* bound: commands cut short
          MaxEdits      \* bound: edits the user makes

\* The adapters the installer knows.
ASSUME AdaptersAssumption ==
  Adapters \subseteq {"antigravity", "claude", "codex", "gemini", "grok", "kimi"}

VARIABLES
  client,   \* the adapter this behaviour is about
  content,  \* place -> set of pieces
  dir,      \* the directory that holds the trees: "none", "empty" or "user"
  marks,    \* what ACC's data home notes: files it created, rules it added
  status,   \* the client's status line command: "none", "user" or "acc"
  saved,    \* the status line ACC replaced, "absent" when it notes none
  record,   \* the client's entry of installs.json, or NoRecord
  job,      \* the running command
  cut,      \* ghost: an install stopped after a write and before its record
  mine,     \* ghost: files where the user wrote the allow rule themselves
  last,     \* ghost: the status line the user last chose
  commands, stops, edits

wvars == <<client, content, dir, marks, status, saved, record, job, cut, mine,
          last, commands, stops, edits>>

NoRecord == [ver |-> 0]
Idle == [act |-> "idle"]
Acc == {"v1", "v2", "part", "acc", "bare"}
Bundle(v) == IF v = 1 THEN "v1" ELSE "v2"

-------------------------------------------------------------------------------
(* What each adapter says it would write: trees with a fingerprint, and      *)
(* files of the client's that are only edited.                               *)

\* planAntigravityInstall, planClaudeInstall, planCodexInstall: the trees, in the
\* order in which they are recorded and removed.
Artifacts(c) ==
  CASE c = "antigravity" -> <<"shim">>
    [] c = "claude"      -> <<"market", "cache">>
    [] c = "codex"       -> <<"plugin", "cache", "rules">>
    [] c = "gemini"      -> <<"plugin">>
    [] c = "grok"        -> <<"hooks", "shim", "skill">>
    [] c = "kimi"        -> <<"plugin">>

Trees(c) == {Artifacts(c)[i] : i \in DOMAIN Artifacts(c)}

Merged(c) ==
  CASE c = "antigravity" -> {"hooks", "manifest", "settings", "desktop"}
    [] c = "claude"      -> {"known", "installed", "settings"}
    [] c = "codex"       -> {"manifest", "config"}
    [] c = "gemini"      -> {"settings"}
    [] c = "grok"        -> {}
    [] c = "kimi"        -> {"config", "registry"}

WiredPlaces == UNION {Trees(c) \cup Merged(c) : c \in Adapters}

\* The trees whose install replaces its own files and leaves the rest.
Shared(c) == CASE c = "antigravity" -> {"shim"}
               [] c = "claude"      -> {"market", "cache"}
               [] c = "codex"       -> {"cache"}
               [] OTHER             -> {}

\* The files an install parses before it writes anything.
ReadFirst(c) == CASE c = "antigravity" -> {"hooks"}
                  [] c = "claude" -> {"settings", "known", "installed"}
                  [] c = "codex"  -> {"manifest", "config"}
                  [] c = "gemini" -> {"settings"}
                  [] c = "kimi"   -> {"registry"}
                  [] OTHER        -> {}

\* preflightCodexUninstall, preflightAntigravityUninstall: what can veto a
\* removal before anything is removed.
Preflight(c) == CASE c = "codex"       -> {"manifest", "config"}
                  [] c = "antigravity" -> {"hooks"}
                  [] OTHER             -> {}

HasIndicator(c) == c \in {"grok", "kimi"}
-------------------------------------------------------------------------------
(* The writes of each adapter's install, in order.                           *)

Tree(p) == <<<<"clear", p>>, <<"fill", p>>>>

AntigravityInstall ==
  <<<<"fill", "shim">>, <<"enter", "hooks">>, <<"mark", "hooks">>>>
SkillPlugin == <<<<"enter", "manifest">>, <<"mark", "manifest">>>>
\* Mutant: the rule is written before the claim on it.
AllowRuleFirst == <<<<"rule", "settings">>, <<"claim", "settings">>>>

\* addRule, ensureRule: the claim on the rule precedes it.
AllowRule == <<<<"claim", "settings">>, <<"rule", "settings">>>>
DesktopRule == <<<<"claim", "desktop">>, <<"rule", "desktop">>>>
ClaudeInstall == Tree("market") \o Tree("cache")
                 \o <<<<"enter", "known">>, <<"enter", "installed">>,
                      <<"enter", "settings">>>>
CodexInstall == Tree("plugin") \o <<<<"fill", "rules">>, <<"enter", "manifest">>,
                                    <<"enter", "config">>>> \o Tree("cache")
GeminiInstall == Tree("plugin") \o <<<<"enter", "settings">>>>
GrokInstall == <<<<"fill", "shim">>>> \o Tree("skill") \o <<<<"fill", "hooks">>>>
KimiInstall == Tree("plugin") \o <<<<"enter", "config">>, <<"enter", "registry">>>>

\* configureTomlIndicator: on, the note of what was there precedes the write;
\* off, the note goes last.
Indicator(c, on) ==
  IF ~HasIndicator(c) THEN <<>>
  ELSE IF on THEN <<<<"save", "status">>, <<"set", "status">>>>
             ELSE <<<<"restore", "status">>, <<"forget", "status">>>>

InstallSteps(c, on) ==
  CASE c = "antigravity" -> AntigravityInstall \o SkillPlugin \o AllowRule
                            \o DesktopRule
    [] c = "claude"      -> ClaudeInstall
    [] c = "codex"       -> CodexInstall
    [] c = "gemini"      -> GeminiInstall
    [] c = "grok"        -> Indicator(c, on) \o GrokInstall
    [] c = "kimi"        -> Indicator(c, on) \o KimiInstall
-------------------------------------------------------------------------------
(* The removals of each adapter's uninstall, in order.                       *)

Taken(p) == <<<<"leave", p>>, <<"reap", p>>>>

AntigravityUninstall ==
  Taken("hooks") \o Taken("manifest")
  \o <<<<"withdraw", "settings">>, <<"unclaim", "settings">>,
       <<"withdraw", "desktop">>, <<"unclaim", "desktop">>, <<"drop", "shim">>>>
ClaudeUninstall ==
  <<<<"leave", "settings">>, <<"empty", "known">>, <<"empty", "installed">>,
    <<"reap", "settings">>, <<"drop", "cache">>, <<"drop", "market">>>>
CodexUninstall ==
  <<<<"leave", "manifest">>, <<"leave", "config">>, <<"reap", "config">>,
    <<"reap", "manifest">>, <<"drop", "rules">>, <<"drop", "cache">>,
    <<"drop", "plugin">>>>
GeminiUninstall == Taken("settings") \o <<<<"drop", "plugin">>>>
GrokUninstall == <<<<"drop", "hooks">>, <<"drop", "shim">>, <<"drop", "skill">>>>
KimiUninstall == <<<<"leave", "config">>, <<"empty", "registry">>,
                   <<"reap", "config">>, <<"drop", "plugin">>>>

Owned(c) == [i \in 1..Len(Artifacts(c)) |-> <<"own", Artifacts(c)[i]>>]

\* applyPlan: the recorded trees, the adapter's own removal, the directories.
UninstallSteps(c) ==
  Owned(c) \o Indicator(c, FALSE)
  \o (CASE c = "antigravity" -> AntigravityUninstall
        [] c = "claude"      -> ClaudeUninstall
        [] c = "codex"       -> CodexUninstall
        [] c = "gemini"      -> GeminiUninstall
        [] c = "grok"        -> GrokUninstall
        [] c = "kimi"        -> KimiUninstall)
  \o <<<<"rmdir", "all">>>>
-------------------------------------------------------------------------------
\* A machine before ACC: a client's file is absent, empty or holds entries.
WInit ==
  /\ client \in Adapters
  /\ \E f \in {{}, {"file"}, {"file", "user"}} :
       content = [p \in WiredPlaces |-> IF p \in Merged(client) THEN f ELSE {}]
  /\ dir \in {"none", "user"}
  /\ marks = {}
  /\ status \in IF HasIndicator(client) THEN {"none", "user"} ELSE {"none"}
  /\ saved = "absent"
  /\ record = NoRecord
  /\ job = Idle
  /\ cut = FALSE /\ mine = {}
  /\ last = status
  /\ commands = 0 /\ stops = 0 /\ edits = 0

\* For a module that follows another part of the installer.
Unused == WInit /\ client = (CHOOSE c \in Adapters : TRUE) /\ dir = "none"
          /\ status = "none" /\ \A p \in WiredPlaces : content[p] = {}

ghosts == <<cut, mine, last>>

\* planInstallation: an older ACC does not replace a newer one unasked, and an
\* uninstall takes back what this data home recorded or a client it was named.
Planned(act, v, named, downgrade) ==
  IF act = "install" THEN downgrade \/ v >= record.ver
                     ELSE record # NoRecord \/ named

\* A file that does not parse stops the adapter before its first write.
Vetoed(act) ==
  \E p \in IF act = "install" THEN ReadFirst(client) ELSE Preflight(client) :
    "bad" \in content[p]

\* missingArtifactParents and the adapter's reads come before any write.
Begin(act, v, on) ==
  /\ job = Idle
  /\ commands < MaxCommands
  /\ commands' = commands + 1
  /\ \E named, downgrade \in BOOLEAN : Planned(act, v, named, downgrade)
  /\ ~Vetoed(act)
  /\ job' = [act   |-> act,
             todo  |-> IF act = "install" THEN InstallSteps(client, on)
                       ELSE UninstallSteps(client),
             ver   |-> v,
             makes |-> dir = "none",
             fresh |-> {p \in Merged(client) : content[p] = {}},
             made  |-> {p \in Merged(client) : "made" \in content[p]},
             keep  |-> {}]
  /\ UNCHANGED <<client, content, dir, marks, status, saved, record, ghosts,
                 stops, edits>>

-------------------------------------------------------------------------------
(* The steps.  Each takes the head of todo.                                  *)

At(op, p) == /\ job # Idle
             /\ job.todo # <<>>
             /\ Head(job.todo) = <<op, p>>
Write(p, pieces) == content' = [content EXCEPT ![p] = pieces]
Advance == job' = [job EXCEPT !.todo = Tail(job.todo)]
Skip == job' = [job EXCEPT !.todo = Tail(Tail(job.todo))]
Kept == UNCHANGED <<client, record, ghosts, commands, stops, edits>>

\* rm -rf of what the copy replaces: the whole tree, or ACC's own part of it.
Clear(p) ==
  /\ At("clear", p)
  /\ Write(p, IF p \in Shared(client) THEN content[p] \ {"v1", "v2", "part", "edit"}
              ELSE {})
  /\ Advance
  /\ UNCHANGED <<dir, marks, status, saved>> /\ Kept

\* cp of the bundle, the shims, the baked skill.  accGenerated: a rules file
\* the user changed is left as it is.
Filled(p) ==
  IF p = "rules" /\ "edit" \in content[p] THEN content[p]
  ELSE (content[p] \ {"v1", "v2", "part", "edit"}) \cup {Bundle(job.ver)}

Fill(p) ==
  /\ At("fill", p)
  /\ Write(p, Filled(p))
  /\ dir' = IF dir = "none" THEN "empty" ELSE dir
  /\ Advance
  /\ UNCHANGED <<marks, status, saved>> /\ Kept

\* The files that say inside that ACC created them: acc:createdFile, and the
\* marketplace manifest by its name.
NotesItself(c, p) == \/ p = "settings" /\ c \in {"claude", "gemini"}
                     \/ p = "manifest" /\ c = "codex"

\* stripBlock, removeOwnedEntries: the file without what ACC wrote, marked or not.
\* What stands behind a whole block stays; a block without its END runs to the
\* end of the file.
Stripped(p) ==
  (content[p] \ {"acc", "bare", "open", "after"})
  \cup IF "after" \in content[p] /\ "open" \notin content[p] THEN {"user"} ELSE {}

\* mergeOwnedEntries, registerPlugin, writeTomlBlock: ACC's entries beside the
\* user's.  adoptUnmarked: entries whose markers a rewrite removed are ACC's.
Entered(p) ==
  Stripped(p) \cup {"file", "acc"}
  \cup IF p \in job.fresh /\ NotesItself(client, p) THEN {"made"} ELSE {}

\* A write stops at a file it cannot parse.  Kimi's config.toml is only split
\* into lines, and what agy makes of its own list on a removal is passed over.
Unreadable(op, p) ==
  /\ "bad" \in content[p]
  /\ <<client, p>> # <<"kimi", "config">>
  /\ <<client, op, p>> # <<"antigravity", "leave", "manifest">>

Enter(p) ==
  /\ At("enter", p)
  /\ ~Unreadable("enter", p)
  /\ Write(p, Entered(p))
  /\ Advance
  /\ UNCHANGED <<dir, marks, status, saved>> /\ Kept

\* createdMarker: noted in ACC's data home, after the write.
Mark(p) ==
  /\ At("mark", p)
  /\ marks' = IF p \in job.fresh THEN marks \cup {p} ELSE marks
  /\ Advance
  /\ UNCHANGED <<content, dir, status, saved>> /\ Kept

\* inspectAllowRule, inspectDesktopRule: no rule where the file does not read,
\* where it is there already, and none for a desktop that never ran.
RuleWanted(p) == /\ "bad" \notin content[p]
                 /\ "rule" \notin content[p]
                 /\ p = "desktop" => content[p] # {}

\* addRule, ensureDesktopRule: the claim, with what the write will create,
\* before the rule.
Claim(p) ==
  /\ At("claim", p)
  /\ IF RuleWanted(p)
     THEN /\ marks' = (IF p = "settings" THEN marks \ {"settingsMade"} ELSE marks)
                      \cup {p}
                      \cup (IF p = "settings" /\ content[p] = {} THEN {"settingsMade"}
                            ELSE {})
          /\ Advance
     ELSE /\ Skip
          /\ UNCHANGED marks
  /\ UNCHANGED <<content, dir, status, saved>> /\ Kept

Rule(p) ==
  /\ At("rule", p)
  /\ Write(p, content[p] \cup {"file", "rule"})
  /\ Advance
  /\ UNCHANGED <<dir, marks, status, saved>> /\ Kept

\* The status line: a command the user changed since is theirs, on and off.
Save ==
  /\ At("save", "status")
  /\ IF saved # "absent" /\ status # "acc"
     THEN Skip /\ UNCHANGED saved
     ELSE Advance /\ saved' = IF saved = "absent" THEN status ELSE saved
  /\ UNCHANGED <<content, dir, marks, status>> /\ Kept

SetStatus ==
  /\ At("set", "status")
  /\ status' = "acc"
  /\ Advance
  /\ UNCHANGED <<content, dir, marks, saved>> /\ Kept

Restore ==
  /\ At("restore", "status")
  /\ IF saved = "absent" THEN Skip ELSE Advance
  /\ status' = IF saved # "absent" /\ status = "acc" THEN saved ELSE status
  /\ UNCHANGED <<content, dir, marks, saved>> /\ Kept

Forget ==
  /\ At("forget", "status")
  /\ saved' = "absent"
  /\ Advance
  /\ UNCHANGED <<content, dir, marks, status>> /\ Kept

\* recordInstall: last, with the trees as they stand and every directory any
\* install of this client had to create.
Recorded == [ver   |-> job.ver,
             trees |-> [p \in Trees(client) |-> content[p]],
             dirs  |-> job.makes \/ (record # NoRecord /\ record.dirs)]

FinishInstall ==
  /\ job # Idle /\ job.act = "install" /\ job.todo = <<>>
  /\ record' = Recorded
  /\ cut' = FALSE
  /\ job' = Idle
  /\ UNCHANGED <<client, content, dir, marks, status, saved, mine, last,
                 commands, stops, edits>>
-------------------------------------------------------------------------------
\* Mutant: the recorded bytes are not compared.
OwnUnchecked(p) ==
  /\ At("own", p)
  /\ Write(p, {})
  /\ Advance
  /\ UNCHANGED <<dir, marks, status, saved>> /\ Kept

\* removeOwnedArtifacts: what still has the bytes ACC recorded goes; what was
\* changed since is held back, here and by the adapter.
Own(p) ==
  /\ At("own", p)
  /\ LET stamped == IF record = NoRecord THEN {} ELSE record.trees[p]
         held == content[p] # {} /\ record # NoRecord /\ content[p] # stamped
     IN /\ Write(p, IF content[p] = stamped THEN {} ELSE content[p])
        /\ job' = [job EXCEPT !.todo = Tail(@),
                              !.keep = IF held THEN @ \cup {p} ELSE @]
  /\ UNCHANGED <<dir, marks, status, saved>> /\ Kept

\* The entries ACC wrote go, and its note of having made the file.
Left(p) == Stripped(p) \ (IF p = "settings" THEN {"made"} ELSE {})

Leave(p) ==
  /\ At("leave", p)
  /\ ~Unreadable("leave", p)
  /\ \/ /\ "bad" \in content[p] => client = "kimi"
        /\ Write(p, Left(p))
        /\ IF p = "hooks" /\ "acc" \notin content[p] THEN Skip ELSE Advance
     \/ \* agy plugin uninstall fails, or nothing of ACC's is installed: the copy
        \* is removed, the entry stays.
        /\ client = "antigravity" /\ p = "manifest" /\ content[p] \cap {"acc", "bad"} # {}
        /\ Write(p, IF "acc" \in content[p] THEN (content[p] \ {"acc"}) \cup {"listed"}
                    ELSE content[p])
        /\ Advance
  /\ UNCHANGED <<dir, marks, status, saved>> /\ Kept

\* removeIfEmpty: only a file ACC created, or one where blank means absent.
Reapable(p) == CASE p = "settings" -> p \in job.made
                 [] p = "hooks"    -> p \in marks
                 [] p = "manifest" -> p \in marks \/ "made" \in content[p]
                 [] p = "config"   -> TRUE
Blank(p) == content[p] \subseteq {"file", "made"}

Reap(p) ==
  /\ At("reap", p)
  /\ Write(p, IF Reapable(p) /\ Blank(p) THEN {} ELSE content[p])
  /\ marks' = marks \ {p}
  /\ Advance
  /\ UNCHANGED <<dir, status, saved>> /\ Kept

\* writeRegistry, uninstallKimiPlugin: a registry left without a plugin goes.
Empty(p) ==
  /\ At("empty", p)
  /\ "bad" \notin content[p]
  /\ Write(p, IF client = "claude" /\ "acc" \notin content[p] THEN content[p]
              ELSE IF "user" \in content[p] THEN content[p] \ {"acc"} ELSE {})
  /\ Advance
  /\ UNCHANGED <<dir, marks, status, saved>> /\ Kept

\* withdrawRule, withdrawDesktopRule: the claimed rule, and the file with it
\* when the claim says ACC created it and nothing else is in it.
Withdraw(p) ==
  /\ At("withdraw", p)
  /\ IF p \notin marks \/ "bad" \in content[p]
     THEN Skip /\ UNCHANGED content
     ELSE /\ Advance
          /\ LET rest == content[p] \ {"rule"}
             IN Write(p, IF /\ "rule" \in content[p] /\ p = "settings"
                            /\ "settingsMade" \in marks /\ rest \subseteq {"file"}
                         THEN {} ELSE rest)
  /\ UNCHANGED <<dir, marks, status, saved>> /\ Kept

Unclaim(p) ==
  /\ At("unclaim", p)
  /\ marks' = marks \ (IF p = "settings" THEN {p, "settingsMade"} ELSE {p})
  /\ Advance
  /\ UNCHANGED <<content, dir, status, saved>> /\ Kept

\* removeInstalledTree, removeAllowRule: whatever stands at the path, unless it
\* was held back; a rules file only as ACC generated it.
Drop(p) ==
  /\ At("drop", p)
  /\ Write(p, IF p \in job.keep \/ (p = "rules" /\ "edit" \in content[p])
              THEN content[p] ELSE {})
  /\ Advance
  /\ UNCHANGED <<dir, marks, status, saved>> /\ Kept

\* removeEmptyOwnedDirectories: a recorded directory, while it is empty.
RemoveDirectory ==
  /\ At("rmdir", "all")
  /\ LET gone == /\ record # NoRecord /\ record.dirs
                 /\ dir = "empty"
                 /\ \A p \in Trees(client) : content[p] = {}
     IN dir' = IF gone THEN "none" ELSE dir
  /\ Advance
  /\ UNCHANGED <<content, marks, status, saved>> /\ Kept

\* finalizeRemoval: the record goes when every removal has been made.
FinishUninstall ==
  /\ job # Idle /\ job.act = "uninstall" /\ job.todo = <<>>
  /\ record' = NoRecord
  /\ job' = Idle
  /\ UNCHANGED <<client, content, dir, marks, status, saved, ghosts, commands,
                 stops, edits>>
-------------------------------------------------------------------------------
Cut == job.act = "install" /\ job.todo # <<>>

\* A file that does not parse when the removal reaches it ends the adapter's
\* part; the record stays, so the command can be given again.
Refused ==
  /\ job # Idle /\ job.todo # <<>>
  /\ Head(job.todo)[1] \in {"enter", "leave", "empty"}
  /\ Unreadable(Head(job.todo)[1], Head(job.todo)[2])
  /\ job' = Idle
  /\ cut' = (cut \/ Cut)
  /\ UNCHANGED <<client, content, dir, marks, status, saved, record, mine, last,
                 commands, stops, edits>>

\* A command killed or failing between two writes, or half way through a copy.
Stop ==
  /\ job # Idle /\ stops < MaxStops
  /\ stops' = stops + 1
  /\ job' = Idle
  /\ cut' = (cut \/ job.act = "install")
  /\ \/ UNCHANGED content
     \/ /\ job.todo # <<>> /\ Head(job.todo)[1] = "fill"
        /\ Head(job.todo)[2] # "rules"
        /\ dir # "none"
        /\ Write(Head(job.todo)[2], content[Head(job.todo)[2]] \cup {"part"})
  /\ UNCHANGED <<client, dir, marks, status, saved, record, mine, last,
                 commands, edits>>
-------------------------------------------------------------------------------
(* The user, between commands.                                               *)

Edits == /\ job = Idle /\ edits < MaxEdits /\ commands > 0
         /\ edits' = edits + 1
         /\ UNCHANGED <<client, saved, marks, record, job, cut, commands,
                        stops>>

EditFile(p) ==
  /\ Edits
  /\ \E pieces \in {content[p] \cup {"file", "user"}, content[p] \ {"user"}, {},
                    content[p] \cup {"file", "bad"}, content[p] \ {"bad"}} :
       pieces # content[p] /\ Write(p, pieces)
  /\ mine' = IF content'[p] = {} THEN mine \ {p} ELSE mine
  /\ UNCHANGED <<dir, status, last>>

EditTree(p) ==
  /\ Edits
  /\ content[p] # {}
  /\ \E pieces \in {{}, content[p] \cup {"edit"}}
                   \cup (IF p \in {"rules", "hooks"} THEN {} ELSE {content[p] \cup {"user"}}) :
       pieces # content[p] /\ Write(p, pieces)
  /\ UNCHANGED <<dir, status, last, mine>>

EditRule(p) ==
  /\ Edits
  /\ content[p] # {}
  /\ \/ /\ "rule" \notin content[p]
        /\ Write(p, content[p] \cup {"rule"})
        /\ mine' = IF p \in marks THEN mine ELSE mine \cup {p}
     \/ /\ "rule" \in content[p]
        /\ Write(p, content[p] \ {"rule"})
        /\ mine' = mine \ {p}
  /\ UNCHANGED <<dir, status, last>>

\* Another program rewrites config.toml and drops every comment.
StripMarkers ==
  /\ Edits
  /\ client = "codex" /\ "acc" \in content["config"]
  /\ Write("config", (content["config"] \ {"acc"}) \cup {"bare"})
  /\ UNCHANGED <<dir, status, last, mine>>

\* Kimi's config.toml: the user writes behind ACC's block, or removes the line
\* that ends it.
EditBlock ==
  /\ Edits
  /\ client = "kimi" /\ "acc" \in content["config"]
  /\ \E found \in SUBSET {"after", "open"} :
       Write("config", (content["config"] \ {"after", "open"}) \cup found)
  /\ content' # content
  /\ UNCHANGED <<dir, status, last, mine>>

EditStatus ==
  /\ Edits
  /\ HasIndicator(client)
  /\ \E s \in {"none", "user"} \ {status} : status' = s /\ last' = s
  /\ UNCHANGED <<content, dir, mine>>

EditDirectory ==
  /\ Edits
  /\ dir' \in {"empty", "user"} \ {dir}
  /\ dir = "none" => dir' = "user"
  /\ UNCHANGED <<content, status, last, mine>>

UserEdit ==
  \/ \E p \in Merged(client) : EditFile(p)
  \/ \E p \in Trees(client) : EditTree(p)
  \/ client = "antigravity" /\ \E p \in {"settings", "desktop"} : EditRule(p)
  \/ StripMarkers
  \/ EditBlock
  \/ EditStatus
  \/ EditDirectory

AccStep ==
  \/ /\ job # Idle /\ job.todo # <<>>
     /\ \E p \in {Head(job.todo)[2]} :
       \/ Clear(p) \/ Fill(p) \/ Enter(p) \/ Mark(p) \/ Claim(p) \/ Rule(p)
       \/ Own(p) \/ Leave(p) \/ Reap(p) \/ Empty(p) \/ Withdraw(p) \/ Unclaim(p)
       \/ Drop(p)
  \/ Save \/ SetStatus \/ Restore \/ Forget
  \/ RemoveDirectory
  \/ FinishInstall
  \/ FinishUninstall
  \/ Refused
  \/ Stop

WNext ==
  \/ \E v \in 1..2, on \in BOOLEAN :
       (on => HasIndicator(client)) /\ Begin("install", v, on)
  \/ Begin("uninstall", 1, FALSE)
  \/ AccStep
  \/ UserEdit

WSpec == WInit /\ [][WNext]_wvars
-------------------------------------------------------------------------------
Yours(pieces) == pieces \cap {"user", "edit"}

\* Whatever is cut short, ACC still knows what is its own: a rule it added is
\* claimed, and the status line it shows has the user's own beside it.
OwnershipKnown ==
  /\ client = "antigravity" =>
       \A p \in {"settings", "desktop"} : "rule" \in content[p] => p \in marks \cup mine
  /\ status = "acc" => saved = last

\* The user's entries in a client's file are still there.  The one exception is
\* the code's own: what stands in Kimi's config.toml behind a block of ACC's
\* whose END the user removed is taken with the block.
EntriesStay(before, later) ==
  /\ "user" \in before => "user" \in later
  /\ "after" \in before => \/ later \cap {"user", "after"} # {}
                           \/ client = "kimi" /\ "open" \in before

\* No entry of the user in a client's file goes, no allow rule they wrote, no
\* file they put in a shared tree, nothing they changed in a tree since ACC
\* recorded it, and no directory they use.
KeepsUserWork ==
  job # Idle =>
    /\ \A p \in Merged(client) : EntriesStay(content[p], content'[p])
    /\ \A p \in mine : "rule" \in content'[p]
    /\ \A p \in Trees(client) :
         \/ job.act = "install" /\ (p \in Shared(client) => "user" \notin content[p]
                                                          \/ "user" \in content'[p])
         \/ job.act = "uninstall" /\ (\/ record = NoRecord
                                      \/ Yours(content[p]) \subseteq
                                           Yours(content'[p]) \cup record.trees[p])
    /\ dir = "user" => dir' = "user"

\* An uninstall that ends leaves nothing of ACC's that it had recorded: a tree
\* stays only when the user changed it or an install was cut short over it, an
\* entry or a rule only in a file that cannot be read, and the directory ACC
\* created goes with its last tree.
LeavesNothingBehind ==
  (record # NoRecord /\ record' = NoRecord) =>
    /\ \A p \in Trees(client) :
         content[p] \cap Acc # {} => cut \/ Yours(content[p]) # {}
    /\ \A p \in Merged(client) : content[p] \cap Acc = {}
    /\ client = "antigravity" =>
         \A p \in {"settings", "desktop"} :
           "rule" \in content[p] => p \in mine \/ (p \in marks /\ "bad" \in content[p])
    /\ status # "acc" /\ saved = "absent"
    /\ (record.dirs /\ dir = "empty") => \E p \in Trees(client) : content[p] # {}

\* ACC takes back what is its own, and never the user's work with it but for what
\* stands behind a half-deleted block, whichever commands were cut short.
TakesItsOwnOnly == [][KeepsUserWork /\ LeavesNothingBehind]_wvars
=============================================================================
