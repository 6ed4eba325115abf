----------------------------- MODULE WriteGuard -----------------------------
(***************************************************************************)
(* The write guard: from a tool call of a client to the paths it would     *)
(* write (packages/adapter-sdk/src/shell-writes.mjs and the hooks.mjs of   *)
(* the adapters), from a path to a resource name, and from the live claims *)
(* to allow or deny (canonicalTarget, resourceFor and beforeTool in        *)
(* packages/hook-runner/src/runner.mjs, guardState in core/src/status.mjs).*)
(*                                                                         *)
(* An agent composes one call, word by word; then the hook decides.  What  *)
(* an agent types has a meaning of its own (the shell's, the editor's),    *)
(* written down apart; the code is given only the tokens.  Splitting the   *)
(* text into tokens and dropping here-documents is not modelled, nor a     *)
(* hook that fails: the client then lets the call pass.                    *)
(***************************************************************************)
EXTENDS Resources, FiniteSets

LOCAL INSTANCE SequencesExt
LOCAL INSTANCE FiniteSetsExt

CONSTANTS
    Spelled,      \* the path a word spells: [absolute, segments]
    Root,         \* the worktree root, or the first declared root: a real path
    Cwds,         \* working directories a session is started in, as typed
    Present,      \* the real paths that exist, the file system's root included
    Links,        \* a symbolic link's path -> the real path of its directory
    ShellFiles,   \* the words that name a file in a shell line
    Readings,     \* what a hook may find: [claims, bound, refused]
    Commands,     \* the shell commands typed
    MaxWords,     \* bound: a client's command names and arguments in a line
    MaxSimple,    \* bound: simple commands of a line
    MaxOps,       \* bound: lines of a patch
    None

VARIABLES
    call,     \* [client, tool, field, writes, path, line, patch]: what the tool is called with
    cwd,      \* the session's working directory, as the payload states it
    beat,     \* the session's heartbeat: "due" | "fresh"
    answer    \* None, or what the hook said and what it found: [decision, reading]

vars == <<call, cwd, beat, answer>>

\* A claim is [rest, hold], and hold is "own", "advisory", "lapsed" (its lease has
\* run out) or "other": a live guarded claim of another session.

-----------------------------------------------------------------------------
(* Tokens.  A word is a plain one, a flag (it starts with "-"), an of=     *)
(* word or an assignment; quoting is kept.                                 *)

Token(kind, text, quoted) == [kind |-> kind, text |-> text, quoted |-> quoted]
Operator(text) == Token("operator", text, FALSE)
Plain(text)    == Token("word", text, FALSE)

IsOperator(token) == token.kind = "operator"
IsFlag(token) == token.kind = "flag" /\ ~token.quoted

Separators == {";", "&&", "||", "|", "|&", "&", "newline"}

\* WRITE_REDIRECTION; descriptors other than 2 are left out.
WriteRedirections == {">", ">>", ">|", "2>", "2>>", "2>|", "&>", "&>>", "&>|"}

NotAFile == {"/dev/null", "/dev/stdout", "/dev/stderr", "/dev/tty"}

\* WRITERS: every operand is written, or only the last.
AllOperands == {"tee", "touch", "truncate", "rm", "unlink", "shred", "mkdir", "rmdir", "mv"}
LastOperand == {"cp", "install", "rsync", "ln"}

\* The flags whose next word is a value (WRITERS and IN_PLACE).
ValueFlags(name) ==
    CASE name = "touch"    -> {"-d", "-r", "-t", "--date", "--reference"}
      [] name = "truncate" -> {"-s", "--size", "-r", "--reference"}
      [] name = "shred"    -> {"-n", "--iterations", "-s", "--size"}
      [] name = "mkdir"    -> {"-m", "--mode"}
      [] name \in {"cp", "ln", "mv"} -> {"-t", "--target-directory", "-S", "--suffix"}
      [] name = "install"  -> {"-t", "--target-directory", "-m", "-o", "-g"}
      [] name = "rsync"    -> {"-e", "--rsh", "--exclude"}
      [] name = "restore"  -> {"--source", "-s"}
      [] name = "sed"      -> {"-e", "--expression", "-f", "--file", "-l", "-E"}
      [] name = "perl"     -> {"-e", "-E", "-M", "-m"}
      [] name = "ruby"     -> {"-e", "-r"}
      [] OTHER -> {}

InPlaceEditors == {"sed", "perl", "ruby"}
InPlaceFlags   == {"-i", "-i.bak", "--in-place"}
ScriptClusters == {"-e", "-E", "-f", "-pe"}          \* /^-[A-Za-z]*[eEf]$/
ScriptFlags    == ScriptClusters \cup {"--expression", "--file"}

-----------------------------------------------------------------------------
(* shell-writes.mjs.                                                       *)

\* simpleCommands: the tokens between separators.
SimpleCommands(tokens) ==
    LET Split(done, token) ==
            IF IsOperator(token) /\ token.text \in Separators
            THEN Append(done, <<>>)
            ELSE [done EXCEPT ![Len(done)] = Append(@, token)]
    IN SelectSeq(FoldLeft(Split, << <<>> >>, tokens), LAMBDA simple : simple # <<>>)

\* redirectionTarget, for every redirection of the command that writes.
RedirectionTargets(simple) ==
    {simple[k + 1].text : k \in {n \in 1 .. Len(simple) - 1 :
        /\ IsOperator(simple[n]) /\ simple[n].text \in WriteRedirections
        /\ ~IsOperator(simple[n + 1]) /\ simple[n + 1].text \notin NotAFile}}

\* commandWords: assignments and wrappers are skipped.
Wrappers == {"sudo", "command", "nohup", "time", "nice", "env"}

CommandWords(words) ==
    LET starts == {n \in 1 .. Len(words) :
            ~(words[n].kind = "assignment" /\ ~words[n].quoted) /\ words[n].text \notin Wrappers}
    IN IF starts = {} THEN <<>> ELSE SubSeq(words, Min(starts), Len(words))

\* The words that the flags at the places `taking` take as their values.
Consumed(words, taking) ==
    LET consumed[k \in 1 .. Len(words)] ==
            k > 2 /\ ~consumed[k - 1] /\ IsFlag(words[k - 1]) /\ k - 1 \in taking
    IN {k \in 1 .. Len(words) : consumed[k]}

\* operandsOf: the places of the words that are neither flags nor their values.
OperandsOf(words, valueFlags) ==
    {k \in 2 .. Len(words) : ~IsFlag(words[k])}
        \ Consumed(words, {k \in 2 .. Len(words) : words[k].text \in valueFlags})

TextsAt(words, places) == {words[k].text : k \in places}

DdTargets(words) == TextsAt(words, {k \in 2 .. Len(words) : words[k].kind = "of"})

GitTargets(words) ==
    LET rest == Tail(words)
        dashes == {k \in 1 .. Len(words) : words[k].text = "--" /\ ~words[k].quoted}
    IN IF rest = <<>> THEN {}
       ELSE IF rest[1].text = "restore" THEN TextsAt(rest, OperandsOf(rest, ValueFlags("restore")))
       ELSE IF rest[1].text = "checkout" /\ dashes # {}
       THEN TextsAt(words, Min(dashes) + 1 .. Len(words))
       ELSE {}

InPlaceTargets(words) ==
    LET flags == TextsAt(words, {k \in 2 .. Len(words) : IsFlag(words[k])})
        taking == {k \in 2 .. Len(words) - 1 :
                      \/ words[k].text \in ValueFlags(words[1].text) \cup ScriptClusters
                      \/ words[k].text = "-i" /\ words[k + 1].quoted /\ words[k + 1].text = ""}
        operands == {k \in 2 .. Len(words) : ~IsFlag(words[k])} \ Consumed(words, taking)
    IN IF flags \cap InPlaceFlags = {} THEN {}
       ELSE IF flags \cap ScriptFlags # {} THEN TextsAt(words, operands)
       ELSE TextsAt(words, {k \in operands : \E n \in operands : n < k})

WriterTargets(words) ==
    LET name == words[1].text
        operands == OperandsOf(words, ValueFlags(name))
    IN IF name \in AllOperands THEN TextsAt(words, operands)
       ELSE IF name \in LastOperand /\ operands # {} THEN {words[Max(operands)].text}
       ELSE {}

\* One turn of the loop of shellWriteTargets.
SimpleTargets(simple) ==
    LET words == CommandWords(SelectSeq(simple, LAMBDA token : ~IsOperator(token)))
    IN RedirectionTargets(simple) \cup
       IF words = <<>> THEN {}
       ELSE CASE words[1].text = "dd"  -> DdTargets(words)
              [] words[1].text = "git" -> GitTargets(words)
              [] words[1].text \in InPlaceEditors -> InPlaceTargets(words)
              [] OTHER -> WriterTargets(words)

\* shellWriteTargets: the files named at the places where a line writes.
ShellWriteTargets(tokens) ==
    UNION {SimpleTargets(simple) : simple \in ToSet(SimpleCommands(tokens))} \ (NotAFile \cup {""})

-----------------------------------------------------------------------------
(* What an agent types.  An argument is what it is to the command, and the *)
(* tokens that spell it.                                                   *)

Argument(as, text, tokens) == [as |-> as, text |-> text, tokens |-> tokens]

File(text)        == Argument("file", text, <<Plain(text)>>)
Flag(text)        == Argument("flag", text, <<Token("flag", text, FALSE)>>)
Value(flag, text) == Argument("value", flag, <<Token("flag", flag, FALSE), Plain(text)>>)
Subcommand(text)  == Argument("subcommand", text, <<Plain(text)>>)
Output(text)      == Argument("output", text, <<Token("of", text, FALSE)>>)
To(op, text)      == Argument("to", text, <<Operator(op), Plain(text)>>)
From(text)        == Argument("from", text, <<Operator("<"), Plain(text)>>)
Duplicate         == Argument("from", "1", <<Operator("2>&"), Plain("1")>>)
Script            == Argument("script", "s/x/y/", <<Token("word", "s/x/y/", TRUE)>>)
Suffix            == Argument("flag", "-i", <<Token("flag", "-i", FALSE), Token("word", "", TRUE)>>)

Files == DOMAIN Spelled

\* The arguments worth typing after each command.
Arguments(name) ==
    {File(text) : text \in ShellFiles} \cup {To(">", "c"), To("2>", "/dev/null"), From("c"), Duplicate}
    \cup CASE name = "truncate" -> {Value("-s", "0")}
           [] name = "cp"  -> {Flag("-r"), Value("-S", "c")}
           [] name = "sed" -> {Flag("-i"), Suffix, Script, Value("-e", "s/x/y/")}
           [] name = "git" -> {Subcommand(text) : text \in {"restore", "checkout", "log"}}
                                  \cup {Flag("--"), Value("-s", "c")}
           [] name = "dd"  -> {Output(text) : text \in ShellFiles}
           [] OTHER -> {}

\* What the command does with its arguments (the shell's and the tools' meaning).
At(command, as) == {k \in 1 .. Len(command.args) : command.args[k].as = as}
Texts(command, places) == {command.args[k].text : k \in places}

GitVerb(command) ==
    IF command.args # <<>> /\ command.args[1].as = "subcommand" THEN command.args[1].text ELSE "log"

AfterDashes(command) ==
    {k \in At(command, "file") : \E n \in At(command, "flag") : n < k /\ command.args[n].text = "--"}

Edits(command) ==
    LET files == At(command, "file")
        flags == Texts(command, At(command, "flag"))
    IN CASE command.name \in AllOperands -> files
         [] command.name \in LastOperand /\ files # {} -> {Max(files)}
         [] command.name = "sed" /\ flags \cap InPlaceFlags # {} -> files
         [] command.name = "dd" -> At(command, "output")
         [] command.name = "git" /\ GitVerb(command) = "restore" -> files
         [] command.name = "git" /\ GitVerb(command) = "checkout" -> AfterDashes(command)
         [] OTHER -> {}

\* The files a command writes.
Writes(command) == Texts(command, Edits(command) \cup At(command, "to")) \ NotAFile

\* Is it a command its tool accepts?  A script stands where one belongs, a
\* subcommand comes first, a copy has a source.
Sound(command) ==
    CASE command.name = "cp" -> Cardinality(At(command, "file")) >= 2
      [] command.name = "sed" ->
            LET files == At(command, "file")
                scripts == At(command, "script")
            IN IF At(command, "value") # {} THEN scripts = {}
               ELSE Cardinality(scripts) = 1 /\ \A f \in files, s \in scripts : s < f
      [] command.name = "git" ->
            /\ 1 \in At(command, "subcommand") /\ Cardinality(At(command, "subcommand")) = 1
            /\ Cardinality(At(command, "flag")) <= 1
            /\ At(command, "value") # {} => GitVerb(command) = "restore"
            /\ GitVerb(command) = "checkout" => At(command, "file") = AfterDashes(command)
      [] OTHER -> TRUE

\* What the code misreads: the words of a redirection stay among the operands.  So
\* a destination followed by one is missed, what "<" names passes for an operand,
\* and so does the script of an in-place editor behind a redirection.
DestinationLast(command) ==
    command.name \in LastOperand =>
        \A k \in At(command, "to") \cup At(command, "from") : \E n \in At(command, "file") : n > k

OperandsApart(command) ==
    /\ At(command, "from") = {} \/ command.name \in {"cat", "dd"}
    /\ \A s \in At(command, "script"), k \in At(command, "to") : s < k

TokensOf(command) ==
    FoldLeft(LAMBDA tokens, argument : tokens \o argument.tokens,
             command.before \o <<Plain(command.name)>>, command.args)

LineTokens(line) ==
    FoldLeft(LAMBDA tokens, command : tokens \o TokensOf(command) \o <<Operator("&&")>>, <<>>, line)

-----------------------------------------------------------------------------
(* The tool calls of the clients: writeTargets in each adapter's hooks.    *)

\* input?.[field] of the call; the other fields are absent.
Input(field) == IF call.field = field THEN call.path ELSE None
Named(path) == {path} \ {None}

ShellTargets == IF call.field = "command" THEN ShellWriteTargets(LineTokens(call.line)) ELSE {}

ClaudeTargets ==
    IF call.tool = "Bash" THEN ShellTargets
    ELSE IF call.tool \notin {"Write", "Edit", "MultiEdit", "NotebookEdit"} THEN {}
    ELSE Named(Input("file_path")) \cup Named(Input("notebook_path"))

KimiTargets ==
    IF call.tool = "Bash" THEN ShellTargets
    ELSE IF call.tool \notin {"Write", "Edit"} THEN {}
    ELSE Named(Input("path"))

GrokTargets ==
    IF call.tool = "run_terminal_command" THEN ShellTargets
    ELSE IF call.tool \notin {"write", "search_replace"} THEN {}
    ELSE Named(Input("file_path"))

GeminiTargets ==
    IF call.tool = "run_shell_command" THEN ShellTargets
    ELSE IF call.tool \notin {"write_file", "replace"} THEN {}
    ELSE Named(Input("file_path"))

\* patchTargets: the files of the envelope's operations, both sides of a move.
PatchTargets(patch) ==
    {patch[k].path : k \in {n \in 1 .. Len(patch) :
                            patch[n].mark \in {"Add", "Update", "Delete", "Move to"}}}

\* A patch envelope is read as a patch, any other command as a shell line,
\* whatever the tool is called.
CodexTargets ==
    IF call.field = "patch" THEN PatchTargets(call.patch) ELSE ShellTargets

WriteTargets ==
    CASE call.client = "claude_code" -> ClaudeTargets
      [] call.client = "codex"       -> CodexTargets
      [] call.client = "kimi"        -> KimiTargets
      [] call.client = "grok"        -> GrokTargets
      [] call.client = "gemini_cli"  -> GeminiTargets

\* How the clients call their tools, and whether the tool writes what it is given.
Schema ==
    UNION {{"claude_code"} \X {<<"Write", "file_path", TRUE>>, <<"NotebookEdit", "notebook_path", TRUE>>,
                               <<"Read", "file_path", FALSE>>, <<"Bash", "command", TRUE>>},
           {"codex"} \X {<<"apply_patch", "patch", TRUE>>, <<"Bash", "command", TRUE>>,
                         <<"Bash", "patch", TRUE>>},
           {"kimi"} \X {<<"Edit", "path", TRUE>>, <<"Read", "path", FALSE>>, <<"Bash", "command", TRUE>>},
           {"grok"} \X {<<"search_replace", "file_path", TRUE>>, <<"run_terminal_command", "command", TRUE>>},
           {"gemini_cli"} \X {<<"replace", "file_path", TRUE>>, <<"read_file", "file_path", FALSE>>,
                              <<"run_shell_command", "command", TRUE>>}}

-----------------------------------------------------------------------------
(* From a word to a resource.                                              *)

\* Segment by segment from `start`, following `links`; ".." at the root stays there.
Steps(start, segments, links) ==
    FoldLeft(LAMBDA at, segment :
                 IF segment = "." THEN at
                 ELSE IF segment = ".." THEN IF at = <<>> THEN at ELSE Front(at)
                 ELSE LET next == Append(at, segment)
                      IN IF next \in DOMAIN links THEN links[next] ELSE next,
             start, segments)

Spelling(word) ==
    IF word \in Files THEN Spelled[word] ELSE [absolute |-> FALSE, segments |-> <<word>>]

\* path.resolve: on the text alone.
Resolved(base, word) ==
    Steps(IF Spelling(word).absolute THEN <<>> ELSE base, Spelling(word).segments, <<>>)

\* Where the operating system gets: every link on the way is followed.
Reached(path) == Steps(<<>>, path, Links)

\* Mutant: the path as it is spelled.
CanonicalTargetAsSpelled(word, refused) == Resolved(cwd, word)

\* canonicalTarget: the deepest ancestor that exists is resolved and the rest
\* appended; any other error leaves the path as it is spelled.
CanonicalTarget(word, refused) ==
    LET path == Resolved(cwd, word)
        deepest == Max({n \in 0 .. Len(path) : Reached(SubSeq(path, 1, n)) \in Present})
    IN IF refused THEN path
       ELSE Reached(SubSeq(path, 1, deepest)) \o SubSeq(path, deepest + 1, Len(path))

\* resourceFor: relative to the root, None outside it.
ResourceFor(path) ==
    IF Within(path, Root) /\ path # Root THEN SubSeq(path, Len(Root) + 1, Len(path)) ELSE None

\* covers, and the root of the guard's claims.
GuardCovers(rest, target) == rest = target \/ Covers(rest, target)

-----------------------------------------------------------------------------
(* The hook.                                                               *)

\* guardState lists the claims whose lease still runs.
Listed(claims) == {claim \in claims : claim.hold # "lapsed"}

\* The guarded claims of others that cover something the call would write.
Blocking(claims, wanted) ==
    {claim \in Listed(claims) : claim.hold \notin {"own", "advisory"}
                                /\ \E target \in wanted : GuardCovers(claim.rest, target)}

\* beforeTool, and the decision the runner returns.  A heartbeat that is due is
\* renewed on either way; without a binding nothing is looked at.
BeforeTool(reading) ==
    /\ answer = None
    /\ beat' = IF reading.bound THEN "fresh" ELSE beat
    /\ LET wanted == {ResourceFor(CanonicalTarget(word, reading.refused)) : word \in WriteTargets} \ {None}
           stopped == reading.bound /\ Blocking(reading.claims, wanted) # {}
       IN answer' = [reading |-> reading, decision |-> IF stopped THEN "deny" ELSE "allow"]
    /\ UNCHANGED <<call, cwd>>

-----------------------------------------------------------------------------
(* An agent composes its call.                                             *)

Empty(client, shape, path) ==
    [client |-> client, tool |-> shape[1], field |-> shape[2], writes |-> shape[3], path |-> path,
     line |-> <<>>, patch |-> <<>>]

Init ==
    /\ \E entry \in Schema, path \in Files :
           /\ entry[2][2] \in {"command", "patch"} => path = "c"
           /\ call = Empty(entry[1], entry[2], path)
    /\ cwd \in Cwds
    /\ beat = "due"
    /\ answer = None

Words == FoldLeft(LAMBDA n, command : n + 1 + Len(command.before) + Len(command.args), 0, call.line)

\* The next simple command of a line, with or without a wrapper in front of it.
TypeCommand ==
    /\ answer = None /\ call.field = "command"
    /\ Len(call.line) < MaxSimple /\ Words < MaxWords[call.client]
    /\ \E name \in Commands, before \in {<<>>, <<Token("assignment", "X=1", FALSE)>>, <<Plain("sudo")>>} :
           call' = [call EXCEPT !.line = Append(@, [before |-> before, name |-> name, args |-> <<>>])]
    /\ UNCHANGED <<cwd, beat, answer>>

TypeArgument ==
    /\ answer = None /\ call.line # <<>> /\ Words < MaxWords[call.client]
    /\ \E argument \in Arguments(call.line[Len(call.line)].name) :
           call' = [call EXCEPT !.line[Len(call.line)].args = Append(@, argument)]
    /\ UNCHANGED <<cwd, beat, answer>>

\* One line of a patch; a content line may look like anything.
TypePatch ==
    /\ answer = None /\ call.field = "patch" /\ Len(call.patch) < MaxOps
    /\ \E mark \in {"Add", "Update", "Delete", "Move to", "content"}, path \in Files :
           call' = [call EXCEPT !.patch = Append(@, [mark |-> mark, path |-> path])]
    /\ UNCHANGED <<cwd, beat, answer>>

Next ==
    \/ TypeCommand
    \/ TypeArgument
    \/ TypePatch
    \/ \E reading \in Readings : BeforeTool(reading)

Spec == Init /\ [][Next]_vars

-----------------------------------------------------------------------------
\* The files the call writes, where the operating system finds them.
Written ==
    CASE call.field = "command" -> UNION {Writes(command) : command \in ToSet(call.line)}
      [] call.field = "patch"   -> {entry.path : entry \in {e \in ToSet(call.patch) : e.mark # "content"}}
      [] OTHER -> IF call.writes THEN {call.path} ELSE {}

Destination(word) ==
    Steps(IF Spelled[word].absolute THEN <<>> ELSE Reached(cwd), Spelled[word].segments, Links)

\* Is the file in the workspace and under a live guarded claim of another session?
ClaimedByOther(word) ==
    \E claim \in answer.reading.claims, path \in {Destination(word)} :
        /\ claim.hold = "other" /\ Within(path, Root) /\ path # Root
        /\ \/ claim.rest = SubSeq(path, Len(Root) + 1, Len(path))
           \/ IsGlob(claim.rest) /\ Within(path, Root \o Body(claim.rest))

Line(Holds(_)) == \A k \in 1 .. Len(call.line) : Sound(call.line[k]) /\ Holds(call.line[k])

\* A claim is what the guard can see: of the calls it can read, none that writes
\* a file another session has claimed is let through, and none is stopped that
\* does not.  The lines it misreads are the two exceptions named above.
GuardHonoursClaims ==
    answer # None /\ answer.reading.bound /\ ~answer.reading.refused =>
        /\ answer.decision = "allow" /\ Line(DestinationLast) =>
               \A word \in Written : ~ClaimedByOther(word)
        /\ answer.decision = "deny" /\ Line(OperandsApart) =>
               \E word \in Written : ClaimedByOther(word)
=============================================================================
