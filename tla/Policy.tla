------------------------------- MODULE Policy -------------------------------
(***************************************************************************)
(* The bazel-mcp-policy crate: which commands, arguments, workspaces,      *)
(* executables and environment variables a request may use.                *)
(*                                                                         *)
(* An argument is [flag, form, value]: "--flag" (bare), "--flag=value"     *)
(* (eq), a word without a leading dash, or "--" itself.  A value is a      *)
(* name; PathOf says which path it spells where it spells one, and         *)
(* LengthOf how many bytes it has.  The value of --bazel-flag=--x and of   *)
(* --bazel-flag=--x=y is "--x", since both forms are treated alike.        *)
(***************************************************************************)
EXTENDS Paths

CONSTANTS
    MAX_ARGUMENT_COUNT, MAX_ARGUMENT_BYTES, MAX_ARGUMENTS_BYTES,
    PathOf,      \* value -> given path
    LengthOf     \* value -> bytes

ASSUME PolicyAssumption ==
    /\ {MAX_ARGUMENT_COUNT, MAX_ARGUMENT_BYTES, MAX_ARGUMENTS_BYTES} \subseteq Nat
    /\ \A value \in DOMAIN PathOf : PathOf[value].parts \in Seq(STRING)

Bare(flag) == [flag |-> flag, form |-> "bare", value |-> ""]
Setting(flag, value) == [flag |-> flag, form |-> "eq", value |-> value]
Word(value) == [flag |-> "", form |-> "word", value |-> value]
Delimiter == Bare("--")

IsFlag(argument, flag) == argument.form # "word" /\ argument.flag = flag

RESERVED_FLAGS == {
    "--build_event_binary_file", "--build_event_binary_file_path_conversion",
    "--build_event_publish_all_actions", "--build_event_json_file",
    "--build_event_text_file", "--color", "--curses", "--invocation_id",
    "--show_progress", "--show_result", "--subcommands", "--nosubcommands", "-s",
    "--run", "--norun", "--script_path", "--omit_run_args", "--noomit_run_args",
    "--experimental_run_bep_event_include_residue",
    "--noexperimental_run_bep_event_include_residue", "--run_under", "--run_env",
    "--test_output", "--test_summary", "--tool_tag"}

\* A check is "ok" or the name of an error; the first error ends the request.
Check(condition, error) == IF condition THEN "ok" ELSE error

FirstError(checks) ==
    LET failed == {k \in DOMAIN checks : checks[k] # "ok"}
    IN  IF failed = {} THEN "ok" ELSE checks[Min(failed)]

(***************************************************************************)
(* BazelCommand::class.  A name the enumeration does not know is custom.   *)
(***************************************************************************)
Class(command) ==
    CASE command \in {"build", "test", "coverage", "mobile-install"} -> "build_like"
      [] command = "run" -> "run"
      [] command \in {"query", "cquery", "aquery"} -> "query"
      [] command \in {"info", "version", "help", "mod"} -> "informational"
      [] command \in {"clean", "shutdown"} -> "unsafe"
      [] OTHER -> "unknown"

DefaultAllowed ==
    {"aquery", "build", "coverage", "cquery", "help", "info", "mod", "query", "test", "version"}
DefaultDenied == {"clean", "fetch", "mobile-install", "run", "shutdown", "sync"}

ValidateCommand(policy, command) ==
    FirstError(<<Check(command \notin policy.denied, "CommandDenied"),
                 Check(command \in policy.allowed, "CommandUnsupported")>>)

(***************************************************************************)
(* Arguments.                                                              *)
(***************************************************************************)
Bytes(argument) == LengthOf[argument.value]

ValidateArgumentShape(arguments) ==
    FirstError(<<
        Check(Len(arguments) <= MAX_ARGUMENT_COUNT, "TooManyArguments"),
        FirstError([k \in DOMAIN arguments |-> FirstError(<<
            Check(arguments[k].value # "nul", "InvalidArgument"),
            Check(Bytes(arguments[k]) <= MAX_ARGUMENT_BYTES, "ArgumentTooLong"),
            Check(FoldLeft(LAMBDA sum, a : sum + Bytes(a), 0, SubSeq(arguments, 1, k))
                      <= MAX_ARGUMENTS_BYTES, "ArgumentsTooLarge")>>)])>>)

\* Seeded fault: only the shape of arguments is checked.
ValidateArgumentsByShape(arguments) == ValidateArgumentShape(arguments)

ValidateArguments(arguments) ==
    FirstError(<<
        ValidateArgumentShape(arguments),
        Check(\A a \in ToSet(arguments) : a.flag \notin RESERVED_FLAGS, "ReservedFlag")>>)

HeaderSpellings == {"x-bazel-mcp-invocation-id", "X-Bazel-MCP-Invocation-ID"}

\* Aspect's own reserved arguments, and the server's flags nested in --bazel-flag.
AspectReserved(a) ==
    \/ a.flag \in {"--task:id", "--task:timing-summary", "--bazel-startup-flag"}
    \/ a = Bare("--bazel-flag")
    \/ a.flag = "--bazel-flag" /\ a.value \in {"--bes_backend", "--bes_upload_mode"}
    \/ a = Bare("--bes-header")
    \/ a.flag = "--bes-header" /\ a.value \in HeaderSpellings

ValidateAspectArguments(command, arguments, mayMutate) ==
    FirstError([k \in DOMAIN arguments |->
        LET a == arguments[k]
        IN  FirstError(<<
                Check(~AspectReserved(a), "AspectReservedArgument"),
                Check(a.flag # "--bazel-flag" \/ a.value \notin RESERVED_FLAGS, "ReservedFlag"),
                Check(command # "lint" \/ mayMutate \/ a.flag # "--fix",
                      "AspectWorkspaceMutationDenied")>>)])

\* For bazel run: one target, and options only in front of it.  A target of
\* blanks is "blank"; one with a leading dash is not a word.
ValidateRunArguments(request) ==
    IF request.command # "run"
    THEN Check(request.target = <<>> /\ request.program = <<>>, "RunFieldsOnNonRunCommand")
    ELSE FirstError(<<
            Check(request.target # <<>> /\ request.target # <<Word("blank")>>,
                  "RunTargetRequired"),
            ValidateArgumentShape(request.target),
            Check(\A a \in ToSet(request.target) : a.form = "word", "InvalidRunTarget"),
            Check(\A a \in ToSet(request.arguments) : a # Delimiter /\ a.form # "word",
                  "RunArgumentsMustBeFlags"),
            ValidateArgumentShape(request.program)>>)

\* The positions a scan for a valued option takes as values of the bare form.
ValuePositions(arguments, flag) ==
    LET value[k \in 1 .. Len(arguments)] ==
            k > 1 /\ arguments[k - 1] = Bare(flag) /\ ~value[k - 1]
    IN  {k \in DOMAIN arguments : value[k]}

\* The positions that hold the option's values: after the bare form, whatever is
\* there, and in the other form where the scan reads it as an option.
OptionAt(arguments, flag) ==
    LET taken == ValuePositions(arguments, flag)
    IN  taken \cup {k \in DOMAIN arguments \ taken :
                        arguments[k].flag = flag /\ arguments[k].form = "eq"}

\* The value there: a flag taken as a value is the value itself.
ValueAt(arguments, flag, k) ==
    IF k \in ValuePositions(arguments, flag) /\ arguments[k].form # "word"
    THEN arguments[k].flag ELSE arguments[k].value

\* The path a value spells: the listed one, or a name in the current directory.
PathFrom(value) ==
    IF value \in DOMAIN PathOf THEN PathOf[value] ELSE [abs |-> FALSE, parts |-> <<value>>]

BinaryFormats == {"proto", "streamed_proto", "jsonproto", "streamed_jsonproto"}

ValidateQueryArguments(command, arguments) ==
    Check(Class(command) # "query"
              \/ \A k \in OptionAt(arguments, "--output") :
                     ValueAt(arguments, "--output", k) \notin BinaryFormats,
          "IncompatibleQueryOutput")

(***************************************************************************)
(* effective_output_base: the canonical path --output_base selects, if any *)
(* is selected.  Result: [error, base], where base is <<>> or <<path>>.    *)
(***************************************************************************)
MissingValue(arguments, flag) ==
    arguments # <<>> /\ Last(arguments) = Bare(flag)
        /\ Len(arguments) \notin ValuePositions(arguments, flag)

SelectedBase(fs, workspace, given) ==
    CanonicalizeWithMissingTail(fs, Absolute(given, workspace))

EffectiveOutputBase(fs, workspace, startup) ==
    LET at == OptionAt(startup, "--output_base")
    IN  IF at = {} THEN [error |-> Check(~MissingValue(startup, "--output_base"),
                                         "MissingOutputBaseValue"), base |-> <<>>]
        ELSE LET base == SelectedBase(fs, workspace,
                                     PathFrom(ValueAt(startup, "--output_base", Min(at))))
             IN  [error |-> FirstError(<<
                      Check(base # NotFound, "Io"),
                      Check(Cardinality(at) = 1, "RepeatedOutputBase"),
                      Check(~MissingValue(startup, "--output_base"), "MissingOutputBaseValue")>>),
                  base |-> <<base>>]

(***************************************************************************)
(* Workspaces, executables and the environment.                            *)
(***************************************************************************)
\* validate_workspace: [error, workspace].
ValidateWorkspace(fs, given, roots) ==
    LET real == Canonicalize(fs, given.parts)
    IN  [error |-> FirstError(<<
            Check(given.abs, "WorkspaceNotAbsolute"),
            Check(real # NotFound, "Io"),
            Check(roots = {} \/ \E root \in roots :
                      Canonicalize(fs, root) # NotFound /\ Within(real, Canonicalize(fs, root)),
                  "WorkspaceNotAllowed"),
            Check(IsWorkspace(fs, real), "NotBazelWorkspace")>>),
         workspace |-> real]

\* An executable is a name; Identity gives the file it leads to, so that a link to
\* the shim and the shim itself are the same.  host says which executables exist:
\* [executables, identity, wrappers, path], path being PATH's candidates by name.
IsExcluded(host, candidate, excluded) ==
    excluded # "none" /\ host.identity[candidate] = host.identity[excluded]

Candidates(host, workspace) ==
    (IF workspace \in DOMAIN host.wrappers /\ host.wrappers[workspace] \in host.executables
     THEN <<host.wrappers[workspace]>> ELSE <<>>)
        \o host.path["bazelisk"] \o host.path["bazel"]

\* resolve_bazel_executable_excluding: [error, executable].
ResolveBazelExecutable(host, workspace, configured, excluded) ==
    IF configured # "none"
    THEN [error |-> FirstError(<<
              Check(configured \in host.executables, "ExecutableNotFound"),
              Check(~IsExcluded(host, configured, excluded), "ExecutableRecursion")>>),
          executable |-> configured]
    ELSE LET candidates == Candidates(host, workspace)
             usable == {k \in DOMAIN candidates : ~IsExcluded(host, candidates[k], excluded)}
         IN  IF usable = {} THEN [error |-> "ExecutableNotFound", executable |-> "none"]
             ELSE [error |-> "ok", executable |-> candidates[Min(usable)]]

ResolveAspectExecutable(host, configured) ==
    LET found == IF configured # "none" THEN <<configured>> ELSE host.path["aspect"]
    IN  IF found # <<>> /\ Head(found) \in host.executables
        THEN [error |-> "ok", executable |-> Head(found)]
        ELSE [error |-> "AspectExecutableNotFound", executable |-> "none"]

ALWAYS_ALLOWED == {"HOME", "PATH", "TMPDIR", "TEMP", "TMP", "USER"}

\* filtered_environment on a POSIX host: names are compared exactly.
FilteredEnvironment(host, policy) ==
    host.environment \cap (ALWAYS_ALLOWED \cup policy.environment)
=============================================================================
