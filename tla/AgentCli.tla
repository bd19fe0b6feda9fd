------------------------------ MODULE AgentCli ------------------------------
(***************************************************************************)
(* The ephemeral command line front end: which launches are an agent's,    *)
(* how Bazel's command line is taken apart, and the exit code              *)
(* (server agent.rs and main.rs).                                          *)
(***************************************************************************)
EXTENDS Policy

\* detect_launch.  A launch is [name, environment, arguments].
DetectLaunch(launch) ==
    LET explicit == launch.arguments # <<>> /\ Head(launch.arguments) = Word("passthrough")
        rest == IF explicit THEN Tail(launch.arguments) ELSE launch.arguments
    IN  IF ~(launch.name \in {"bazel", "bazel.exe"} \/ launch.environment = "agent" \/ explicit)
        THEN [agent |-> FALSE, arguments |-> <<>>]
        ELSE [agent |-> TRUE,
              arguments |-> IF explicit /\ rest # <<>> /\ Head(rest) = Delimiter
                            THEN Tail(rest) ELSE rest]

NO_AGENT_MODE == Bare("--no-agent-mode")

\* discover_workspace: the nearest ancestor with a marker.
DiscoverWorkspace(fs, start) ==
    LET real == Canonicalize(fs, start)
        roots == {n \in 0 .. Len(real) : IsWorkspace(fs, SubSeq(real, 1, n))}
    IN  IF real = NotFound \/ roots = {} THEN NotFound ELSE SubSeq(real, 1, Max(roots))

(***************************************************************************)
(* parse_bazel_arguments: [error, startup, command, arguments, target,     *)
(* program].  An argument that is not UTF-8 has the value "bytes".         *)
(***************************************************************************)
Parsed(startup, command, arguments, target, program) ==
    [error |-> "ok", startup |-> startup, command |-> command, arguments |-> arguments,
     target |-> target, program |-> program]

First(arguments, wanted) ==
    Min({k \in DOMAIN arguments : arguments[k] \in wanted} \cup {Len(arguments) + 1})

Words(arguments) == {a \in ToSet(arguments) : a.form = "word"}

From(arguments, k) == SubSeq(arguments, k, Len(arguments))

\* For run, what follows the delimiter is the program's, and the first argument
\* without a dash is the target.
ParseRun(startup, arguments) ==
    LET delimiter == First(arguments, {Delimiter})
        own == SubSeq(arguments, 1, delimiter - 1)
        target == First(own, Words(own))
    IN  Parsed(startup, "run",
               SubSeq(own, 1, target - 1) \o From(own, target + 1),
               SubSeq(own, target, Min({target, Len(own)})), From(arguments, delimiter + 1))

ParseBazelArguments(arguments, policy) ==
    LET at == First(arguments, {Word(name) : name \in policy.allowed \cup policy.denied})
        startup == SubSeq(arguments, 1, at - 1)
        rest == From(arguments, at + 1)
        failed(error) == [Parsed(<<>>, "help", <<>>, <<>>, <<>>) EXCEPT !.error = error]
    IN  IF arguments \in {<<>>, <<Bare("--help")>>} THEN Parsed(<<>>, "help", <<>>, <<>>, <<>>)
        ELSE IF arguments = <<Bare("--version")>> THEN Parsed(<<>>, "version", <<>>, <<>>, <<>>)
        ELSE IF at > Len(arguments) THEN failed("no command")
        ELSE IF Word("bytes") \in ToSet(arguments) THEN failed("not UTF-8")
        ELSE IF arguments[at].value = "run" THEN ParseRun(startup, rest)
        ELSE Parsed(startup, arguments[at].value, rest, <<>>, <<>>)

(***************************************************************************)
(* invocation_exit_code and process_exit_code.  A termination is           *)
(* [kind, code].                                                           *)
(***************************************************************************)
InvocationExitCode(end) ==
    CASE end.kind = "exit" -> end.code
      [] end.kind = "signal" -> 128 + end.code
      [] end.kind = "timeout" -> 124
      [] end.kind = "cancelled" -> 130
      [] OTHER -> 1

ProcessExitCode(code) == IF code \in 0 .. 255 THEN code ELSE 1
=============================================================================
