--------------------------- MODULE ChildProcess ----------------------------
(***************************************************************************)
(* The process an accepted invocation runs: the driver, its command line   *)
(* and environment, and the capture of the Build Event Protocol that the   *)
(* runner starts beside it (driver.rs, execution.rs start_execution).      *)
(*                                                                         *)
(* A token of a command line is [by, arg]: who contributed it, and the     *)
(* argument.  The values the server fills in are names: "id" for the       *)
(* invocation's identifier, "bep" and "fifo" for its evidence file and its *)
(* pipe, "endpoint" for the loopback event service.                        *)
(***************************************************************************)
EXTENDS Policy

By(who, arguments) == [k \in DOMAIN arguments |-> [by |-> who, arg |-> arguments[k]]]

Server(arguments) == By("server", arguments)
Caller(arguments) == By("caller", arguments)

\* ExecutionDriver: what runs the command.
BazelDriver(executable) == [aspect |-> FALSE, executable |-> executable]
AspectDriver(executable) == [aspect |-> TRUE, executable |-> executable]

CommandClass(driver, command) ==
    IF driver.aspect /\ command \in {"build", "test", "lint"}
    THEN "build_like" ELSE Class(command)

CapturesBep(class) == class \in {"build_like", "run"}

Transport(driver, config) == IF driver.aspect THEN "bes" ELSE config.transport

(***************************************************************************)
(* The flags the server sets.                                              *)
(***************************************************************************)
Quiet == <<Setting("--tool_tag", "bazel-mcp"), Setting("--color", "no"),
           Setting("--curses", "no"), Setting("--show_progress", "false"),
           Setting("--show_result", "0")>>

TestFlags(command) ==
    IF command \in {"test", "coverage"}
    THEN <<Setting("--test_output", "errors"), Setting("--test_summary", "short")>> ELSE <<>>

RunFlags(command) ==
    IF command = "run"
    THEN <<Setting("--run", "true"), Setting("--omit_run_args", "true"),
           Bare("--noexperimental_run_bep_event_include_residue"),
           Setting("--subcommands", "false")>> ELSE <<>>

StartupFlags(config) ==
    IF config.outputUserRoot
    THEN <<Setting("--output_user_root", "root"), Setting("--max_idle_secs", "idle")>> ELSE <<>>

\* probe_bazel_server_pid: Bazel is asked for its server's process under the startup
\* options the child will have.  Only a valid identifier leads to a pipe.
ServerPidLine(config, request) ==
    Server(StartupFlags(config)) \o Caller(request.startup)
      \o Server(<<Word("info"), Word("server_pid")>>)

ServerPidEnds == {"pid", "no pid", "failed", "timed out", "cancelled"}

Nested(flag, arguments) ==
    [k \in DOMAIN arguments |->
        Setting(flag, IF arguments[k].form = "word" THEN arguments[k].value
                      ELSE arguments[k].flag)]

\* Where Bazel is told to send its events: fifo is TRUE when the pipe was made and
\* the Bazel server's process identifier found.
EventFlags(transport, fifo) ==
    CASE transport = "bes" -> <<Setting("--bes_backend", "endpoint"),
                                Setting("--bes_upload_mode", "wait_for_upload_complete")>>
      [] OTHER -> <<Setting("--build_event_binary_file",
                            IF transport = "fifo" /\ fifo THEN "fifo" ELSE "bep"),
                    Setting("--build_event_binary_file_path_conversion", "false")>>

BazelLine(config, request, class, fifo) ==
    Server(StartupFlags(config)) \o Caller(request.startup) \o Server(<<Word(request.command)>>)
      \o (IF CapturesBep(class)
          THEN Server(<<Setting("--invocation_id", "id")>>
                        \o EventFlags(config.transport, fifo) \o Quiet
                        \o TestFlags(request.command) \o RunFlags(request.command))
          ELSE <<>>)
      \o Caller(request.arguments)
      \o (IF request.command = "run"
          THEN Caller(request.target) \o Server(<<Delimiter>>) \o Caller(request.program)
          ELSE <<>>)

AspectLine(config, request, class) ==
    Server(<<Setting("--task:id", "id"), Setting("--task:timing-summary", "none"),
             Word(request.command)>> \o Nested("--bazel-startup-flag", StartupFlags(config)))
      \o Caller(Nested("--bazel-startup-flag", request.startup))
      \o (IF class = "build_like"
          THEN Server(Nested("--bazel-flag", <<Setting("--invocation_id", "id")>> \o Quiet
                                                 \o TestFlags(request.command))
                        \o <<Setting("--bes-backend", "endpoint"),
                             Setting("--bes-header", "x-bazel-mcp-invocation-id")>>)
          ELSE <<>>)
      \o Caller(request.arguments)

\* ExecutionPlan::new: the time asked for, at least a second, at most the maximum.
Timeout(config, request) ==
    Min({Max({IF request.timeout = <<>> THEN config.defaultTimeout ELSE Head(request.timeout), 1}),
         config.maximumTimeout})

\* The child: its executable, command line and environment.
Child(host, config, driver, request, fifo) ==
    LET class == CommandClass(driver, request.command)
    IN  [executable |-> driver.executable,
         line |-> IF driver.aspect THEN AspectLine(config, request, class)
                  ELSE BazelLine(config, request, class, fifo),
         environment |-> FilteredEnvironment(host, config.policy)
                            \cup (IF driver.aspect THEN {"BAZEL_REAL"} ELSE {}),
         timeout |-> Timeout(config, request)]

\* The capture the runner starts: "none" when the command has no events.
Capture(config, driver, request, fifo) ==
    LET class == CommandClass(driver, request.command)
        transport == Transport(driver, config)
    IN  IF ~CapturesBep(class) THEN "none"
        ELSE IF transport = "bes" \/ (transport = "fifo" /\ fifo) THEN transport
        ELSE "tail"

\* The event service's endpoint is asked for and there is none.
EndpointMissing(config, driver, request, bes) ==
    /\ ~bes
    /\ IF driver.aspect THEN CommandClass(driver, request.command) = "build_like"
       ELSE CapturesBep(Class(request.command)) /\ config.transport = "bes"

(***************************************************************************)
(* detect_bazel_version and parse_bazel_version.  A probe ends by failing  *)
(* to start, a timeout, a failed exit or an output; a line of output is    *)
(* [prefix, major, dot], where major is what stands in front of the first  *)
(* dot once everything before the first digit is trimmed, -1 for no number.*)
(***************************************************************************)
KnownPrefixes == {"bazel ", "Build label: ", "release ", ""}

LineMajor(line) ==
    IF line.dot THEN line.major
    ELSE IF line.prefix \in KnownPrefixes THEN line.major ELSE -1

ParseBazelVersion(lines) ==
    LET found == {k \in DOMAIN lines : LineMajor(lines[k]) >= 0}
    IN  IF found = {} THEN -1 ELSE LineMajor(lines[Min(found)])

\* [major, error]: an output is used only when the process succeeded, standard
\* error only when standard output is empty.
DetectBazelVersion(outcome) ==
    CASE outcome.end # "success" -> [major |-> -1, error |-> outcome.end]
      [] OTHER -> LET lines == IF outcome.stdout = <<>> THEN outcome.stderr ELSE outcome.stdout
                      major == ParseBazelVersion(lines)
                  IN  [major |-> major, error |-> Check(major >= 0, "Unrecognized")]
=============================================================================
