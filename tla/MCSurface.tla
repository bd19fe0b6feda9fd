----------------------------- MODULE MCSurface ------------------------------
(***************************************************************************)
(* Scenarios for Surface: each lets the outside do what one part of the    *)
(* surface is about, with the rest at its simplest.                        *)
(***************************************************************************)
EXTENDS Surface

MCSlots == {1, 2}
MCKnown == {20241105, 20250326, 20250618, 20251125}
MCLatest == 20251125
MCLaunchDirectory == <<"ws", "pkg">>
MCScratch == <<"tmp", "agent">>
MCFixedBytes == [encoding \in Encodings |-> IF encoding = "toon" THEN 400 ELSE 500]

Given(parts) == [abs |-> TRUE, parts |-> parts]
Relative(parts) == [abs |-> FALSE, parts |-> parts]

\* The spellings of output bases, and values that are just names.
MCPathOf ==
    [base |-> Given(<<"data", "base">>), baseDots |-> Given(<<"data", "x", "..", ".", "base">>),
     baseLink |-> Given(<<"lnk", "out", "base">>), baseRelative |-> Relative(<<"out", "base">>),
     other |-> Given(<<"data", "other">>), top |-> Given(<<"ws", "..">>), dangling |-> Given(<<"dangling", "base">>)]

Names == DOMAIN MCPathOf \cup {
    "", "//:app", "//:lib", "blank", "nul", "bytes", "huge", "long", "opt", "proto", "text",
    "build", "test", "run", "query", "info", "lint", "passthrough", "8",
    "--bes_backend", "--bes_upload_mode", "--task:id", "--color", "x-bazel-mcp-invocation-id", "x-other"}

MCLengthOf == [name \in Names |-> CASE name = "huge" -> 9 [] name = "long" -> 5 [] OTHER -> 1]

\* /lnk leads to /ws and /ws/out to /data; /dangling leads nowhere.
FileSystem ==
    [dirs |-> {<<"ws">>, <<"ws", "pkg">>, <<"data">>, <<"home">>, <<"alt">>},
     links |-> <<"lnk">> :> <<"ws">> @@ <<"ws", "out">> :> <<"data">>
                 @@ <<"dangling">> :> <<"nowhere">>,
     files |-> <<"ws">> :> {"MODULE.bazel"} @@ <<"alt">> :> {"WORKSPACE"} @@ <<"home">> :> {"a.star"}]

\* PATH's first bazel is this program, under another name.
Host ==
    [executables |-> {"bazelisk", "bazel", "shim", "shim-link", "wrapper", "aspect"},
     identity |-> [x \in {"bazelisk", "bazel", "shim", "shim-link", "wrapper", "aspect", "gone"} |->
                      IF x = "shim-link" THEN "shim" ELSE x],
     wrappers |-> <<"alt">> :> "wrapper",
     path |-> [bazelisk |-> <<>>, bazel |-> <<"shim-link", "bazel">>, aspect |-> <<"aspect">>],
     environment |-> {"PATH", "HOME", "SECRET", "CC", "BAZEL_MCP_MODE"}]

Exited(code) == [kind |-> "exit", code |-> code]
Ended(kind, code) == [kind |-> kind, code |-> code]

Small == [success |-> TRUE, truncated |-> FALSE, tables |-> FALSE, hint |-> FALSE,
          headline |-> 40, command |-> 5, target |-> 0, excerpts |-> <<>>, samples |-> <<>>, diagnostics |-> <<>>]
Failure == [Small EXCEPT !.success = FALSE, !.tables = TRUE]

\* A version's line of output, and the ways a probe ends.
Printed(major) == [end |-> "success", stdout |-> <<[prefix |-> "bazel ", major |-> major, dot |-> TRUE]>>,
                   stderr |-> <<>>]
ProbeFailed(end) == [end |-> end, stdout |-> <<>>, stderr |-> <<>>]

Build == [tool |-> "bazel.run", task |-> FALSE, capable |-> FALSE, decodes |-> TRUE,
          workspace |-> Given(<<"ws">>), command |-> "build", startup |-> <<>>,
          arguments |-> <<Word("//:app")>>, target |-> <<>>, program |-> <<>>, timeout |-> <<>>]

Elsewhere == [Build EXCEPT !.workspace = Given(<<"alt">>)]

Quick == [DefaultConfig EXCEPT !.allowUnsupported = TRUE]

\* A server that answers, runs one build and says how it went.
Plain == [fs |-> FileSystem, host |-> Host, raw |-> Quick,
          launch |-> [name |-> "bazel-mcp", environment |-> "", arguments |-> <<>>],
          versions |-> {20250618}, minInits |-> 1, maxInits |-> 1, calls |-> <<{Build}>>,
          cancels |-> FALSE, probes |-> {Printed(8)}, tasks |-> {},
          ends |-> {Exited(0), Ended("spawn failure", 0), Ended("cancelled", 0)},
          summaries |-> {Small, Failure}]

(***************************************************************************)
(* Dispatch: every policy, dialect and kind of call, before and after the  *)
(* session is initialized, and once more while tasks are in flight.        *)
(***************************************************************************)
DispatchCalls ==
    {[Build EXCEPT !.task = task, !.capable = capable] : task, capable \in BOOLEAN}
        \cup {[Build EXCEPT !.tool = "bazel.inspect", !.task = task] : task \in BOOLEAN}
        \cup {[Build EXCEPT !.decodes = FALSE, !.task = task] : task \in BOOLEAN}

Dispatch ==
    {[Plain EXCEPT !.raw.execution = policy, !.versions = {20250618, 20251125, 20260630, 20270101},
                   !.minInits = 0, !.maxInits = 2, !.calls = <<DispatchCalls, {Build}>>, !.ends = {Exited(0)},
                   !.tasks = [method : TaskMethods, capable : BOOLEAN],
                   !.summaries = {Small}] : policy \in ExecutionPolicies}

(***************************************************************************)
(* Admission: calls against configurations.                                *)
(***************************************************************************)
RunCall == [Build EXCEPT !.command = "run", !.arguments = <<Setting("--config", "opt")>>,
                         !.target = <<Word("//:app")>>,
                         !.program = <<Bare("--color"), Word("opt"), Delimiter>>]

With(arguments) == [Build EXCEPT !.arguments = arguments]
Base(values) == [Build EXCEPT !.startup = [k \in DOMAIN values |-> Setting("--output_base", values[k])]]

Calls ==
    {Build, RunCall, [Build EXCEPT !.command = "test", !.timeout = <<0>>],
     [Build EXCEPT !.command = "info", !.timeout = <<100000>>], [Build EXCEPT !.command = "shutdown"],
     [Build EXCEPT !.command = "unheard"], [Build EXCEPT !.command = "lint"],
     [Build EXCEPT !.command = "lint", !.arguments = <<Bare("--fix")>>],
     [Build EXCEPT !.command = "query", !.arguments = <<Setting("--output", "proto")>>],
     [Build EXCEPT !.command = "query", !.arguments = <<Bare("--output"), Word("proto")>>],
     [Build EXCEPT !.command = "query", !.arguments = <<Setting("--output", "text")>>],
     [RunCall EXCEPT !.target = <<>>], [RunCall EXCEPT !.target = <<Word("blank")>>],
     [RunCall EXCEPT !.target = <<Bare("--color")>>], [RunCall EXCEPT !.arguments = <<Word("//:lib")>>],
     [RunCall EXCEPT !.arguments = <<Delimiter>>], [Build EXCEPT !.program = <<Word("opt")>>],
     With(<<Setting("--color", "opt")>>), With(<<Bare("--color"), Word("opt")>>),
     With(<<Setting("--bes_backend", "opt")>>), With(<<Setting("--bes_upload_mode", "opt")>>),
     With(<<Setting("--bazel-flag", "--color")>>), With(<<Setting("--bazel-flag", "--bes_backend")>>),
     With(<<Setting("--bes-header", "x-bazel-mcp-invocation-id")>>),
     With(<<Setting("--bes-header", "x-other")>>), With(<<Bare("--bazel-flag"), Bare("--color")>>),
     With(<<Word("nul")>>), With(<<Word("huge")>>), With(<<Word("long"), Word("long")>>),
     With(<<Word("opt"), Word("opt"), Word("opt"), Word("opt")>>),
     [Build EXCEPT !.startup = <<Setting("--color", "opt")>>],
     [Build EXCEPT !.startup = <<Word("run"), Word("//:lib")>>],
     [Build EXCEPT !.startup = <<Bare("--output_base")>>], Base(<<"base", "other">>),
     Base(<<"dangling">>), [RunCall EXCEPT !.startup = <<Bare("--output_base"), Word("base")>>],
     With(<<Setting("--bazel-flag", "--task:id")>>), [Build EXCEPT !.startup = <<Bare("--output_base"), Word("base")>>],
     [Build EXCEPT !.workspace = Relative(<<"ws">>)], [Build EXCEPT !.workspace = Given(<<"gone">>)],
     [Build EXCEPT !.workspace = Given(<<"home">>)], [Build EXCEPT !.workspace = Given(<<"lnk">>)],
     Elsewhere}

Permissive ==
    [Quick EXCEPT !.allowed = @ \cup {"run", "lint"}, !.denied = @ \ {"run"}, !.environment = {"CC"},
                  !.allowedRoots = {Given(<<"lnk">>), Given(<<"home">>)},
                  !.cacheRoot = Given(<<"data", "cache">>)]

Admitting ==
    {Quick, [Permissive EXCEPT !.transport = "bes"], [Permissive EXCEPT !.outputUserRoot = TRUE],
     [Permissive EXCEPT !.transport = "fifo", !.outputUserRoot = TRUE],
     [Permissive EXCEPT !.aspectCommands = {"build", "test", "lint", "info"}, !.outputUserRoot = TRUE],
     [Permissive EXCEPT !.aspectCommands = {"lint"}, !.mayMutate = TRUE,
                        !.bazelExecutable = "bazelisk", !.transport = "fifo"],
     [Quick EXCEPT !.bazelExecutable = "gone"],
     [Quick EXCEPT !.aspectCommands = {"build"}, !.aspectExecutable = "gone"]}

Admission == {[Plain EXCEPT !.raw = raw, !.calls = <<Calls>>] : raw \in Admitting}

(***************************************************************************)
(* Output bases: two builds at once, every pair of spellings.  A third may *)
(* be refused for want of a place in the queue.                            *)
(***************************************************************************)
Spellings == {Base(<<value>>) : value \in DOMAIN MCPathOf \ {"dangling"}}
                 \cup {[Build EXCEPT !.workspace = Given(<<"lnk">>)], Build}

Locking == {[Plain EXCEPT !.calls = <<Spellings, Spellings>>, !.ends = {Exited(0)}],
            [Plain EXCEPT !.raw.pending = 1, !.raw.concurrency = 1, !.calls = <<{Build}, {Build}>>]}

(***************************************************************************)
(* Probing: three requests in two slots share the cache.                   *)
(***************************************************************************)
Probing ==
    {[Plain EXCEPT !.raw = DefaultConfig, !.calls = <<{Build}, {Build}, {Build, Elsewhere}>>,
                   !.ends = {Exited(0), Ended("cancelled", 0)}, !.cancels = cancels,
                   !.probes = {Printed(8), Printed(6), ProbeFailed("timeout"),
                               [Printed(9) EXCEPT !.stdout = <<>>, !.stderr = <<
                                   [prefix |-> "warning: ", major |-> 7, dot |-> FALSE],
                                   [prefix |-> "release ", major |-> 9, dot |-> TRUE]>>]}]
        : cancels \in BOOLEAN}

(***************************************************************************)
(* Packing: results at, above and far above their limits.                  *)
(***************************************************************************)
Full == [Small EXCEPT !.truncated = TRUE, !.tables = TRUE, !.hint = TRUE, !.headline = 300,
                      !.samples = <<400, 300>>, !.diagnostics = <<500, 400, 200>>]

\* A run of a target with a long label: nothing else is to be taken from the second.
RunOf(label, lines) == [Small EXCEPT !.headline = 120, !.target = label, !.excerpts = lines]

Large == {Full, [Full EXCEPT !.success = FALSE, !.diagnostics = <<4000, 4000>>],
          [Small EXCEPT !.headline = 1000, !.diagnostics = <<643>>],
          [Small EXCEPT !.headline = 1000, !.diagnostics = <<644>>],
          [Small EXCEPT !.headline = 900, !.command = 800, !.tables = TRUE],
          RunOf(20, <<900, 400, 400>>), RunOf(500, <<>>), [RunOf(500, <<>>) EXCEPT !.headline = 90],
          [Small EXCEPT !.success = FALSE, !.headline = 1000, !.diagnostics = <<4000, 3000>>]}

Packing == {[Plain EXCEPT !.raw = [Permissive EXCEPT !.encoding = encoding],
                          !.ends = {Exited(0), Exited(1)}, !.calls = <<{Build, RunCall}>>,
                          !.summaries = Large] : encoding \in Encodings}

(***************************************************************************)
(* The agent's command line, and the ways Bazel ends.                      *)
(***************************************************************************)
ArgumentLists == {
    <<>>, <<Bare("--version")>>, <<Bare("--help")>>, <<NO_AGENT_MODE, Word("build")>>,
    <<Word("passthrough"), Delimiter, Word("build"), Delimiter, Word("//:app")>>,
    <<Setting("--output_base", "base"), Word("build"), Setting("--config", "opt"), Word("//:app")>>,
    <<Word("run"), Setting("--config", "opt"), Word("//:app"), Delimiter, Bare("--color"), Delimiter>>,
    <<Word("run"), Word("//:app"), Word("//:lib")>>, <<Word("run"), Word("//:app")>>,
    <<Word("opt")>>, <<Word("opt"), Word("build")>>, <<Word("build"), Word("bytes")>>, <<Word("build"), Setting("--color", "opt")>>}

AgentEnds == {Exited(0), Exited(3), Exited(255), Ended("signal", 9), Ended("timeout", 0),
              Ended("cancelled", 0), Ended("output limit", 0), Ended("spawn failure", 0)}

AgentBase == [Plain EXCEPT !.raw = Permissive, !.launch.name = "bazel", !.calls = <<>>, !.ends = AgentEnds]

Agents ==
    {[AgentBase EXCEPT !.launch.arguments = arguments, !.cancels = TRUE] : arguments \in ArgumentLists}
    \cup {[AgentBase EXCEPT !.launch = [name |-> "bazel-mcp", environment |-> "agent",
                                        arguments |-> <<Word("build")>>], !.summaries = Large],
          [AgentBase EXCEPT !.raw.bazelExecutable = "shim-link"],
          [AgentBase EXCEPT !.host.path.bazel = <<"shim-link">>],
          [AgentBase EXCEPT !.raw.concurrency = 0],
          [AgentBase EXCEPT !.fs.files = <<>>]}

(***************************************************************************)
(* Configurations the server refuses, or starts with, one setting apart.   *)
(***************************************************************************)
Raws ==
    {[Quick EXCEPT !.unknown = {"tiemout"}], [Quick EXCEPT !.concurrency = 0], [Quick EXCEPT !.pending = 3],
     [Quick EXCEPT !.maximumTimeout = 0, !.defaultTimeout = 0], [Quick EXCEPT !.defaultTimeout = 7201],
     [Quick EXCEPT !.maximumRunOutput = 0], [Quick EXCEPT !.versionTimeout = 0],
     [Quick EXCEPT !.idleTimeout = 0], [Quick EXCEPT !.aspectCommands = {"lint it"}],
     [Quick EXCEPT !.aspectCommands = {"run"}], [Quick EXCEPT !.aspectCommands = {"lint"}],
     [DefaultConfig EXCEPT !.supported = {}], [Quick EXCEPT !.redactionValid = FALSE],
     [Quick EXCEPT !.retentionValid = FALSE], [Quick EXCEPT !.executablesLead = FALSE],
     [Quick EXCEPT !.starlarkLimitsValid = FALSE], [Quick EXCEPT !.pollInterval = 99],
     [Quick EXCEPT !.progressInterval = 0], [Quick EXCEPT !.taskTtl = 0],
     [Quick EXCEPT !.starlarkFiles = <<Relative(<<"a.star">>), Given(<<"home", "a.star">>)>>],
     [Quick EXCEPT !.starlarkFiles = <<Relative(<<"b.star">>)>>],
     [Quick EXCEPT !.starlarkFiles = <<Relative(<<"a.star">>)>>],
     [Quick EXCEPT !.allowedRoots = {Given(<<"gone">>)}],
     [Quick EXCEPT !.cacheRoot = Given(<<"dangling">>)],
     [Quick EXCEPT !.allowedRoots = {Given(<<"lnk">>)}, !.cacheRoot = Given(<<"ws", "cache">>)],
     [Quick EXCEPT !.allowedRoots = {Relative(<<"..">>)}, !.cacheRoot = Relative(<<"..", "cache">>)],
     [Quick EXCEPT !.allowedRoots = {Given(<<"data">>)}, !.cacheRoot = Given(<<"lnk", "out", "x", "..", "c">>)],
     [Quick EXCEPT !.allowedRoots = {Given(<<"ws">>)}, !.cacheRoot = Given(<<"ws", "out", "c">>)]}

Configuring == {[Plain EXCEPT !.raw = raw, !.calls = <<>>] : raw \in Raws}

MCScenarios ==
    Dispatch \cup Admission \cup Locking \cup Probing \cup Packing \cup Agents \cup Configuring
=============================================================================
