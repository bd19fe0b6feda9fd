---------------------------- MODULE ServerConfig ----------------------------
(***************************************************************************)
(* ValidatedServerConfig::load: the raw settings of the configuration file *)
(* and the command line become a configuration, or the server does not     *)
(* start (server config.rs, service.rs RunnerConfig, policy config.rs).    *)
(*                                                                         *)
(* A raw configuration is a record of settings.  Its paths are given       *)
(* paths, relative ones to the launch directory.                           *)
(***************************************************************************)
EXTENDS ChildProcess

CONSTANT LaunchDirectory

ASSUME LaunchAssumption == LaunchDirectory \in Seq(STRING)

(***************************************************************************)
(* The defaults, with the settings this project tells apart.  The settings *)
(* of the subsystems are flattened into one record; times are in seconds.  *)
(***************************************************************************)
DefaultPolicy ==
    [allowedRoots |-> {}, allowed |-> DefaultAllowed, denied |-> DefaultDenied,
     environment |-> {}, redactionValid |-> TRUE, bazelExecutable |-> "none"]

DefaultAspect == [aspectCommands |-> {}, aspectExecutable |-> "none", mayMutate |-> FALSE]

DefaultRunner ==
    [defaultTimeout |-> 1800, maximumTimeout |-> 7200, maximumRunOutput |-> 268435456,
     concurrency |-> 4, pending |-> 256, outputUserRoot |-> FALSE, idleTimeout |-> 60,
     supported |-> {8, 9}, allowUnsupported |-> FALSE, versionTimeout |-> 30,
     transport |-> "tail", starlarkFiles |-> <<>>, starlarkLimitsValid |-> TRUE]

DefaultMcp ==
    [progressInitial |-> 30, progressInterval |-> 60, encoding |-> "toon",
     execution |-> "auto", taskTtl |-> 86400, pollInterval |-> 2000]

\* "unknown" lists keys no subsystem claims.
DefaultConfig ==
    DefaultPolicy @@ DefaultAspect @@ DefaultRunner @@ DefaultMcp
      @@ [unknown |-> {}, cacheRoot |-> [abs |-> TRUE, parts |-> <<"home", "cache">>],
          executablesLead |-> TRUE, configDirectory |-> <<"home">>, retentionValid |-> TRUE]

GivenCanonical(fs, given) ==
    CanonicalizeWithMissingTail(fs, Absolute(given, LaunchDirectory))

\* A route is the name of a command: not empty, no option, one word.
HasInvalidCommand(commands) == commands \cap {"", "-lint", "lint it"} # {}

\* RunnerConfig::validate.
ValidateRunner(raw) ==
    FirstError(<<
        Check(raw.concurrency > 0, "concurrency"),
        Check(raw.pending >= raw.concurrency, "pending"),
        Check(raw.maximumTimeout > 0, "maximum timeout"),
        Check(raw.maximumRunOutput > 0, "run output"),
        Check(raw.defaultTimeout <= raw.maximumTimeout, "default timeout"),
        Check(raw.versionTimeout > 0, "version timeout"),
        Check(raw.idleTimeout > 0, "idle timeout"),
        Check(~HasInvalidCommand(raw.aspectCommands), "aspect command"),
        Check("run" \notin raw.aspectCommands, "aspect run"),
        Check(raw.aspectCommands \subseteq raw.allowed \ raw.denied, "aspect policy"),
        Check(raw.allowUnsupported \/ raw.supported # {}, "versions")>>)

NonzeroDuration(seconds, name) == Check(seconds > 0, name)

ValidateMcp(raw) ==
    FirstError(<<
        Check(raw.pollInterval \in 100 .. 60000, "poll interval"),
        NonzeroDuration(raw.progressInitial, "progress"),
        NonzeroDuration(raw.progressInterval, "progress"),
        NonzeroDuration(raw.taskTtl, "task ttl")>>)

\* canonicalize_starlark_files: every file, relative to the configuration file's
\* directory, leads to a regular file, and no two lead to the same one.
RealFile(fs, path) == Append(Real(fs, Front2(path)), Last(path))

IsFile(fs, file) == Last(file) \in FilesIn(fs, Front2(file))

ValidateStarlarkFiles(fs, files, base) ==
    LET real == [k \in DOMAIN files |-> RealFile(fs, Absolute(files[k], base))]
    IN  FirstError([k \in DOMAIN files |-> FirstError(<<
            Check(IsFile(fs, real[k]), "reducer file"),
            Check(\A j \in 1 .. k - 1 : real[j] # real[k], "reducer repeated")>>)])

\* The settings are flat: a key that none of the subsystems claims is an error.
UnknownField(raw) == Check(raw.unknown = {}, "unknown field")

\* try_from_raw.  Roots must exist; the cache root need not.
LoadError(fs, raw, roots, cacheRoot) ==
    FirstError(<<
        UnknownField(raw),
        ValidateStarlarkFiles(fs, raw.starlarkFiles, raw.configDirectory),
        Check(cacheRoot # NotFound, "cache root"),
        Check(NotFound \notin roots, "allowed root"),
        Check(raw.executablesLead, "executable path"),
        Check(\A root \in roots : ~Within(cacheRoot, root), "cache root inside"),
        Check(raw.redactionValid, "redaction pattern"),
        Check(raw.starlarkLimitsValid, "reducer limits"),
        ValidateRunner(raw),
        Check(raw.retentionValid, "retention"),
        ValidateMcp(raw)>>)

PolicyOf(raw, roots) ==
    [roots |-> roots, allowed |-> raw.allowed, denied |-> raw.denied,
     environment |-> raw.environment, bazel |-> raw.bazelExecutable]

AspectOf(raw) ==
    [commands |-> raw.aspectCommands, executable |-> raw.aspectExecutable,
     mayMutate |-> raw.mayMutate]

\* The configuration the service runs with: [error, ...].
ConfigOf(fs, raw, roots, cacheRoot) ==
    [error |-> LoadError(fs, raw, roots, cacheRoot),
     cacheRoot |-> cacheRoot,
     policy |-> PolicyOf(raw, roots), aspect |-> AspectOf(raw),
     defaultTimeout |-> raw.defaultTimeout, maximumTimeout |-> raw.maximumTimeout,
     pending |-> raw.pending,
     outputUserRoot |-> raw.outputUserRoot, supported |-> raw.supported,
     allowUnsupported |-> raw.allowUnsupported, transport |-> raw.transport,
     encoding |-> raw.encoding, execution |-> raw.execution]

Load(fs, raw) ==
    ConfigOf(fs, raw, {Canonicalize(fs, Absolute(root, LaunchDirectory)) : root \in raw.allowedRoots},
             GivenCanonical(fs, raw.cacheRoot))

\* with_agent_runtime: agent mode keeps its evidence in a scratch directory and
\* runs the Bazel it has already resolved.
WithAgentRuntime(config, scratch, executable) ==
    [config EXCEPT !.cacheRoot = scratch, !.policy.bazel = executable]

AspectEnabled(aspect) == aspect.commands # {}

\* InvocationService::start: the loopback event service runs when it is the
\* transport or when any command goes through Aspect.
NeedsBes(config) == config.transport = "bes" \/ AspectEnabled(config.aspect)

AspectRoutes(config, command) == command \in config.aspect.commands
=============================================================================
