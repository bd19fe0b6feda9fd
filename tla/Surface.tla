------------------------------ MODULE Surface -------------------------------
(***************************************************************************)
(* A request from the outside in: the process starts as a server or as an  *)
(* agent's front end, a client negotiates a protocol, a request is         *)
(* dispatched, checked against the policy and the probed Bazel version,    *)
(* run as a child process, and answered with a result that fits its limit. *)
(*                                                                         *)
(* The queue, the execution slots and the invocation's record are          *)
(* InvocationService's; here an accepted request waits for nothing but the *)
(* lock of its output base.  A scenario fixes what the outside may do.     *)
(***************************************************************************)
EXTENDS ServerConfig, AgentCli, McpProtocol, RunResult

CONSTANTS
    Slots,        \* requests in flight
    Scenarios,    \* what the outside offers
    SHIM,         \* this program's own executable
    Scratch,      \* the agent's temporary directory
    VALUED_STARTUP_OPTIONS  \* Bazel's startup options that take the next argument for a value

\* An argument: a word has no flag, and every other argument has one.
Arguments == {a \in [flag : STRING, form : {"bare", "eq", "word"}, value : STRING] :
                  a.form = "word" <=> a.flag = ""}

\* What a client may send: lists of arguments, at most one target, and a time that
\* is not negative.
IsCall(call) ==
    /\ {call.startup, call.arguments, call.target, call.program} \subseteq Seq(Arguments)
    /\ Len(call.target) <= 1
    /\ call.timeout \in Seq(Nat) /\ call.workspace.parts \in Seq(STRING)

\* A real path has no links and no dots in it.
IsRealPath(links, path) ==
    /\ path \in Seq(STRING)
    /\ \A n \in 1 .. Len(path) : SubSeq(path, 1, n) \notin DOMAIN links /\ path[n] \notin {".", ".."}

\* Directories have real paths and directories for parents, and links lead to real
\* paths, whether or not there is anything.
IsFileSystem(fs) ==
    /\ DOMAIN fs = {"dirs", "links", "files"}
    /\ \A dir \in fs.dirs : /\ IsRealPath(fs.links, dir)
                             /\ \A n \in 1 .. Len(dir) : SubSeq(dir, 1, n) \in fs.dirs
    /\ \A link \in DOMAIN fs.links : IsRealPath(fs.links, fs.links[link])

\* "none" is not the name of an executable.
IsHost(host) ==
    /\ \A name \in {"bazelisk", "bazel"} : host.path[name] \in Seq(STRING \ {"none"})
    /\ \A workspace \in DOMAIN host.wrappers : host.wrappers[workspace] # "none"

\* The execution policy is one of the enumeration's, another one is not parsed; times
\* and exit codes and signals are not negative.
ASSUME SurfaceAssumption ==
    /\ Slots \subseteq Nat /\ Slots # {} /\ SHIM # "none"
    /\ \A s \in Scenarios :
        /\ s.raw.execution \in ExecutionPolicies
        /\ {s.raw.defaultTimeout, s.raw.maximumTimeout} \subseteq Nat
        /\ s.raw.cacheRoot.parts \in Seq(STRING)
        /\ \A root \in s.raw.allowedRoots : root.parts \in Seq(STRING)
        /\ s.ends \subseteq [kind : STRING, code : Nat]
        /\ s.launch.arguments \in Seq(Arguments)
        /\ s.calls \in Seq(ToSet(s.calls))
        /\ \A k \in DOMAIN s.calls : \A call \in s.calls[k] : IsCall(call)
        /\ IsFileSystem(s.fs) /\ IsHost(s.host)

VARIABLES
    scenario,     \* which scenario this behaviour is of
    mode,         \* "down", "server", "agent", "unfiltered", "refused" or "exited"
    config,       \* the validated configuration
    fs,           \* the file system
    session,      \* [version, inits]
    sent,         \* how many requests the client has sent
    req,          \* the request in each slot
    cells,        \* the version probes made, in order
    cache,        \* version_cache: the cell of each key
    exit          \* the process's exit code, -1 while it runs

vars == <<scenario, mode, config, fs, session, sent, req, cells, cache, exit>>

S == scenario

NoEnd == [kind |-> "none", code |-> 0]
NoDriver == [aspect |-> FALSE, executable |-> "none"]

Idle == [phase |-> "idle", call |-> <<>>, family |-> "none", dispatch |-> "none",
         error |-> "ok", workspace |-> <<>>, base |-> <<>>, key |-> <<>>, bazel |-> "none",
         cell |-> 0, driver |-> NoDriver, child |-> <<>>, capture |-> "none",
         cancelled |-> FALSE, end |-> NoEnd, draft |-> <<>>,
         toolError |-> FALSE, got |-> <<>>]

Call(r) == req[r].call[1]

Init ==
    /\ scenario \in Scenarios
    /\ mode = "down"
    /\ config = Load(S.fs, S.raw)
    /\ fs = S.fs
    /\ session = [version |-> 0, inits |-> 0]
    /\ sent = 0
    /\ req = [r \in Slots |-> Idle]
    /\ cells = <<>>
    /\ cache = <<>>
    /\ exit = -1

Launch == DetectLaunch(S.launch)

\* A request in a slot, at a phase of its own.
At(r, phase) == req[r].phase = phase
Become(r, new) == req' = [req EXCEPT ![r] = new]
Answered(r, error) == [req[r] EXCEPT !.phase = "answered", !.error = error]

----------------------------------------------------------------------------
(***************************************************************************)
(* The process starts (main.rs, lib.rs serve, agent.rs run_agent_inner).   *)
(***************************************************************************)
\* serve: the store may not open, the first collection or the service's start fail.
Serve == {"refused"} \cup (IF config.error = "ok" THEN {"server"} ELSE {})

StartServer ==
    /\ mode = "down" /\ ~Launch.agent
    /\ mode' \in Serve
    /\ exit' = IF mode' = "server" THEN -1 ELSE 1
    /\ UNCHANGED <<scenario, config, fs, session, sent, req, cells, cache>>

AgentRaw == Launch.arguments # <<>> /\ Head(Launch.arguments) = NO_AGENT_MODE

AgentArguments == IF AgentRaw THEN Tail(Launch.arguments) ELSE Launch.arguments

\* The real Bazel: looked up from the workspace, the program itself left out.
AgentBazel(workspace) ==
    ResolveBazelExecutable(S.host, IF workspace = NotFound THEN LaunchDirectory ELSE workspace,
                           config.policy.bazel, SHIM)

AgentError(workspace, parsed) ==
    FirstError(<<Check(config.error = "ok", "configuration"), AgentBazel(workspace).error,
                 Check(AgentRaw \/ workspace # NotFound, "no workspace"),
                 IF AgentRaw THEN "ok" ELSE parsed.error>>)

\* What run_agent_inner asks of the service, as a bazel.run call.
AgentCall(workspace, parsed) ==
    [tool |-> "bazel.run", task |-> FALSE, capable |-> FALSE, decodes |-> TRUE,
     workspace |-> [abs |-> TRUE, parts |-> workspace], command |-> parsed.command,
     startup |-> parsed.startup, arguments |-> parsed.arguments, target |-> parsed.target,
     program |-> parsed.program, timeout |-> <<>>]

\* The scratch directory, the store and the service in it are taken to open and to
\* close, and standard output to take the answer: a failure of one of them ends the
\* process with 2 or 1 before Bazel starts or after it has ended.
StartAgent ==
    LET workspace == DiscoverWorkspace(fs, LaunchDirectory)
        parsed == ParseBazelArguments(AgentArguments, config.policy)
        error == AgentError(workspace, parsed)
    IN  /\ mode = "down" /\ Launch.agent
        /\ mode' = IF error # "ok" THEN "exited" ELSE IF AgentRaw THEN "unfiltered" ELSE "agent"
        /\ exit' = IF error = "ok" THEN -1 ELSE 2
        /\ IF error = "ok" /\ ~AgentRaw
           THEN /\ config' = WithAgentRuntime(config, Scratch, AgentBazel(workspace).executable)
                /\ Become(Min(Slots), [Idle EXCEPT !.phase = "dispatched", !.dispatch = "agent",
                                                   !.call = <<AgentCall(workspace, parsed)>>])
           ELSE UNCHANGED <<config, req>>
        /\ UNCHANGED <<scenario, fs, session, sent, cells, cache>>

\* run_unfiltered: Bazel inherits everything but the variable that selects this mode.
UnfilteredEnvironment == S.host.environment \ {"BAZEL_MCP_MODE"}

RunUnfiltered ==
    /\ mode = "unfiltered"
    /\ mode' = "exited"
    /\ \E end \in S.ends :
           /\ end.kind \in {"exit", "signal"}
           /\ exit' = ProcessExitCode(InvocationExitCode(end))
    /\ UNCHANGED <<scenario, config, fs, session, sent, req, cells, cache>>

----------------------------------------------------------------------------
(***************************************************************************)
(* The client (handler.rs).                                                *)
(***************************************************************************)
Initialize(version) ==
    /\ mode = "server" /\ session.inits < S.maxInits
    /\ session' = [version |-> Negotiated(version), inits |-> session.inits + 1]
    /\ UNCHANGED <<scenario, mode, config, fs, sent, req, cells, cache, exit>>

\* decode_run_request, into_request: the arguments are RunParams or an error.
DecodeRunRequest(received) ==
    IF received.call[1].decodes THEN [received EXCEPT !.phase = "dispatched"]
    ELSE [received EXCEPT !.phase = "answered", !.error = "invalid arguments"]

\* call_tool_request.  A call that is not of bazel.run goes no further here.
Receive(r, call) ==
    LET family == Family(session.version)
        dispatch == ToolCall(family, config.execution, call)
        received == [Idle EXCEPT !.call = <<call>>, !.family = family, !.dispatch = dispatch]
    IN  /\ mode = "server" /\ At(r, "idle")
        /\ \A s \in Slots : At(s, "idle") => r <= s
        /\ sent < Len(S.calls) /\ session.inits >= S.minInits
        /\ sent' = sent + 1
        /\ Become(r, IF dispatch \in ProtocolErrors
                     THEN [received EXCEPT !.phase = "answered", !.error = dispatch]
                     ELSE IF call.tool # "bazel.run" THEN [received EXCEPT !.phase = "answered"]
                     ELSE DecodeRunRequest(received))
        /\ UNCHANGED <<scenario, mode, config, fs, session, cells, cache, exit>>

\* The request's cancellation token, a task's cancellation, or the agent's signal.
Cancellable == {"dispatched", "probing", "accepted", "running"}

Cancel(r) ==
    /\ S.cancels
    /\ req[r].phase \in Cancellable /\ ~req[r].cancelled
    /\ Become(r, [req[r] EXCEPT !.cancelled = TRUE])
    /\ UNCHANGED <<scenario, mode, config, fs, session, sent, cells, cache, exit>>

----------------------------------------------------------------------------
(***************************************************************************)
(* prepare_submission up to the version check, in its order.               *)
(***************************************************************************)
Permits == {r \in Slots : req[r].phase \in {"probing", "accepted", "running"}}

Conflict(call, flag) ==
    /\ ~AspectRoutes(config, call.command) /\ config.transport = "bes"
    /\ \E a \in ToSet(call.arguments) : IsFlag(a, flag)

ArgumentsError(call) ==
    FirstError(<<
        ValidateCommand(config.policy, call.command),
        ValidateArguments(call.startup),
        ValidateArguments(call.arguments),
        ValidateRunArguments(call),
        IF AspectRoutes(config, call.command)
        THEN ValidateAspectArguments(call.command, call.arguments, config.aspect.mayMutate)
        ELSE ValidateQueryArguments(call.command, call.arguments),
        Check(~Conflict(call, "--bes_backend"), "BesBackendConflict"),
        Check(~Conflict(call, "--bes_upload_mode"), "BesUploadModeConflict"),
        Check(Cardinality(Permits) < config.pending, "QueueFull")>>)

\* The workspace, the output base and the executable: the submission's places.
Places(call, workspace) ==
    LET selected == EffectiveOutputBase(fs, workspace.workspace, call.startup)
        bazel == ResolveBazelExecutable(S.host, workspace.workspace, config.policy.bazel, "none")
    IN  [error |-> FirstError(<<workspace.error, selected.error, bazel.error>>),
         workspace |-> workspace.workspace, base |-> selected.base,
         key |-> IF selected.base = <<>> THEN workspace.workspace ELSE selected.base[1],
         bazel |-> bazel.executable]

Placed(call) == Places(call, ValidateWorkspace(fs, call.workspace, config.policy.roots))

Submit(r, arguments, places) ==
    LET error == FirstError(<<Check(~req[r].cancelled, "CancelledBeforeAcceptance"),
                              arguments, places.error>>)
        probe == <<places.bazel, places.workspace>>
        known == probe \in DOMAIN cache
        cell  == IF known THEN cache[probe] ELSE Len(cells) + 1
        checked == [req[r] EXCEPT !.phase = "probing", !.workspace = places.workspace,
                                  !.base = places.base, !.key = places.key,
                                  !.bazel = places.bazel]
    IN  CASE error # "ok" -> Become(r, Answered(r, error)) /\ UNCHANGED <<cells, cache>>
          [] error = "ok" /\ config.allowUnsupported ->
                 Become(r, checked) /\ UNCHANGED <<cells, cache>>
          [] OTHER -> /\ Become(r, [checked EXCEPT !.cell = cell])
                      /\ cells' = IF known THEN cells
                                  ELSE Append(cells, [probe |-> probe, state |-> "empty", major |-> -1])
                      /\ cache' = [k \in DOMAIN cache \cup {probe} |->
                                      IF k = probe THEN cell ELSE cache[k]]

Prepare(r) ==
    /\ At(r, "dispatched")
    /\ Submit(r, ArgumentsError(Call(r)), Placed(Call(r)))
    /\ UNCHANGED <<scenario, mode, config, fs, session, sent, exit>>

(***************************************************************************)
(* validate_bazel_version: callers with the same key share one probe.      *)
(***************************************************************************)
StartProbe(r) ==
    /\ At(r, "probing") /\ req[r].cell # 0 /\ cells[req[r].cell].state = "empty"
    /\ cells' = [cells EXCEPT ![req[r].cell].state = "running"]
    /\ UNCHANGED <<scenario, mode, config, fs, session, sent, req, cache, exit>>

EndProbe(k, outcome) ==
    LET found == DetectBazelVersion(outcome)
    IN  /\ cells[k].state = "running"
        /\ cells' = [cells EXCEPT ![k].state = IF found.error = "ok" THEN "known" ELSE "failed",
                                  ![k].major = found.major]
        /\ UNCHANGED <<scenario, mode, config, fs, session, sent, req, cache, exit>>

\* Seeded fault: the cell is forgotten even when a newer probe took its place.
ForgetAny(r) ==
    LET cell == req[r].cell
        probe == cells[cell].probe
    IN  /\ At(r, "probing") /\ cell # 0 /\ cells[cell].state = "failed"
        /\ cache' = [k \in DOMAIN cache \ {probe} |-> cache[k]]
        /\ Become(r, Answered(r, "VersionCheck"))
        /\ UNCHANGED <<scenario, mode, config, fs, session, sent, cells, exit>>

\* A caller that sees the probe fail forgets it, unless a newer one took its place.
Forget(r) ==
    LET cell == req[r].cell
        probe == cells[cell].probe
    IN  /\ At(r, "probing") /\ cell # 0 /\ cells[cell].state = "failed"
        /\ cache' = IF probe \in DOMAIN cache /\ cache[probe] = cell
                    THEN [k \in DOMAIN cache \ {probe} |-> cache[k]] ELSE cache
        /\ Become(r, Answered(r, "VersionCheck"))
        /\ UNCHANGED <<scenario, mode, config, fs, session, sent, cells, exit>>

\* The driver, the last look at the cancellation, and the record: accepted.
DriverOf(r) ==
    IF AspectRoutes(config, Call(r).command)
    THEN LET aspect == ResolveAspectExecutable(S.host, config.aspect.executable)
         IN  [error |-> aspect.error, driver |-> AspectDriver(aspect.executable)]
    ELSE [error |-> "ok", driver |-> BazelDriver(req[r].bazel)]

Accept(r) ==
    LET cell == req[r].cell
        version == Check(cell = 0 \/ cells[cell].major \in config.supported, "UnsupportedBazelVersion")
        error == FirstError(<<version, DriverOf(r).error,
                              Check(~req[r].cancelled, "CancelledBeforeAcceptance")>>)
    IN  /\ At(r, "probing") /\ (cell # 0 => cells[cell].state = "known")
        /\ Become(r, IF error # "ok" THEN Answered(r, error)
                     ELSE [req[r] EXCEPT !.phase = "accepted", !.driver = DriverOf(r).driver])
        /\ UNCHANGED <<scenario, mode, config, fs, session, sent, cells, cache, exit>>

----------------------------------------------------------------------------
(***************************************************************************)
(* Execution (execution.rs start_execution), one at a time per key.        *)
(***************************************************************************)
Deferred(r) == req[r].dispatch \in {"legacy task", "extension task"}

\* build_run_result: the builder starts from the whole summary.
BuildRunResult(request, failed) ==
    [request EXCEPT !.phase = "packing", !.toolError = failed]

\* The invocation is terminal: a deferred one waits to be fetched, and the result
\* of another is built.
Finished(r, end, summary) ==
    LET ended == [req[r] EXCEPT !.phase = "ended", !.end = end,
                      !.draft = <<Draft(summary, req[r].dispatch # "agent")>>]
    IN  IF Deferred(r) THEN ended ELSE BuildRunResult(ended, FALSE)

\* build_run_summary: only a run has a target, and lines of its program's output.
RunPartFits(command, summary) ==
    IF command = "run" THEN summary.target <= TARGET_LIMIT
    ELSE summary.target = 0 /\ summary.excerpts = <<>>

Finish(r, kinds) ==
    \E end \in S.ends, summary \in S.summaries :
        /\ end.kind \in kinds /\ RunPartFits(Call(r).command, summary)
        /\ summary.success = (end = [kind |-> "exit", code |-> 0])
        /\ Become(r, Finished(r, end, summary))

\* The pipe is made, and the server's process found, only for a FIFO transport.
FifoMade(driver, call) ==
    IF CapturesBep(CommandClass(driver, call.command)) /\ Transport(driver, config) = "fifo"
    THEN {end = "pid" : end \in ServerPidEnds} ELSE {FALSE}

Spawn(r) ==
    /\ At(r, "accepted")
    /\ \A s \in Slots : At(s, "running") => req[s].key # req[r].key
    /\ CASE req[r].cancelled -> Finish(r, {"cancelled"})
         [] ~req[r].cancelled /\ EndpointMissing(config, req[r].driver, Call(r), NeedsBes(config)) ->
                Finish(r, {"interrupted"})
         [] OTHER ->
                \/ Finish(r, {"spawn failure"})
                \/ \E fifo \in FifoMade(req[r].driver, Call(r)) :
                       Become(r, [req[r] EXCEPT
                           !.phase = "running",
                           !.child = <<Child(S.host, config, req[r].driver, Call(r), fifo)>>,
                           !.capture = Capture(config, req[r].driver, Call(r), fifo)])
    /\ UNCHANGED <<scenario, mode, config, fs, session, sent, cells, cache, exit>>

\* Bazel, of which the service knows nothing but what it was given: the output base
\* it works in is the directory its --output_base leads to.
BazelOutputBase(r) ==
    LET at == OptionAt(Call(r).startup, "--output_base")
    IN  IF at = {} THEN <<"outputs">> \o req[r].workspace
        ELSE Real(fs, NormalizeAbsolute(
                 Absolute(PathFrom(ValueAt(Call(r).startup, "--output_base", Max(at))),
                          req[r].workspace)))

CreateOutputBase(r) ==
    /\ At(r, "running")
    /\ fs' = MakeDirectories(fs, BazelOutputBase(r))
    /\ fs' # fs
    /\ UNCHANGED <<scenario, mode, config, session, sent, req, cells, cache, exit>>

Exit(r) ==
    /\ At(r, "running")
    /\ Finish(r, {"exit", "signal", "timeout", "output limit"}
                   \cup (IF req[r].cancelled THEN {"cancelled"} ELSE {}))
    /\ UNCHANGED <<scenario, mode, config, fs, session, sent, cells, cache, exit>>

----------------------------------------------------------------------------
(***************************************************************************)
(* Answers: the task requests of both dialects, and the packing of a       *)
(* result, one turn of build's loop at a time.                             *)
(***************************************************************************)
TaskCall(r, method, capable) ==
    LET family == Family(session.version)
        outcome == TaskRequest(family, method, capable, req[r].dispatch)
        seen == [req[r] EXCEPT !.got = <<[method |-> method, family |-> family,
                                          outcome |-> outcome]>>]
        fetches == outcome = "ok" /\ method = (IF family = "legacy" THEN "tasks/result"
                                               ELSE "tasks/get")
    IN  /\ mode = "server" /\ Deferred(r) /\ req[r].phase \in {"accepted", "running", "ended"}
        /\ IF fetches /\ At(r, "ended")
           THEN \E failed \in BOOLEAN :
                    Become(r, BuildRunResult(seen, failed))
           ELSE Become(r, [seen EXCEPT !.cancelled =
                               @ \/ (outcome = "ok" /\ method = "tasks/cancel" /\ ~At(r, "ended"))])
        /\ UNCHANGED <<scenario, mode, config, fs, session, sent, cells, cache, exit>>

Fits(draft) == EncodedSize(config.encoding, draft) <= draft.limit

Pack(r) ==
    LET draft == req[r].draft[1]
    IN  /\ At(r, "packing")
        /\ Become(r, CASE Fits(draft) -> [req[r] EXCEPT !.phase = "answered"]
                       [] ~Fits(draft) /\ CanShrink(draft) ->
                              [req[r] EXCEPT !.draft = <<Shrunk(draft)>>]
                       [] OTHER -> Answered(r, "could not fit"))
        /\ UNCHANGED <<scenario, mode, config, fs, session, sent, cells, cache, exit>>

\* The response leaves.  An agent's process ends with it.
Deliver(r) ==
    /\ At(r, "answered") /\ mode # "exited"
    /\ IF mode = "agent"
       THEN /\ mode' = "exited"
            /\ exit' = IF req[r].error = "ok"
                       THEN ProcessExitCode(InvocationExitCode(req[r].end)) ELSE 2
            /\ UNCHANGED req
       ELSE Become(r, Idle) /\ UNCHANGED <<mode, exit>>
    /\ UNCHANGED <<scenario, config, fs, session, sent, cells, cache>>

Next ==
    \/ StartServer \/ StartAgent \/ RunUnfiltered
    \/ \E version \in S.versions : Initialize(version)
    \/ \E r \in Slots :
           \/ sent < Len(S.calls) /\ \E call \in S.calls[sent + 1] : Receive(r, call)
           \/ Cancel(r) \/ Prepare(r) \/ StartProbe(r) \/ Forget(r) \/ Accept(r)
           \/ Spawn(r) \/ CreateOutputBase(r) \/ Exit(r) \/ Pack(r) \/ Deliver(r)
           \/ \E task \in S.tasks : TaskCall(r, task.method, task.capable)
    \/ \E k \in DOMAIN cells, outcome \in S.probes : EndProbe(k, outcome)

Spec == Init /\ [][Next]_vars

----------------------------------------------------------------------------
(***************************************************************************)
(* Dispatch.                                                               *)
(***************************************************************************)
\* The negotiated execution contract of specs/003-configurable-mcp-task-execution.md,
\* lines 213-219, row by row.
Contract ==
    [auto |-> [capable |-> "extension task", modern |-> "call", augmented |-> "legacy task",
               legacy |-> "call", earlier |-> "call"],
     sync_only |-> [capable |-> "call", modern |-> "call", augmented |-> "call",
                    legacy |-> "call", earlier |-> "call"],
     tasks_required |-> [capable |-> "extension task", modern |-> "missing capability",
                         augmented |-> "legacy task", legacy |-> "method not found",
                         earlier |-> "method not found"]]

ContractRow(family, call) ==
    CASE family = "extension" -> IF call.capable THEN "capable" ELSE "modern"
      [] family = "legacy" -> IF call.task THEN "augmented" ELSE "legacy"
      [] OTHER -> "earlier"

ServerRuns == {r \in Slots : req[r].call # <<>> /\ req[r].dispatch # "agent"
                                 /\ Call(r).tool = "bazel.run"}

RunsFollowContract ==
    \A r \in ServerRuns :
        req[r].dispatch = Contract[config.execution][ContractRow(req[r].family, Call(r))]

\* What the capabilities and the tool list said is how the call was taken.
AdvertisedIsAccepted ==
    \A r \in ServerRuns :
        LET said == Advertised(req[r].family, config.execution)
        IN  /\ "task requests" \in said.capabilities /\ Call(r).task =>
                   req[r].dispatch = "legacy task"
            /\ Deferred(r) => said.capabilities \cap {"task requests", "tasks extension"} # {}
            /\ req[r].family = "legacy" =>
                   CASE said.run = "required" -> Deferred(r) <=> Call(r).task
                     [] said.run = "none" -> req[r].dispatch = "call"
                     [] OTHER -> req[r].dispatch \in {"call", "legacy task"}

\* A task's result leaves only in the dialect the task was created in, whatever has
\* been negotiated since.
DialectIsKept ==
    \A r \in ServerRuns :
        Deferred(r) /\ (At(r, "packing") \/ At(r, "answered")) /\ req[r].draft # <<>> =>
            /\ req[r].got[1].outcome = "ok"
            /\ req[r].dispatch = "legacy task" =>
                   req[r].got[1] = [method |-> "tasks/result", family |-> "legacy", outcome |-> "ok"]
            /\ req[r].dispatch = "extension task" =>
                   req[r].got[1] = [method |-> "tasks/get", family |-> "extension", outcome |-> "ok"]

(***************************************************************************)
(* Every bazel.run call is executed as the negotiated contract's table     *)
(* says, as the server advertised, and a task's result is given only to    *)
(* its own dialect (handler.rs call_tool_request and handle_request, over  *)
(* re-initializations of the session).                                     *)
(***************************************************************************)
DispatchFollowsContract == RunsFollowContract /\ AdvertisedIsAccepted /\ DialectIsKept

----------------------------------------------------------------------------
(***************************************************************************)
(* The child.                                                              *)
(***************************************************************************)
Running == {r \in Slots : req[r].child # <<>>}
TheChild(r) == req[r].child[1]

\* The setting a token makes, seen through Aspect's --bazel-flag.
Effect(aspect, token) ==
    IF aspect /\ token.arg.flag = "--bazel-flag" THEN token.arg.value ELSE token.arg.flag

BazelFlags == RESERVED_FLAGS \cup {"--bes_backend", "--bes_upload_mode"}

\* Bazel lets the last setting of a flag win, and Aspect of its own: after the
\* server's, no caller's follows.
ServerFlagsWin(aspect, line) ==
    \A i, j \in DOMAIN line :
        /\ i < j /\ line[i].by = "server" /\ line[j].by = "caller" /\ line[i].arg.form = "eq"
        /\ ~\E k \in 1 .. j : line[k] = [by |-> "server", arg |-> Delimiter]
        => /\ Effect(aspect, line[i]) \in BazelFlags =>
                  Effect(aspect, line[j]) # Effect(aspect, line[i])
           /\ line[i].arg.flag = "--task:id" => line[j].arg.flag # "--task:id"

\* Bazel takes for its command the first word that is not the value of a startup
\* option, whoever gave it; of Aspect's command line the command is taken likewise.
TakesValue(arg) == arg.form = "bare" /\ arg.flag \in VALUED_STARTUP_OPTIONS

CommandTaken(line) ==
    line[Min({k \in DOMAIN line : /\ line[k].arg.form = "word"
                                  /\ k > 1 => ~TakesValue(line[k - 1].arg)})]

\* The caller's startup arguments are options, and every word among them is the value
\* of one.  validate_arguments does not ask for it, and neither does the agent's
\* parser: another word among them is the command to Bazel, and the request's command
\* an argument of it.
StartupIsOptions(startup) ==
    \A k \in DOMAIN startup :
        /\ startup[k].form = "word" => k > 1 /\ TakesValue(startup[k - 1])
        /\ TakesValue(startup[k]) => k < Len(startup) /\ startup[k + 1].form = "word"

TakesItsCommand(call, line) ==
    StartupIsOptions(call.startup) =>
        CommandTaken(line) = [by |-> "server", arg |-> Word(call.command)]

\* Where the server puts the command: behind the startup options.
CommandAt(call) == Len(ServerPidLine(config, call)) - 1

\* For run: between the command and the delimiter one word of the caller's, which is
\* Bazel's target, and behind it what the caller gave for the program.
RunBoundaryHolds(call, line) ==
    LET at == First(line, ToSet(Server(<<Delimiter>>)))
        own == CommandAt(call) + 1 .. at - 1
    IN  call.command = "run" =>
            /\ {k \in own : line[k].by = "caller" /\ line[k].arg.form = "word"} = {at - 1}
            /\ line[at - 1].arg = call.target[1]
            /\ ~\E k \in own : line[k].arg = Delimiter
            /\ From(line, at + 1) = Caller(call.program)

Sets(line, flag) == {line[k].arg.value : k \in {k \in DOMAIN line :
                        line[k].by = "server" /\ line[k].arg.flag = flag}}

\* Bazel sends its events to the capture that was started.
CaptureIsFed(capture, line) ==
    /\ capture = "bes" <=> "endpoint" \in Sets(line, "--bes_backend") \cup Sets(line, "--bes-backend")
    /\ capture = "fifo" <=> Sets(line, "--build_event_binary_file") = {"fifo"}
    /\ capture = "tail" <=> Sets(line, "--build_event_binary_file") = {"bep"}

\* The process watched while a pipe is read is that of the Bazel server the child
\* talks to: the probe and the child have the same startup options.
SameServer(call, line) ==
    LET command == CommandAt(call)
    IN  /\ SubSeq(line, 1, command - 1) = SubSeq(ServerPidLine(config, call), 1, command - 1)
        /\ line[command] = [by |-> "server", arg |-> Word(call.command)]

\* Bags of what an agent's command line held, before and after it was taken apart.
Occurrences(arguments, a) == Cardinality({k \in DOMAIN arguments : arguments[k] = a})

AgentKeepsArguments ==
    mode = "agent" =>
        LET call == Call(Min(Slots))
            parts == call.startup \o <<Word(call.command)>> \o call.arguments
                         \o call.target \o call.program
        IN  \A a \in ToSet(AgentArguments) \ {Delimiter, Bare("--help"), Bare("--version")} :
                Occurrences(parts, a) = Occurrences(AgentArguments, a)

(***************************************************************************)
(* The command a request names was allowed by the policy, and it is the    *)
(* one its child takes, provided that the caller's startup arguments are   *)
(* options: words among them are not refused (flags.rs:42-53,              *)
(* service.rs:644), stand before the command (execution.rs:436) and take   *)
(* its place.  The line the server lays out keeps what the server means:   *)
(* its flags win over the caller's, the program's arguments stay behind    *)
(* the boundary, its environment is listed, its events reach the capture,  *)
(* its time is limited, a pipe is read only while the child's own Bazel    *)
(* server lives, and an agent's child is never the agent's own program and *)
(* loses none of the arguments it was given (driver.rs, execution.rs,      *)
(* executable.rs, environment.rs, agent.rs).  No execution fails for want  *)
(* of the event service.                                                   *)
(***************************************************************************)
ChildRunsWhatWasAdmitted ==
    /\ \A r \in Running :
           /\ Call(r).command \in config.policy.allowed \ config.policy.denied
           /\ config.policy.roots # {} =>
                  \E root \in config.policy.roots : Within(req[r].workspace, root)
           /\ TakesItsCommand(Call(r), TheChild(r).line)
           /\ ServerFlagsWin(req[r].driver.aspect, TheChild(r).line)
           /\ RunBoundaryHolds(Call(r), TheChild(r).line)
           /\ CaptureIsFed(req[r].capture, TheChild(r).line)
           /\ req[r].capture = "fifo" => SameServer(Call(r), TheChild(r).line)
           /\ TheChild(r).environment \subseteq ALWAYS_ALLOWED \cup S.raw.environment \cup {"BAZEL_REAL"}
           /\ TheChild(r).timeout \in 1 .. config.maximumTimeout
           /\ mode = "agent" => S.host.identity[req[r].bazel] # S.host.identity[SHIM]
    /\ \A r \in Slots : req[r].end.kind # "interrupted"
    /\ AgentKeepsArguments

----------------------------------------------------------------------------
(***************************************************************************)
(* Two Bazels never work in the same output base at once, however the base *)
(* and the workspace were spelled and whether or not the directories were  *)
(* there when the lock's key was computed (flags.rs effective_output_base, *)
(* service.rs lock_key); and the server's own files are in no workspace    *)
(* root it was given (config.rs try_from_raw).  A base that a bazelrc file *)
(* chooses is not seen: docs/configuration.md:327-330 leaves two requests  *)
(* that meet there to Bazel's own lock.                                    *)
(***************************************************************************)
OneLockPerOutputBase ==
    /\ \A r, s \in Slots :
           r # s /\ At(r, "running") /\ At(s, "running") => BazelOutputBase(r) # BazelOutputBase(s)
    /\ mode = "server" =>
           \A root \in S.raw.allowedRoots :
               ~Within(Real(fs, config.cacheRoot), Real(fs, Absolute(root, LaunchDirectory)))

----------------------------------------------------------------------------
(***************************************************************************)
(* The version cache (service.rs validate_bazel_version): a failed probe   *)
(* is in the cache only while a caller is still to report and forget it, a *)
(* probe that is under way or succeeded is never forgotten for an older    *)
(* one, so that a key has one probe at a time, and no request is accepted  *)
(* whose Bazel has not answered with a supported version.                  *)
(***************************************************************************)
ProbeCacheIsSound ==
    /\ \A probe \in DOMAIN cache :
           cells[cache[probe]].state = "failed" =>
               \E r \in Slots : At(r, "probing") /\ req[r].cell = cache[probe]
    /\ \A k \in DOMAIN cells :
           cells[k].state # "failed" =>
               cells[k].probe \in DOMAIN cache /\ cache[cells[k].probe] = k
    /\ \A r \in Slots :
           req[r].phase \in {"accepted", "running"} /\ ~config.allowUnsupported =>
               /\ cells[req[r].cell].major \in config.supported
               /\ cells[req[r].cell].probe = <<req[r].bazel, req[r].workspace>>

----------------------------------------------------------------------------
(***************************************************************************)
(* Results.                                                                *)
(***************************************************************************)
\* Everything the reduction held, and what of it the draft still has.
Complete(r) ==
    \E summary \in S.summaries :
        LET whole == Draft(summary, req[r].dispatch # "agent")
        IN  \A field \in {"excerpts", "samples", "diagnostics", "headline", "command"} :
                req[r].draft[1][field] = whole[field]

(***************************************************************************)
(* A result that leaves fits its limit; whatever was taken from it is      *)
(* flagged and leads on, to bazel.inspect where the evidence is retained   *)
(* and to another run where it is not, never the other way round; and an   *)
(* agent exits with success only if Bazel did (result.rs build, agent.rs). *)
(***************************************************************************)
PackedResultIsHonest ==
    /\ \A r \in Slots :
           At(r, "answered") /\ req[r].error = "ok" /\ req[r].draft # <<>> =>
               LET draft == req[r].draft[1]
               IN  /\ Fits(draft)
                   /\ draft.truncated \/ Complete(r)
                   /\ draft.truncated => IF draft.retained THEN draft.more ELSE draft.rerun
                   /\ draft.retained => ~draft.rerun
                   /\ ~draft.retained => ~(draft.more \/ draft.hint \/ draft.views)
    /\ mode = "exited" /\ exit = 0 /\ ~AgentRaw =>
           \E r \in Slots : req[r].end = [kind |-> "exit", code |-> 0] /\ req[r].error = "ok"
    /\ mode \in {"down", "server", "agent", "unfiltered", "refused", "exited"}
    /\ exit \in -1 .. 255

----------------------------------------------------------------------------
\* build's loop ends, in a result or in the error that says it does not fit.
PackingEnds == \A r \in Slots : At(r, "packing") ~> ~At(r, "packing")

FairSpec == Spec /\ \A r \in Slots : WF_vars(Pack(r))
=============================================================================
