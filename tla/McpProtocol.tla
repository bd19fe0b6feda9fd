---------------------------- MODULE McpProtocol -----------------------------
(***************************************************************************)
(* The negotiated dialect of the Model Context Protocol: which task        *)
(* support is advertised, and where a request goes (server protocol.rs and *)
(* the dispatch of handler.rs).                                            *)
(*                                                                         *)
(* A protocol version is its date as a number, so that the order of the    *)
(* dates is the order of the strings; 0 stands for no version.             *)
(***************************************************************************)
EXTENDS Integers, FiniteSets

CONSTANTS KNOWN_VERSIONS, LATEST

V_2025_11_25 == 20251125
EXTENSION_VERSION == 20260630

\* The versions the protocol library knows.
ASSUME VersionAssumption ==
    KNOWN_VERSIONS \subseteq Nat \ {0} /\ V_2025_11_25 \in KNOWN_VERSIONS /\ LATEST \in KNOWN_VERSIONS

Families == {"earlier", "legacy", "extension"}
ExecutionPolicies == {"auto", "sync_only", "tasks_required"}

\* ProtocolAdapter::negotiate.
Family(version) ==
    CASE version = V_2025_11_25 -> "legacy"
      [] version >= EXTENSION_VERSION -> "extension"
      [] OTHER -> "earlier"

\* The answer to initialize.
Negotiated(requested) ==
    IF requested \in KNOWN_VERSIONS \cup {EXTENSION_VERSION} THEN requested ELSE LATEST

\* ProtocolAdapter::capabilities.
Capabilities(family, policy) ==
    {"tools"}
      \cup (IF family = "legacy"
            THEN {"tasks/list", "tasks/cancel"}
                   \cup (IF policy = "sync_only" THEN {} ELSE {"task requests"})
            ELSE {})
      \cup (IF family = "extension" THEN {"tasks extension"} ELSE {})

\* adapt_tools: what the tool list says of tasks for a tool.
TaskSupport(family, policy, tool) ==
    CASE family # "legacy" \/ tool # "bazel.run" \/ policy = "sync_only" -> "none"
      [] family = "legacy" /\ tool = "bazel.run" /\ policy = "auto" -> "optional"
      [] OTHER -> "required"

\* initialize_result and tools_for: what the server says of itself in a dialect.
Advertised(family, policy) ==
    [capabilities |-> Capabilities(family, policy),
     run |-> TaskSupport(family, policy, "bazel.run")]

\* The errors of the protocol, as opposed to those of a tool (missing_extension_capability,
\* method_not_found, task_not_found).
ProtocolErrors == {"missing capability", "method not found", "task not found"}

\* Seeded fault: a required task is not insisted on.
LegacyCallOptional(policy, call) ==
    CASE policy # "sync_only" /\ call.task ->
             IF call.tool = "bazel.run" THEN "legacy task" ELSE "method not found"
      [] OTHER -> "call"

\* call_tool_request: "call" goes to the tool itself, a task is submitted as a
\* deferred result, and the rest are errors.  call is [tool, task, capable].
LegacyCall(policy, call) ==
    CASE policy # "sync_only" /\ call.task ->
             IF call.tool = "bazel.run" THEN "legacy task" ELSE "method not found"
      [] call.tool = "bazel.run" /\ policy = "tasks_required" /\ ~call.task -> "method not found"
      [] OTHER -> "call"

ExtensionCall(policy, call) ==
    IF call.tool # "bazel.run" \/ policy = "sync_only" THEN "call"
    ELSE IF call.capable THEN "extension task"
    ELSE IF policy = "tasks_required" THEN "missing capability" ELSE "call"

EarlierCall(policy, call) ==
    IF call.tool = "bazel.run" /\ policy = "tasks_required" THEN "method not found" ELSE "call"

ToolCall(family, policy, call) ==
    CASE family = "legacy" -> LegacyCall(policy, call)
      [] family = "extension" -> ExtensionCall(policy, call)
      [] OTHER -> EarlierCall(policy, call)

\* The deferred results a task request reads: the ones created for its dialect.
Retrieval(family) == IF family = "legacy" THEN "legacy task" ELSE "extension task"

\* custom_request on tasks/update, which the extension alone has: it acknowledges a
\* task it can find and changes nothing.
UpdateRequest(family, capable, kind) ==
    CASE family # "extension" -> "method not found"
      [] family = "extension" /\ ~capable -> "missing capability"
      [] OTHER -> IF Retrieval(family) = kind THEN "ok" ELSE "task not found"

\* handle_request on the task methods, for a task of a kind.
\* tasks/get and tasks/cancel exist in both dialects, the others in one.  "ok" is that
\* the method reaches the task; that the earlier dialect then refuses to cancel one
\* that has ended is CancelChecks of DeferredTask.
TaskMethods == {"tasks/get", "tasks/cancel", "tasks/list", "tasks/result", "tasks/update"}

TaskRequest(family, method, capable, kind) ==
    CASE family = "earlier" -> "method not found"
      [] family # "earlier" /\ method = "tasks/update" -> UpdateRequest(family, capable, kind)
      [] family = "extension" /\ method \in {"tasks/list", "tasks/result"} -> "method not found"
      [] OTHER ->
             IF family = "extension" /\ ~capable THEN "missing capability"
             ELSE IF method # "tasks/list" /\ Retrieval(family) # kind THEN "task not found"
             ELSE "ok"

\* server/discover names the extension whatever was negotiated.
Discover == {"tasks extension"}
=============================================================================
