---------------------------- MODULE ChildProofs -----------------------------
(***************************************************************************)
(* Proof that a child of Surface runs what was admitted, for every set of  *)
(* scenarios and of requests in flight.                                    *)
(*                                                                         *)
(* A child is made from what Prepare, Accept and Spawn found at different  *)
(* times, so ChildOk says of every phase what was found so far: Admitted   *)
(* once every check let the call pass (Permitted, in an allowed root),     *)
(* Driven once the driver is chosen, ChildOf once the child is there.      *)
(* That the server's flags win is then a fact about command lines: a line  *)
(* is five parts, one behind the other, and the caller's parts hold none   *)
(* of the flags the server sets.  What an agent was launched with is       *)
(* counted, argument by argument, through every cut of the command line.   *)
(***************************************************************************)
EXTENDS SurfaceProofs

\* Of two checks that found nothing, neither found anything.
LEMMA NoError2 ==
    ASSUME NEW a, NEW b, FirstError(<<a, b>>) = "ok"
    PROVE  a = "ok" /\ b = "ok"
<1> DEFINE checks == <<a, b>>
<1>1. DOMAIN checks = {1, 2} /\ checks[1] = a /\ checks[2] = b /\ FirstError(checks) = "ok"
  OBVIOUS
<1> HIDE DEF checks
<1>2. DOMAIN checks \subseteq Nat
  BY <1>1
<1> QED
  BY <1>1, <1>2, NoError

\* A concatenation holds the one list and behind it the other.
LEMMA ConcatAt ==
    ASSUME NEW T, NEW s \in Seq(T), NEW t \in Seq(T)
    PROVE  /\ s \o t \in Seq(T) /\ Len(s \o t) = Len(s) + Len(t)
           /\ \A i \in 1 .. Len(s) : (s \o t)[i] = s[i]
           /\ \A i \in 1 .. Len(t) : (s \o t)[Len(s) + i] = t[i]
  OBVIOUS

\* The same of five.
LEMMA NoError5 ==
    ASSUME NEW a, NEW b, NEW c, NEW d, NEW e, FirstError(<<a, b, c, d, e>>) = "ok"
    PROVE  a = "ok" /\ b = "ok" /\ c = "ok" /\ d = "ok" /\ e = "ok"
<1> DEFINE checks == <<a, b, c, d, e>>
<1>1. DOMAIN checks = 1 .. 5
  OBVIOUS
<1>2. /\ checks[1] = a /\ checks[2] = b /\ checks[3] = c /\ checks[4] = d /\ checks[5] = e
      /\ FirstError(checks) = "ok"
  OBVIOUS
<1> HIDE DEF checks
<1>3. DOMAIN checks \subseteq Nat
  BY <1>1
<1>4. \A k \in DOMAIN checks : checks[k] = "ok"
  BY <1>2, <1>3, NoError
<1>5. checks[1] = "ok" /\ checks[2] = "ok" /\ checks[3] = "ok" /\ checks[4] = "ok" /\ checks[5] = "ok"
  BY <1>1, <1>4
<1> QED
  BY <1>2, <1>5

\* Six of eight checks that found nothing.
LEMMA NoError8 ==
    ASSUME NEW a, NEW b, NEW c, NEW d, NEW e, NEW f, NEW g, NEW h,
           FirstError(<<a, b, c, d, e, f, g, h>>) = "ok"
    PROVE  a = "ok" /\ c = "ok" /\ d = "ok" /\ e = "ok" /\ f = "ok" /\ g = "ok"
<1> DEFINE checks == <<a, b, c, d, e, f, g, h>>
<1>1. DOMAIN checks = 1 .. 8
  OBVIOUS
<1>2. /\ checks[1] = a /\ checks[3] = c /\ checks[4] = d /\ checks[5] = e /\ checks[6] = f
      /\ checks[7] = g /\ FirstError(checks) = "ok"
  OBVIOUS
<1> HIDE DEF checks
<1>3. DOMAIN checks \subseteq Nat
  BY <1>1
<1>4. \A k \in DOMAIN checks : checks[k] = "ok"
  BY <1>2, <1>3, NoError
<1>5. checks[1] = "ok" /\ checks[3] = "ok" /\ checks[4] = "ok" /\ checks[5] = "ok" /\ checks[6] = "ok"
      /\ checks[7] = "ok"
  BY <1>1, <1>4
<1> QED
  BY <1>2, <1>5

\* What the checks of a call establish, by the kind of its driver.
Unreserved(call) == \A a \in ToSet(call.arguments) : a.flag \notin RESERVED_FLAGS

\* A run has a target, and no word or delimiter among its own arguments.
RunIsApart(call) ==
    call.command = "run" =>
        /\ call.target # <<>>
        /\ \A a \in ToSet(call.target) : a.form = "word"
        /\ \A a \in ToSet(call.arguments) : a # Delimiter /\ a.form # "word"

\* No argument of the caller's is one of Aspect's own or passes a reserved flag on.
AspectIsApart(call) ==
    \A a \in ToSet(call.arguments) :
        ~AspectReserved(a) /\ (a.flag # "--bazel-flag" \/ a.value \notin RESERVED_FLAGS)

\* With the event service, no argument names another one.
BesIsApart(call) ==
    \A a \in ToSet(call.arguments) :
        a.form # "word" => a.flag \notin {"--bes_backend", "--bes_upload_mode"}

\* What validation let pass: the command, the arguments, and what the driver forbids.
Permitted(conf, call) ==
    /\ call.command \in conf.policy.allowed \ conf.policy.denied
    /\ Unreserved(call) /\ RunIsApart(call)
    /\ AspectRoutes(conf, call.command) => AspectIsApart(call)
    /\ ~AspectRoutes(conf, call.command) /\ conf.transport = "bes" => BesIsApart(call)

\* validate_command lets through what is allowed and not denied.
LEMMA CommandPasses ==
    ASSUME NEW policy, NEW command, ValidateCommand(policy, command) = "ok"
    PROVE  command \in policy.allowed \ policy.denied
<1>1. PICK a, b : /\ a = Check(command \notin policy.denied, "CommandDenied")
                  /\ b = Check(command \in policy.allowed, "CommandUnsupported")
  OBVIOUS
<1>2. FirstError(<<a, b>>) = "ok"
  BY <1>1 DEF ValidateCommand
<1>3. a = "ok" /\ b = "ok"
  BY <1>2, NoError2
<1> QED
  BY <1>1, <1>3 DEF Check

\* validate_arguments lets no reserved flag through.
LEMMA ArgumentsPass ==
    ASSUME NEW call, ValidateArguments(call.arguments) = "ok"
    PROVE  Unreserved(call)
<1>1. PICK a, b : /\ a = ValidateArgumentShape(call.arguments)
                  /\ b = Check(Unreserved(call), "ReservedFlag")
  OBVIOUS
<1>2. FirstError(<<a, b>>) = "ok"
  BY <1>1 DEF ValidateArguments, Unreserved
<1>3. b = "ok"
  BY <1>2, NoError2
<1> QED
  BY <1>1, <1>3 DEF Check

\* validate_run_arguments keeps a run's target and program apart from its flags.
LEMMA RunPasses ==
    ASSUME NEW call, ValidateRunArguments(call) = "ok"
    PROVE  RunIsApart(call)
<1>1. SUFFICES ASSUME call.command = "run" PROVE RunIsApart(call)
  BY DEF RunIsApart
<1> DEFINE given == call.target # <<>> /\ call.target # <<Word("blank")>>
           words == \A x \in ToSet(call.target) : x.form = "word"
           flags == \A x \in ToSet(call.arguments) : x # Delimiter /\ x.form # "word"
<1>2. PICK a, b, c, d, e :
          /\ a = Check(given, "RunTargetRequired") /\ b = ValidateArgumentShape(call.target)
          /\ c = Check(words, "InvalidRunTarget") /\ d = Check(flags, "RunArgumentsMustBeFlags")
          /\ e = ValidateArgumentShape(call.program)
  OBVIOUS
<1>3. FirstError(<<a, b, c, d, e>>) = "ok"
  BY <1>1, <1>2 DEF ValidateRunArguments
<1>4. a = "ok" /\ c = "ok" /\ d = "ok"
  BY <1>3, NoError5
<1> HIDE DEF given, words, flags
<1>5. given /\ words /\ flags
  BY <1>2, <1>4 DEF Check
<1> QED
  BY <1>5 DEF given, words, flags, RunIsApart

\* validate_aspect_arguments keeps the caller's arguments apart from Aspect's.
LEMMA AspectPasses ==
    ASSUME NEW call, call.arguments \in Seq(Arguments), NEW mayMutate,
           ValidateAspectArguments(call.command, call.arguments, mayMutate) = "ok"
    PROVE  AspectIsApart(call)
<1> DEFINE arguments == call.arguments
           clean(x) == x.flag # "--bazel-flag" \/ x.value \notin RESERVED_FLAGS
           still(x) == call.command # "lint" \/ mayMutate \/ x.flag # "--fix"
           Checks(x) == FirstError(<<Check(~AspectReserved(x), "AspectReservedArgument"),
                                     Check(clean(x), "ReservedFlag"),
                                     Check(still(x), "AspectWorkspaceMutationDenied")>>)
           all == [k \in DOMAIN arguments |-> Checks(arguments[k])]
<1>1. FirstError(all) = "ok"
  BY DEF ValidateAspectArguments
<1> HIDE DEF Checks
<1>2. DOMAIN all = DOMAIN arguments /\ DOMAIN arguments \subseteq Nat
      /\ \A k \in DOMAIN arguments : all[k] = Checks(arguments[k])
  OBVIOUS
<1> HIDE DEF all
<1>3. \A k \in DOMAIN arguments : Checks(arguments[k]) = "ok"
  BY <1>1, <1>2, NoError
<1> HIDE DEF arguments
<1>4. ASSUME NEW k \in DOMAIN arguments
      PROVE  ~AspectReserved(arguments[k]) /\ clean(arguments[k])
  <2>1. PICK x : x = arguments[k]
    OBVIOUS
  <2>2. PICK a, b, c : /\ a = Check(~AspectReserved(x), "AspectReservedArgument")
                       /\ b = Check(clean(x), "ReservedFlag")
                       /\ c = Check(still(x), "AspectWorkspaceMutationDenied")
    OBVIOUS
  <2>3. FirstError(<<a, b, c>>) = "ok"
    BY <1>3, <2>1, <2>2 DEF Checks
  <2>4. a = "ok" /\ b = "ok"
    BY <2>3, NoError3
  <2> QED
    BY <2>1, <2>2, <2>4 DEF Check
<1> QED
  BY <1>4 DEF AspectIsApart, ToSet, arguments

(***************************************************************************)
(* A call whose arguments raise no error is permitted.                     *)
(***************************************************************************)
LEMMA ArgumentsArePermitted ==
    ASSUME NEW call, IsCall(call), ArgumentsError(call) = "ok"
    PROVE  Permitted(config, call)
<1> DEFINE routed == AspectRoutes(config, call.command)
<1>1. PICK a, b, c, d, e, f, g, h :
          /\ a = ValidateCommand(config.policy, call.command)
          /\ b = ValidateArguments(call.startup) /\ c = ValidateArguments(call.arguments)
          /\ d = ValidateRunArguments(call)
          /\ e = IF routed
                 THEN ValidateAspectArguments(call.command, call.arguments, config.aspect.mayMutate)
                 ELSE ValidateQueryArguments(call.command, call.arguments)
          /\ f = Check(~Conflict(call, "--bes_backend"), "BesBackendConflict")
          /\ g = Check(~Conflict(call, "--bes_upload_mode"), "BesUploadModeConflict")
          /\ h = Check(Cardinality(Permits) < config.pending, "QueueFull")
  OBVIOUS
<1>2. FirstError(<<a, b, c, d, e, f, g, h>>) = "ok"
  BY <1>1 DEF ArgumentsError
<1>3. a = "ok" /\ c = "ok" /\ d = "ok" /\ e = "ok" /\ f = "ok" /\ g = "ok"
  BY <1>2, NoError8
<1>4. call.command \in config.policy.allowed \ config.policy.denied /\ Unreserved(call) /\ RunIsApart(call)
  BY <1>1, <1>3, CommandPasses, ArgumentsPass, RunPasses
<1>5. routed => AspectIsApart(call)
  <2>1. call.arguments \in Seq(Arguments)
    BY DEF IsCall
  <2> QED
    BY <1>1, <1>3, <2>1, AspectPasses
<1>6. ~Conflict(call, "--bes_backend") /\ ~Conflict(call, "--bes_upload_mode")
  BY <1>1, <1>3 DEF Check
<1>7. ~routed /\ config.transport = "bes" => BesIsApart(call)
  BY <1>6 DEF Conflict, BesIsApart, IsFlag
<1> QED
  BY <1>4, <1>5, <1>7 DEF Permitted

\* A sequence, of whatever it holds.
IsList(s) == s \in Seq(ToSet(s))

\* A sequence over any set is a list.
LEMMA ListOf ==
    ASSUME NEW T, NEW s \in Seq(T)
    PROVE  IsList(s)
<1>1. \A k \in 1 .. Len(s) : s[k] \in ToSet(s)
  BY DEF ToSet
<1> HIDE DEF ToSet
<1> QED
  BY <1>1 DEF IsList

\* The length, the positions and the elements of a list.
LEMMA ListFacts ==
    ASSUME NEW s, IsList(s)
    PROVE  Len(s) \in Nat /\ DOMAIN s = 1 .. Len(s) /\ ToSet(s) = {s[k] : k \in 1 .. Len(s)}
<1>1. s \in Seq(ToSet(s))
  BY DEF IsList
<1>2. DOMAIN s = 1 .. Len(s) /\ Len(s) \in Nat
  BY <1>1
<1> QED
  BY <1>2 DEF ToSet

\* The empty list.
LEMMA EmptyIsList == IsList(<<>>) /\ Len(<<>>) = 0
  BY DEF IsList

\* The concatenation of two lists.
LEMMA ListConcat ==
    ASSUME NEW s, NEW t, IsList(s), IsList(t)
    PROVE  /\ IsList(s \o t) /\ Len(s \o t) = Len(s) + Len(t)
           /\ \A k \in 1 .. Len(s) : (s \o t)[k] = s[k]
           /\ \A k \in 1 .. Len(t) : (s \o t)[Len(s) + k] = t[k]
           /\ ToSet(s \o t) = ToSet(s) \cup ToSet(t)
<1> DEFINE T == ToSet(s) \cup ToSet(t)
<1>1. s \in Seq(T) /\ t \in Seq(T)
  <2>1. s \in Seq(ToSet(s)) /\ t \in Seq(ToSet(t))
    BY DEF IsList
  <2> QED
    BY <2>1
<1> HIDE DEF T
<1>2. s \o t \in Seq(T)
  BY <1>1, ConcatAt
<1>3. Len(s \o t) = Len(s) + Len(t)
  BY <1>1, ConcatAt
<1>4. \A k \in 1 .. Len(s) : (s \o t)[k] = s[k]
  BY <1>1, ConcatAt
<1>5. \A k \in 1 .. Len(t) : (s \o t)[Len(s) + k] = t[k]
  BY <1>1, ConcatAt
<1>6. IsList(s \o t)
  BY <1>2, ListOf
<1>7. Len(s) \in Nat /\ Len(t) \in Nat /\ ToSet(s) = {s[k] : k \in 1 .. Len(s)}
      /\ ToSet(t) = {t[k] : k \in 1 .. Len(t)}
  BY ListFacts
<1> DEFINE u == s \o t
<1> HIDE DEF u
<1>8. /\ Len(u) = Len(s) + Len(t) /\ ToSet(u) = {u[k] : k \in 1 .. Len(u)}
      /\ \A k \in 1 .. Len(s) : u[k] = s[k]
      /\ \A k \in 1 .. Len(t) : u[Len(s) + k] = t[k]
  BY <1>3, <1>4, <1>5, <1>6, ListFacts DEF u
<1>9. ASSUME NEW x PROVE x \in ToSet(u) <=> x \in ToSet(s) \cup ToSet(t)
  <2>1. ASSUME x \in ToSet(u) PROVE x \in ToSet(s) \cup ToSet(t)
    <3>1. PICK k \in 1 .. Len(u) : x = u[k]
      BY <1>8, <2>1
    <3>2. CASE k <= Len(s)
      BY <1>7, <1>8, <3>1, <3>2
    <3>3. CASE k > Len(s)
      <4>1. k - Len(s) \in 1 .. Len(t) /\ Len(s) + (k - Len(s)) = k
        BY <1>7, <1>8, <3>3
      <4>2. u[k] = t[k - Len(s)]
        BY <1>8, <4>1
      <4> QED
        BY <1>7, <3>1, <4>1, <4>2
    <3> QED
      BY <1>7, <3>1, <3>2, <3>3
  <2>2. ASSUME x \in ToSet(s) PROVE x \in ToSet(u)
    <3>1. PICK k \in 1 .. Len(s) : x = s[k]
      BY <1>7, <2>2
    <3>2. k \in 1 .. Len(u)
      BY <1>7, <1>8
    <3> QED
      BY <1>8, <3>1, <3>2
  <2>3. ASSUME x \in ToSet(t) PROVE x \in ToSet(u)
    <3>1. PICK k \in 1 .. Len(t) : x = t[k]
      BY <1>7, <2>3
    <3>2. Len(s) + k \in 1 .. Len(u)
      BY <1>7, <1>8
    <3> QED
      BY <1>8, <3>1, <3>2
  <2> QED
    BY <2>1, <2>2, <2>3
<1>10. ToSet(u) = ToSet(s) \cup ToSet(t)
  BY <1>9
<1> QED
  BY <1>3, <1>4, <1>5, <1>6, <1>10 DEF u

\* Every position of a concatenation is one of the first list or of the second.
LEMMA ConcatPosition ==
    ASSUME NEW s, NEW t, IsList(s), IsList(t), NEW k \in 1 .. Len(s \o t)
    PROVE  \/ k \in 1 .. Len(s) /\ (s \o t)[k] = s[k]
           \/ \E j \in 1 .. Len(t) : k = Len(s) + j /\ (s \o t)[k] = t[j]
<1> DEFINE u == s \o t
<1>1. /\ Len(u) = Len(s) + Len(t) /\ Len(s) \in Nat /\ Len(t) \in Nat
      /\ \A i \in 1 .. Len(s) : u[i] = s[i]
      /\ \A i \in 1 .. Len(t) : u[Len(s) + i] = t[i]
  BY ListConcat, ListFacts
<1>2. k \in 1 .. Len(u)
  OBVIOUS
<1> HIDE DEF u
<1>3. CASE k <= Len(s)
  <2>1. k \in 1 .. Len(s)
    BY <1>1, <1>2, <1>3
  <2> QED
    BY <1>1, <2>1 DEF u
<1>4. CASE k > Len(s)
  <2>1. k - Len(s) \in 1 .. Len(t) /\ k = Len(s) + (k - Len(s))
    BY <1>1, <1>2, <1>4
  <2>2. u[k] = t[k - Len(s)]
    BY <1>1, <2>1
  <2> QED
    BY <2>1, <2>2 DEF u
<1> QED
  BY <1>1, <1>2, <1>3, <1>4

\* The tokens somebody contributes.
LEMMA ByIsList ==
    ASSUME NEW s, IsList(s), NEW who
    PROVE  /\ IsList(By(who, s)) /\ Len(By(who, s)) = Len(s)
           /\ \A k \in 1 .. Len(s) : By(who, s)[k] = [by |-> who, arg |-> s[k]]
           /\ \A k \in 1 .. Len(s) : By(who, s)[k].by = who /\ By(who, s)[k].arg = s[k]
<1>1. Len(s) \in Nat /\ DOMAIN s = 1 .. Len(s)
  BY ListFacts
<1> DEFINE u == By(who, s)
           T == {[by |-> who, arg |-> s[k]] : k \in 1 .. Len(s)}
<1>2. u = [k \in 1 .. Len(s) |-> [by |-> who, arg |-> s[k]]]
  BY <1>1 DEF By
<1>3. u \in Seq(T) /\ Len(u) = Len(s)
  BY <1>1, <1>2
<1>4. IsList(u)
  BY <1>3, ListOf
<1> QED
  BY <1>2, <1>3, <1>4

\* The arguments of the server's own tokens.
ServerArgs(line) == {line[k].arg : k \in {k \in DOMAIN line : line[k].by = "server"}}

\* The tokens that are the server's, and those that are the caller's.
LEMMA ServerArgsOf ==
    ASSUME NEW s, IsList(s)
    PROVE  ServerArgs(Server(s)) = ToSet(s) /\ ServerArgs(Caller(s)) = {}
<1>1. /\ IsList(Server(s)) /\ Len(Server(s)) = Len(s)
      /\ \A k \in 1 .. Len(s) : Server(s)[k] = [by |-> "server", arg |-> s[k]]
  BY ByIsList DEF Server
<1>2. /\ IsList(Caller(s)) /\ Len(Caller(s)) = Len(s)
      /\ \A k \in 1 .. Len(s) : Caller(s)[k] = [by |-> "caller", arg |-> s[k]]
  BY ByIsList DEF Caller
<1>3. DOMAIN Server(s) = 1 .. Len(s) /\ DOMAIN Caller(s) = 1 .. Len(s)
      /\ ToSet(s) = {s[k] : k \in 1 .. Len(s)}
  BY <1>1, <1>2, ListFacts
<1>4. \A k \in 1 .. Len(s) : /\ Server(s)[k].by = "server" /\ Server(s)[k].arg = s[k]
                             /\ Caller(s)[k].by = "caller"
  BY ByIsList DEF Server, Caller
<1>5. ServerArgs(Server(s)) = ToSet(s)
  BY <1>3, <1>4 DEF ServerArgs
<1>6. ServerArgs(Caller(s)) = {}
  BY <1>3, <1>4 DEF ServerArgs
<1> QED
  BY <1>5, <1>6

\* The server's tokens of a concatenation are those of its parts.
LEMMA ServerArgsConcat ==
    ASSUME NEW s, NEW t, IsList(s), IsList(t)
    PROVE  ServerArgs(s \o t) = ServerArgs(s) \cup ServerArgs(t)
<1> DEFINE u == s \o t
<1>1. /\ IsList(u) /\ Len(u) = Len(s) + Len(t) /\ Len(s) \in Nat /\ Len(t) \in Nat
      /\ \A k \in 1 .. Len(s) : u[k] = s[k]
      /\ \A k \in 1 .. Len(t) : u[Len(s) + k] = t[k]
  BY ListConcat, ListFacts
<1>2. DOMAIN u = 1 .. Len(u) /\ DOMAIN s = 1 .. Len(s) /\ DOMAIN t = 1 .. Len(t)
  BY <1>1, ListFacts
<1>3. \A k \in 1 .. Len(u) : \/ k \in 1 .. Len(s) /\ u[k] = s[k]
                             \/ \E j \in 1 .. Len(t) : k = Len(s) + j /\ u[k] = t[j]
  BY ConcatPosition
<1> HIDE DEF u
<1>4. ASSUME NEW x \in ServerArgs(u) PROVE x \in ServerArgs(s) \cup ServerArgs(t)
  <2>1. PICK k \in 1 .. Len(u) : u[k].by = "server" /\ x = u[k].arg
    BY <1>2 DEF ServerArgs
  <2> QED
    BY <1>2, <1>3, <2>1 DEF ServerArgs
<1>5. ASSUME NEW x \in ServerArgs(s) PROVE x \in ServerArgs(u)
  <2>1. PICK k \in 1 .. Len(s) : s[k].by = "server" /\ x = s[k].arg
    BY <1>2 DEF ServerArgs
  <2>2. k \in 1 .. Len(u) /\ u[k] = s[k]
    BY <1>1
  <2> QED
    BY <1>2, <2>1, <2>2 DEF ServerArgs
<1>6. ASSUME NEW x \in ServerArgs(t) PROVE x \in ServerArgs(u)
  <2>1. PICK k \in 1 .. Len(t) : t[k].by = "server" /\ x = t[k].arg
    BY <1>2 DEF ServerArgs
  <2>2. Len(s) + k \in 1 .. Len(u) /\ u[Len(s) + k] = t[k]
    BY <1>1
  <2> QED
    BY <1>2, <2>1, <2>2 DEF ServerArgs
<1>7. ServerArgs(u) = ServerArgs(s) \cup ServerArgs(t)
  BY <1>4, <1>5, <1>6
<1> QED
  BY <1>7 DEF u

\* Tuples of one to five elements are lists of these elements.
LEMMA TupleOfOne ==
    ASSUME NEW a
    PROVE  IsList(<<a>>) /\ Len(<<a>>) = 1 /\ ToSet(<<a>>) = {a}
<1>1. <<a>> \in Seq({a}) /\ Len(<<a>>) = 1 /\ ToSet(<<a>>) = {a}
  BY DEF ToSet
<1> QED
  BY <1>1 DEF IsList

\* Two.
LEMMA TupleOfTwo ==
    ASSUME NEW a, NEW b
    PROVE  IsList(<<a, b>>) /\ Len(<<a, b>>) = 2 /\ ToSet(<<a, b>>) = {a, b}
<1>1. <<a, b>> \in Seq({a, b}) /\ Len(<<a, b>>) = 2
  OBVIOUS
<1>2. ToSet(<<a, b>>) = {a, b}
  BY DEF ToSet
<1> QED
  BY <1>1, <1>2 DEF IsList

\* Three.
LEMMA TupleOfThree ==
    ASSUME NEW a, NEW b, NEW c
    PROVE  IsList(<<a, b, c>>) /\ Len(<<a, b, c>>) = 3 /\ ToSet(<<a, b, c>>) = {a, b, c}
<1>1. <<a, b, c>> \in Seq({a, b, c}) /\ Len(<<a, b, c>>) = 3
  OBVIOUS
<1>2. ToSet(<<a, b, c>>) = {a, b, c}
  BY DEF ToSet
<1> QED
  BY <1>1, <1>2 DEF IsList

\* Four.
LEMMA TupleOfFour ==
    ASSUME NEW a, NEW b, NEW c, NEW d
    PROVE  IsList(<<a, b, c, d>>) /\ ToSet(<<a, b, c, d>>) = {a, b, c, d}
<1>1. <<a, b, c, d>> \in Seq({a, b, c, d})
  OBVIOUS
<1>2. ToSet(<<a, b, c, d>>) = {a, b, c, d}
  BY DEF ToSet
<1> QED
  BY <1>1, <1>2 DEF IsList

\* Five.
LEMMA TupleOfFive ==
    ASSUME NEW a, NEW b, NEW c, NEW d, NEW e
    PROVE  IsList(<<a, b, c, d, e>>) /\ ToSet(<<a, b, c, d, e>>) = {a, b, c, d, e}
<1>1. <<a, b, c, d, e>> \in Seq({a, b, c, d, e})
  OBVIOUS
<1>2. ToSet(<<a, b, c, d, e>>) = {a, b, c, d, e}
  BY DEF ToSet
<1> QED
  BY <1>1, <1>2 DEF IsList

\* The empty list holds nothing.
LEMMA EmptySet == ToSet(<<>>) = {} /\ IsList(<<>>)
  BY EmptyIsList DEF ToSet

\* The server's startup options.
LEMMA StartupFlagsAre ==
    ASSUME NEW conf
    PROVE  /\ IsList(StartupFlags(conf))
           /\ \A x \in ToSet(StartupFlags(conf)) :
                  /\ x.flag \in {"--output_user_root", "--max_idle_secs"}
                  /\ x.form = "eq"
<1> DEFINE two == <<Setting("--output_user_root", "root"), Setting("--max_idle_secs", "idle")>>
<1>1. IsList(two) /\ ToSet(two) = {Setting("--output_user_root", "root"), Setting("--max_idle_secs", "idle")}
  BY TupleOfTwo
<1>2. StartupFlags(conf) = two \/ StartupFlags(conf) = <<>>
  BY DEF StartupFlags
<1> HIDE DEF two
<1>3. \A x \in ToSet(two) : x.flag \in {"--output_user_root", "--max_idle_secs"} /\ x.form = "eq"
  BY <1>1 DEF Setting
<1> QED
  BY <1>1, <1>2, <1>3, EmptySet

\* The flag that gives Bazel the id of the invocation.
InvocationFlag == Setting("--invocation_id", "id")

\* The flags the server sets whatever the transport.
OtherFlags ==
    {Setting("--tool_tag", "bazel-mcp"), Setting("--color", "no"), Setting("--curses", "no"),
     Setting("--show_progress", "false"), Setting("--show_result", "0"),
     Setting("--test_output", "errors"), Setting("--test_summary", "short"),
     Setting("--run", "true"), Setting("--omit_run_args", "true"),
     Bare("--noexperimental_run_bep_event_include_residue"), Setting("--subcommands", "false")}

\* The flags that keep Bazel quiet.
LEMMA QuietFlags == IsList(Quiet) /\ ToSet(Quiet) \subseteq OtherFlags
  BY TupleOfFive DEF Quiet, OtherFlags

\* The flags for tests.
LEMMA TestFlagsAre ==
    ASSUME NEW command
    PROVE  IsList(TestFlags(command)) /\ ToSet(TestFlags(command)) \subseteq OtherFlags
<1> DEFINE two == <<Setting("--test_output", "errors"), Setting("--test_summary", "short")>>
<1>1. IsList(two) /\ ToSet(two) \subseteq OtherFlags
  BY TupleOfTwo DEF OtherFlags
<1>2. TestFlags(command) = two \/ TestFlags(command) = <<>>
  BY DEF TestFlags
<1> HIDE DEF two
<1> QED
  BY <1>1, <1>2, EmptySet

\* The flags for a run.
LEMMA RunFlagsAre ==
    ASSUME NEW command
    PROVE  IsList(RunFlags(command)) /\ ToSet(RunFlags(command)) \subseteq OtherFlags
<1> DEFINE four == <<Setting("--run", "true"), Setting("--omit_run_args", "true"),
                     Bare("--noexperimental_run_bep_event_include_residue"),
                     Setting("--subcommands", "false")>>
<1>1. IsList(four) /\ ToSet(four) \subseteq OtherFlags
  BY TupleOfFour DEF OtherFlags
<1>2. RunFlags(command) = four \/ RunFlags(command) = <<>>
  BY DEF RunFlags
<1> HIDE DEF four
<1> QED
  BY <1>1, <1>2, EmptySet

\* Where Bazel writes its events, if it writes them to a file.
EventValue(transport, fifo) == IF transport = "fifo" /\ fifo THEN "fifo" ELSE "bep"

\* The settings that tell Bazel where its events go.
EventSet(transport, fifo) ==
    IF transport = "bes"
    THEN {Setting("--bes_backend", "endpoint"),
          Setting("--bes_upload_mode", "wait_for_upload_complete")}
    ELSE {Setting("--build_event_binary_file", EventValue(transport, fifo)),
          Setting("--build_event_binary_file_path_conversion", "false")}

\* event_flags are these settings.
LEMMA EventFlagsAre ==
    ASSUME NEW transport, NEW fifo
    PROVE  /\ IsList(EventFlags(transport, fifo))
           /\ ToSet(EventFlags(transport, fifo)) = EventSet(transport, fifo)
<1> DEFINE bes == <<Setting("--bes_backend", "endpoint"),
                    Setting("--bes_upload_mode", "wait_for_upload_complete")>>
           file == <<Setting("--build_event_binary_file", EventValue(transport, fifo)),
                     Setting("--build_event_binary_file_path_conversion", "false")>>
<1>1. /\ IsList(bes) /\ ToSet(bes) = {Setting("--bes_backend", "endpoint"),
                                      Setting("--bes_upload_mode", "wait_for_upload_complete")}
      /\ IsList(file) /\ ToSet(file) = {Setting("--build_event_binary_file", EventValue(transport, fifo)),
                                        Setting("--build_event_binary_file_path_conversion", "false")}
  BY TupleOfTwo
<1>2. EventFlags(transport, fifo) = IF transport = "bes" THEN bes ELSE file
  BY DEF EventFlags, EventValue
<1> HIDE DEF bes, file
<1> QED
  BY <1>1, <1>2 DEF EventSet

\* What the server puts behind the command of a Bazel line.
BazelFlagList(conf, command, class, fifo) ==
    IF CapturesBep(class)
    THEN <<InvocationFlag>> \o EventFlags(conf.transport, fifo) \o Quiet \o TestFlags(command)
           \o RunFlags(command)
    ELSE <<>>

\* The flags of a Bazel command line, and when the settings for events are there.
LEMMA BazelFlagListIs ==
    ASSUME NEW conf, NEW command, NEW class, NEW fifo
    PROVE  /\ IsList(BazelFlagList(conf, command, class, fifo))
           /\ ToSet(BazelFlagList(conf, command, class, fifo))
                \subseteq {InvocationFlag} \cup EventSet(conf.transport, fifo) \cup OtherFlags
           /\ CapturesBep(class) =>
                  EventSet(conf.transport, fifo) \subseteq ToSet(BazelFlagList(conf, command, class, fifo))
           /\ ~CapturesBep(class) => ToSet(BazelFlagList(conf, command, class, fifo)) = {}
<1> DEFINE i == <<InvocationFlag>>
           e == EventFlags(conf.transport, fifo)
           t == TestFlags(command)
           u == RunFlags(command)
           q == Quiet
<1>1. IsList(i) /\ ToSet(i) = {InvocationFlag}
  BY TupleOfOne
<1>2. IsList(e) /\ ToSet(e) = EventSet(conf.transport, fifo)
  BY EventFlagsAre
<1>3. IsList(q) /\ ToSet(q) \subseteq OtherFlags
  BY QuietFlags
<1>4. IsList(t) /\ ToSet(t) \subseteq OtherFlags
  BY TestFlagsAre
<1>5. IsList(u) /\ ToSet(u) \subseteq OtherFlags
  BY RunFlagsAre
<1>6. BazelFlagList(conf, command, class, fifo)
        = IF CapturesBep(class) THEN i \o e \o q \o t \o u ELSE <<>>
  BY DEF BazelFlagList
<1> HIDE DEF i, e, q, t, u
<1>7. IsList(i \o e) /\ ToSet(i \o e) = ToSet(i) \cup ToSet(e)
  BY <1>1, <1>2, ListConcat
<1>8. IsList(i \o e \o q) /\ ToSet(i \o e \o q) = ToSet(i \o e) \cup ToSet(q)
  BY <1>3, <1>7, ListConcat
<1>9. IsList(i \o e \o q \o t) /\ ToSet(i \o e \o q \o t) = ToSet(i \o e \o q) \cup ToSet(t)
  BY <1>4, <1>8, ListConcat
<1>10. IsList(i \o e \o q \o t \o u) /\ ToSet(i \o e \o q \o t \o u) = ToSet(i \o e \o q \o t) \cup ToSet(u)
  BY <1>5, <1>9, ListConcat
<1>11. CASE CapturesBep(class)
  <2> DEFINE z == i \o e \o q \o t \o u
  <2>1. /\ IsList(z)
        /\ ToSet(z) = ToSet(i) \cup ToSet(e) \cup ToSet(q) \cup ToSet(t) \cup ToSet(u)
    BY <1>7, <1>8, <1>9, <1>10
  <2> HIDE DEF z
  <2>2. BazelFlagList(conf, command, class, fifo) = z
    BY <1>6, <1>11 DEF z
  <2> QED
    BY <1>1, <1>2, <1>3, <1>4, <1>5, <1>11, <2>1, <2>2
<1>12. CASE ~CapturesBep(class)
  BY <1>6, <1>12, EmptySet
<1> QED
  BY <1>11, <1>12

\* A token at a position of a line is one of a part that starts behind low.
Within1(line, low, part) == \A k \in 1 .. Len(part) : line[low + k] = part[k]

\* A line is five parts, one behind the other.
Parts(line, p, w, e, a, r) ==
    /\ IsList(line)
    /\ Len(line) = Len(p) + Len(w) + Len(e) + Len(a) + Len(r)
    /\ Within1(line, 0, p) /\ Within1(line, Len(p), w) /\ Within1(line, Len(p) + Len(w), e)
    /\ Within1(line, Len(p) + Len(w) + Len(e), a)
    /\ Within1(line, Len(p) + Len(w) + Len(e) + Len(a), r)

\* One more part behind what is there.
LEMMA PartAdded ==
    ASSUME NEW s, NEW t, IsList(s), IsList(t)
    PROVE  /\ IsList(s \o t) /\ Len(s \o t) = Len(s) + Len(t)
           /\ Within1(s \o t, Len(s), t)
           /\ \A low \in Nat : \A part : IsList(part) /\ low + Len(part) <= Len(s) /\ Within1(s, low, part)
                  => Within1(s \o t, low, part)
<1>1. /\ IsList(s \o t) /\ Len(s \o t) = Len(s) + Len(t)
      /\ \A k \in 1 .. Len(s) : (s \o t)[k] = s[k]
      /\ \A k \in 1 .. Len(t) : (s \o t)[Len(s) + k] = t[k]
  BY ListConcat
<1> DEFINE u == s \o t
<1> HIDE DEF u
<1>2. ASSUME NEW low \in Nat, NEW part, IsList(part), low + Len(part) <= Len(s), Within1(s, low, part)
      PROVE  Within1(u, low, part)
  <2>1. Len(part) \in Nat /\ Len(s) \in Nat
    BY <1>2, ListFacts
  <2>2. ASSUME NEW k \in 1 .. Len(part) PROVE u[low + k] = part[k]
    <3>1. low + k \in 1 .. Len(s)
      BY <1>2, <2>1
    <3>2. u[low + k] = s[low + k]
      BY <1>1, <3>1 DEF u
    <3> QED
      BY <1>2, <3>2 DEF Within1
  <2> QED
    BY <2>2 DEF Within1
<1> QED
  BY <1>1, <1>2 DEF Within1, u

\* A concatenation of five lists has them as its parts.
LEMMA FiveParts ==
    ASSUME NEW p, NEW w, NEW e, NEW a, NEW r,
           IsList(p), IsList(w), IsList(e), IsList(a), IsList(r)
    PROVE  Parts(p \o w \o e \o a \o r, p, w, e, a, r)
<1> DEFINE s2 == p \o w
           s3 == s2 \o e
           s4 == s3 \o a
           s5 == s4 \o r
<1>0. /\ Len(p) \in Nat /\ Len(w) \in Nat /\ Len(e) \in Nat /\ Len(a) \in Nat /\ Len(r) \in Nat
  BY ListFacts
<1>1. Within1(p, 0, p)
  BY <1>0 DEF Within1
<1>2. /\ IsList(s2) /\ Len(s2) = Len(p) + Len(w) /\ Within1(s2, Len(p), w)
      /\ \A low \in Nat : \A part : IsList(part) /\ low + Len(part) <= Len(p) /\ Within1(p, low, part)
                  => Within1(s2, low, part)
  BY PartAdded
<1>3. Within1(s2, 0, p)
  <2>1. PICK z \in Nat : z = 0
    OBVIOUS
  <2>2. z + Len(p) <= Len(p)
    BY <1>0, <2>1
  <2> HIDE DEF s2
  <2> QED
    BY <1>1, <1>2, <2>1, <2>2
<1> HIDE DEF s2
<1>4. /\ IsList(s3) /\ Len(s3) = Len(s2) + Len(e) /\ Within1(s3, Len(s2), e)
      /\ \A low \in Nat : \A part : IsList(part) /\ low + Len(part) <= Len(s2) /\ Within1(s2, low, part)
                  => Within1(s3, low, part)
  BY <1>2, PartAdded
<1> HIDE DEF s3
<1>5. Within1(s3, 0, p) /\ Within1(s3, Len(p), w)
  <2>1. PICK z \in Nat : z = 0
    OBVIOUS
  <2>2. z + Len(p) <= Len(s2) /\ Len(p) + Len(w) <= Len(s2)
    BY <1>0, <1>2, <2>1
  <2> QED
    BY <1>0, <1>2, <1>3, <1>4, <2>1, <2>2
<1>6. /\ IsList(s4) /\ Len(s4) = Len(s3) + Len(a) /\ Within1(s4, Len(s3), a)
      /\ \A low \in Nat : \A part : IsList(part) /\ low + Len(part) <= Len(s3) /\ Within1(s3, low, part)
                  => Within1(s4, low, part)
  BY <1>4, PartAdded
<1> HIDE DEF s4
<1>7. Within1(s4, 0, p) /\ Within1(s4, Len(p), w) /\ Within1(s4, Len(s2), e)
  <2>1. PICK z \in Nat : z = 0
    OBVIOUS
  <2>2. /\ z + Len(p) <= Len(s3) /\ Len(p) + Len(w) <= Len(s3) /\ Len(s2) + Len(e) <= Len(s3)
        /\ Len(s2) \in Nat
    BY <1>0, <1>2, <1>4, <2>1
  <2> QED
    BY <1>0, <1>4, <1>5, <1>6, <2>1, <2>2
<1>8. /\ IsList(s5) /\ Len(s5) = Len(s4) + Len(r) /\ Within1(s5, Len(s4), r)
      /\ \A low \in Nat : \A part : IsList(part) /\ low + Len(part) <= Len(s4) /\ Within1(s4, low, part)
                  => Within1(s5, low, part)
  BY <1>6, PartAdded
<1> HIDE DEF s5
<1>9. Within1(s5, 0, p) /\ Within1(s5, Len(p), w) /\ Within1(s5, Len(s2), e) /\ Within1(s5, Len(s3), a)
  <2>1. PICK z \in Nat : z = 0
    OBVIOUS
  <2>2. /\ z + Len(p) <= Len(s4) /\ Len(p) + Len(w) <= Len(s4) /\ Len(s2) + Len(e) <= Len(s4)
        /\ Len(s3) + Len(a) <= Len(s4) /\ Len(s2) \in Nat /\ Len(s3) \in Nat
    BY <1>0, <1>2, <1>4, <1>6, <2>1
  <2> QED
    BY <1>0, <1>6, <1>7, <1>8, <2>1, <2>2
<1>10. Parts(s5, p, w, e, a, r)
  BY <1>0, <1>2, <1>4, <1>6, <1>8, <1>9 DEF Parts
<1> QED
  BY <1>10 DEF s2, s3, s4, s5

\* Where a position of the line is.
LEMMA PartOf ==
    ASSUME NEW line, NEW p, NEW w, NEW e, NEW a, NEW r,
           IsList(p), IsList(w), IsList(e), IsList(a), IsList(r), Parts(line, p, w, e, a, r),
           NEW k \in DOMAIN line
    PROVE  \/ \E j \in 1 .. Len(p) : k = j /\ line[k] = p[j]
           \/ \E j \in 1 .. Len(w) : k = Len(p) + j /\ line[k] = w[j]
           \/ \E j \in 1 .. Len(e) : k = Len(p) + Len(w) + j /\ line[k] = e[j]
           \/ \E j \in 1 .. Len(a) : k = Len(p) + Len(w) + Len(e) + j /\ line[k] = a[j]
           \/ \E j \in 1 .. Len(r) : k = Len(p) + Len(w) + Len(e) + Len(a) + j /\ line[k] = r[j]
<1>0. /\ Len(p) \in Nat /\ Len(w) \in Nat /\ Len(e) \in Nat /\ Len(a) \in Nat /\ Len(r) \in Nat
  BY ListFacts
<1>1. k \in 1 .. Len(p) + Len(w) + Len(e) + Len(a) + Len(r)
  BY ListFacts DEF Parts
<1>2. CASE k <= Len(p)
  <2>1. k \in 1 .. Len(p) /\ 0 + k = k
    BY <1>0, <1>1, <1>2
  <2> QED
    BY <2>1 DEF Parts, Within1
<1>3. CASE k > Len(p) /\ k <= Len(p) + Len(w)
  <2>1. PICK j \in 1 .. Len(w) : k = Len(p) + j
    <3>1. k - Len(p) \in 1 .. Len(w) /\ k = Len(p) + (k - Len(p))
      BY <1>0, <1>1, <1>3
    <3> QED
      BY <3>1
  <2> QED
    BY <2>1 DEF Parts, Within1
<1>4. CASE k > Len(p) + Len(w) /\ k <= Len(p) + Len(w) + Len(e)
  <2>1. PICK j \in 1 .. Len(e) : k = Len(p) + Len(w) + j
    <3>1. k - (Len(p) + Len(w)) \in 1 .. Len(e) /\ k = Len(p) + Len(w) + (k - (Len(p) + Len(w)))
      BY <1>0, <1>1, <1>4
    <3> QED
      BY <3>1
  <2> QED
    BY <2>1 DEF Parts, Within1
<1>5. CASE k > Len(p) + Len(w) + Len(e) /\ k <= Len(p) + Len(w) + Len(e) + Len(a)
  <2>1. PICK j \in 1 .. Len(a) : k = Len(p) + Len(w) + Len(e) + j
    <3>1. /\ k - (Len(p) + Len(w) + Len(e)) \in 1 .. Len(a)
          /\ k = Len(p) + Len(w) + Len(e) + (k - (Len(p) + Len(w) + Len(e)))
      BY <1>0, <1>1, <1>5
    <3> QED
      BY <3>1
  <2> QED
    BY <2>1 DEF Parts, Within1
<1>6. CASE k > Len(p) + Len(w) + Len(e) + Len(a)
  <2>1. PICK j \in 1 .. Len(r) : k = Len(p) + Len(w) + Len(e) + Len(a) + j
    <3>1. /\ k - (Len(p) + Len(w) + Len(e) + Len(a)) \in 1 .. Len(r)
          /\ k = Len(p) + Len(w) + Len(e) + Len(a) + (k - (Len(p) + Len(w) + Len(e) + Len(a)))
      BY <1>0, <1>1, <1>6
    <3> QED
      BY <3>1
  <2> QED
    BY <2>1 DEF Parts, Within1
<1> QED
  BY <1>0, <1>1, <1>2, <1>3, <1>4, <1>5, <1>6

\* The five parts of a Bazel command line.
HeadPart(conf, call) == Server(StartupFlags(conf)) \o Caller(call.startup)
\* The command.
WordPart(call) == Server(<<Word(call.command)>>)
\* The server's flags.
FlagPart(conf, call, class, fifo) == Server(BazelFlagList(conf, call.command, class, fifo))
\* The caller's arguments.
OwnPart(call) == Caller(call.arguments)
\* The target, the delimiter and the arguments of the program that is run.
RunPart(call) ==
    IF call.command = "run"
    THEN Caller(call.target) \o Server(<<Delimiter>>) \o Caller(call.program) ELSE <<>>

\* A list that holds one thing.
LEMMA OneToken ==
    ASSUME NEW x, NEW who
    PROVE  /\ IsList(By(who, <<x>>)) /\ Len(By(who, <<x>>)) = 1
           /\ By(who, <<x>>)[1] = [by |-> who, arg |-> x]
<1> DEFINE s == <<x>>
<1>1. IsList(s) /\ Len(s) = 1 /\ s[1] = x /\ 1 \in 1 .. Len(s)
  BY TupleOfOne
<1> HIDE DEF s
<1>2. /\ IsList(By(who, s)) /\ Len(By(who, s)) = Len(s)
      /\ \A k \in 1 .. Len(s) : By(who, s)[k] = [by |-> who, arg |-> s[k]]
  BY <1>1, ByIsList
<1> QED
  BY <1>1, <1>2 DEF s

\* Nothing contributes nothing.
LEMMA NoTokens == Server(<<>>) = <<>>
  BY DEF Server, By

\* What a call's lists are.
LEMMA CallLists ==
    ASSUME NEW call, IsCall(call)
    PROVE  /\ IsList(call.startup) /\ IsList(call.arguments) /\ IsList(call.target)
           /\ IsList(call.program) /\ Len(call.target) <= 1
           /\ \A a \in ToSet(call.arguments) : a.form = "word" <=> a.flag = ""
           /\ \A a \in ToSet(call.target) : a.form = "word" <=> a.flag = ""
<1>1. /\ call.startup \in Seq(Arguments) /\ call.arguments \in Seq(Arguments)
      /\ call.target \in Seq(Arguments) /\ call.program \in Seq(Arguments)
      /\ Len(call.target) <= 1
  BY DEF IsCall
<1>2. /\ IsList(call.startup) /\ IsList(call.arguments) /\ IsList(call.target)
      /\ IsList(call.program)
  BY <1>1, ListOf
<1>3. ToSet(call.arguments) \subseteq Arguments /\ ToSet(call.target) \subseteq Arguments
  BY <1>1 DEF ToSet
<1>4. \A a \in Arguments : a.form = "word" <=> a.flag = ""
  BY DEF Arguments
<1> QED
  BY <1>1, <1>2, <1>3, <1>4

\* The parts are lists, and the line is their concatenation.
LEMMA PartsAreLists ==
    ASSUME NEW conf, NEW call, IsCall(call), NEW class, NEW fifo
    PROVE  /\ IsList(HeadPart(conf, call)) /\ IsList(WordPart(call))
           /\ IsList(FlagPart(conf, call, class, fifo)) /\ IsList(OwnPart(call))
           /\ IsList(RunPart(call))
           /\ BazelLine(conf, call, class, fifo)
                = HeadPart(conf, call) \o WordPart(call) \o FlagPart(conf, call, class, fifo)
                    \o OwnPart(call) \o RunPart(call)
<1>1. /\ IsList(call.startup) /\ IsList(call.arguments) /\ IsList(call.target)
      /\ IsList(call.program) /\ IsList(StartupFlags(conf))
      /\ IsList(BazelFlagList(conf, call.command, class, fifo))
  BY CallLists, StartupFlagsAre, BazelFlagListIs
<1>2. /\ IsList(Caller(call.startup)) /\ IsList(Caller(call.arguments)) /\ IsList(Caller(call.target))
      /\ IsList(Caller(call.program)) /\ IsList(Server(StartupFlags(conf)))
      /\ IsList(Server(BazelFlagList(conf, call.command, class, fifo)))
  BY <1>1, ByIsList DEF Caller, Server
<1>3. IsList(Server(<<Word(call.command)>>)) /\ IsList(Server(<<Delimiter>>))
  BY OneToken DEF Server
<1>4. IsList(HeadPart(conf, call))
  BY <1>2, ListConcat DEF HeadPart
<1>5. IsList(RunPart(call))
  <2>1. IsList(Caller(call.target) \o Server(<<Delimiter>>))
    BY <1>2, <1>3, ListConcat
  <2>2. IsList((Caller(call.target) \o Server(<<Delimiter>>)) \o Caller(call.program))
    BY <1>2, <2>1, ListConcat
  <2> QED
    BY <2>2, EmptyIsList DEF RunPart
<1>6. FlagPart(conf, call, class, fifo)
        = IF CapturesBep(class)
          THEN Server(<<Setting("--invocation_id", "id")>>
                        \o EventFlags(conf.transport, fifo) \o Quiet
                        \o TestFlags(call.command) \o RunFlags(call.command))
          ELSE <<>>
  BY NoTokens DEF FlagPart, BazelFlagList, InvocationFlag
<1>7. BazelLine(conf, call, class, fifo)
        = HeadPart(conf, call) \o WordPart(call) \o FlagPart(conf, call, class, fifo)
            \o OwnPart(call) \o RunPart(call)
  BY <1>6 DEF BazelLine, HeadPart, WordPart, OwnPart, RunPart
<1> QED
  BY <1>2, <1>3, <1>4, <1>5, <1>7 DEF WordPart, FlagPart, OwnPart

\* The part in front of the command: the server's own are startup options.
LEMMA HeadTokens ==
    ASSUME NEW conf, NEW call, IsCall(call), NEW k \in 1 .. Len(HeadPart(conf, call)),
           HeadPart(conf, call)[k].by = "server"
    PROVE  HeadPart(conf, call)[k].arg.flag \in {"--output_user_root", "--max_idle_secs"}
<1> DEFINE s == StartupFlags(conf)
           a == Server(s)
           b == Caller(call.startup)
<1>1. IsList(call.startup) /\ IsList(s)
  BY CallLists, StartupFlagsAre
<1>2. /\ IsList(a) /\ Len(a) = Len(s)
      /\ \A i \in 1 .. Len(s) : a[i].by = "server" /\ a[i].arg = s[i]
  BY <1>1, ByIsList DEF Server
<1>3. /\ IsList(b) /\ Len(b) = Len(call.startup)
      /\ \A i \in 1 .. Len(call.startup) : b[i].by = "caller"
  BY <1>1, ByIsList DEF Caller
<1>4. \A i \in 1 .. Len(s) : s[i] \in ToSet(s)
  BY <1>1, ListFacts
<1>5. \A x \in ToSet(s) : x.flag \in {"--output_user_root", "--max_idle_secs"}
  BY StartupFlagsAre
<1>6. HeadPart(conf, call) = a \o b
  BY DEF HeadPart
<1> HIDE DEF s, a, b
<1>7. \/ k \in 1 .. Len(a) /\ (a \o b)[k] = a[k]
      \/ \E j \in 1 .. Len(b) : k = Len(a) + j /\ (a \o b)[k] = b[j]
  <2>1. k \in 1 .. Len(a \o b) /\ IsList(a) /\ IsList(b)
    BY <1>2, <1>3, <1>6
  <2> QED
    BY ONLY <2>1, ConcatPosition
<1> QED
  BY <1>2, <1>3, <1>4, <1>5, <1>6, <1>7

\* The part behind the arguments: the target, the delimiter and the program's own.
LEMMA RunTokens ==
    ASSUME NEW call, IsCall(call), call.command = "run"
    PROVE  /\ Len(RunPart(call)) = Len(call.target) + 1 + Len(call.program)
           /\ \A k \in 1 .. Len(call.target) : RunPart(call)[k] = [by |-> "caller", arg |-> call.target[k]]
           /\ RunPart(call)[Len(call.target) + 1] = [by |-> "server", arg |-> Delimiter]
           /\ \A k \in 1 .. Len(call.program) :
                  RunPart(call)[Len(call.target) + 1 + k] = [by |-> "caller", arg |-> call.program[k]]
<1> DEFINE t == Caller(call.target)
           d == Server(<<Delimiter>>)
           g == Caller(call.program)
<1>1. IsList(call.target) /\ IsList(call.program)
  BY CallLists
<1>2. /\ IsList(t) /\ Len(t) = Len(call.target)
      /\ \A k \in 1 .. Len(call.target) : t[k] = [by |-> "caller", arg |-> call.target[k]]
  BY <1>1, ByIsList DEF Caller
<1>3. /\ IsList(g) /\ Len(g) = Len(call.program)
      /\ \A k \in 1 .. Len(call.program) : g[k] = [by |-> "caller", arg |-> call.program[k]]
  BY <1>1, ByIsList DEF Caller
<1>4. IsList(d) /\ Len(d) = 1 /\ d[1] = [by |-> "server", arg |-> Delimiter]
  BY OneToken DEF Server
<1>5. RunPart(call) = t \o d \o g
  BY DEF RunPart
<1>6. Len(t) \in Nat /\ Len(g) \in Nat
  BY <1>2, <1>3, ListFacts
<1> HIDE DEF t, d, g
<1> DEFINE u == t \o d
<1>7. /\ IsList(u) /\ Len(u) = Len(t) + 1
      /\ \A k \in 1 .. Len(t) : u[k] = t[k]
      /\ u[Len(t) + 1] = d[1]
  <2>1. /\ IsList(u) /\ Len(u) = Len(t) + Len(d) /\ \A k \in 1 .. Len(t) : u[k] = t[k]
        /\ \A k \in 1 .. Len(d) : u[Len(t) + k] = d[k]
    <3>1. IsList(t) /\ IsList(d)
      BY <1>2, <1>4
    <3> QED
      BY ONLY <3>1, ListConcat
  <2>2. 1 \in 1 .. Len(d)
    BY <1>4
  <2> QED
    BY <1>4, <2>1, <2>2
<1> HIDE DEF u
<1> DEFINE v == u \o g
<1>8. /\ Len(v) = Len(u) + Len(g)
      /\ \A k \in 1 .. Len(u) : v[k] = u[k]
      /\ \A k \in 1 .. Len(g) : v[Len(u) + k] = g[k]
  <2>1. IsList(u) /\ IsList(g)
    BY <1>3, <1>7
  <2> QED
    BY ONLY <2>1, ListConcat
<1>9. RunPart(call) = v
  BY <1>5 DEF u
<1> HIDE DEF v
<1>10. \A k \in 1 .. Len(t) : k \in 1 .. Len(u)
  BY <1>6, <1>7
<1>11. Len(t) + 1 \in 1 .. Len(u)
  BY <1>6, <1>7
<1>12. \A k \in 1 .. Len(t) : v[k] = t[k]
  BY <1>7, <1>8, <1>10
<1>13. v[Len(t) + 1] = d[1]
  BY <1>7, <1>8, <1>11
<1>14. \A k \in 1 .. Len(g) : v[Len(t) + 1 + k] = g[k]
  BY <1>7, <1>8
<1>15. Len(v) = Len(t) + 1 + Len(g)
  BY <1>7, <1>8
<1> QED
  BY <1>2, <1>3, <1>4, <1>9, <1>12, <1>13, <1>14, <1>15

\* A token and its two sides.
LEMMA TokenIs ==
    ASSUME NEW token, NEW who, NEW x, token = [by |-> who, arg |-> x]
    PROVE  token.by = who /\ token.arg = x
  OBVIOUS

\* The flags the server sets are reserved.
LEMMA OtherAreReserved ==
    ASSUME NEW x \in OtherFlags
    PROVE  x.flag \in RESERVED_FLAGS
<1>1. \A f, v : Setting(f, v).flag = f /\ Bare(f).flag = f
  BY DEF Setting, Bare
<1>2. x.flag \in {"--tool_tag", "--color", "--curses", "--show_progress", "--show_result",
                  "--test_output", "--test_summary", "--run", "--omit_run_args",
                  "--noexperimental_run_bep_event_include_residue", "--subcommands"}
  BY <1>1 DEF OtherFlags
<1> QED
  BY <1>2 DEF RESERVED_FLAGS

\* What the server sets behind the command is set by no argument of the caller.
LEMMA FlagTokens ==
    ASSUME NEW conf, NEW call, IsCall(call), Permitted(conf, call),
           ~AspectRoutes(conf, call.command), NEW class, NEW fifo,
           NEW k \in 1 .. Len(FlagPart(conf, call, class, fifo))
    PROVE  /\ FlagPart(conf, call, class, fifo)[k].by = "server"
           /\ FlagPart(conf, call, class, fifo)[k].arg.flag \notin {"", "--task:id", "--"}
           /\ \A a \in ToSet(call.arguments) : a.flag # FlagPart(conf, call, class, fifo)[k].arg.flag
<1> DEFINE s == BazelFlagList(conf, call.command, class, fifo)
           x == s[k]
<1>1. IsList(s) /\ ToSet(s) \subseteq {InvocationFlag} \cup EventSet(conf.transport, fifo) \cup OtherFlags
  BY BazelFlagListIs
<1>2. FlagPart(conf, call, class, fifo) = Server(s)
  BY DEF FlagPart
<1> HIDE DEF s
<1>3. /\ Len(Server(s)) = Len(s)
      /\ \A i \in 1 .. Len(s) : Server(s)[i].by = "server" /\ Server(s)[i].arg = s[i]
  BY <1>1, ByIsList DEF Server
<1>4. k \in 1 .. Len(s)
  BY <1>2, <1>3
<1>5. x \in ToSet(s)
  BY <1>1, <1>4, ListFacts
<1> HIDE DEF x
<1>6. x \in {InvocationFlag} \cup EventSet(conf.transport, fifo) \cup OtherFlags
  BY <1>1, <1>5
<1>7. \/ x.flag \in RESERVED_FLAGS
      \/ conf.transport = "bes" /\ x.flag \in {"--bes_backend", "--bes_upload_mode"}
  <2>1. CASE x = InvocationFlag
    BY <2>1 DEF InvocationFlag, Setting, RESERVED_FLAGS
  <2>2. CASE x \in OtherFlags
    BY <2>2, OtherAreReserved
  <2>3. CASE x \in EventSet(conf.transport, fifo)
    BY <2>3 DEF EventSet, Setting, RESERVED_FLAGS
  <2> QED
    BY <1>6, <2>1, <2>2, <2>3
<1>8. x.flag \notin {"", "--task:id", "--"}
  BY <1>7 DEF RESERVED_FLAGS
<1>9. ASSUME NEW a \in ToSet(call.arguments), a.flag = x.flag PROVE FALSE
  <2>1. a.flag \notin RESERVED_FLAGS /\ (a.form = "word" <=> a.flag = "")
    BY CallLists DEF Permitted, Unreserved
  <2>2. conf.transport = "bes" /\ a.flag \in {"--bes_backend", "--bes_upload_mode"}
    BY <1>7, <1>9, <2>1
  <2>3. a.form # "word"
    BY <2>1, <2>2
  <2> QED
    BY <2>2, <2>3 DEF Permitted, BesIsApart
<1>10. FlagPart(conf, call, class, fifo)[k].by = "server" /\ FlagPart(conf, call, class, fifo)[k].arg = x
  BY <1>2, <1>3, <1>4 DEF x
<1> QED
  BY <1>8, <1>9, <1>10

\* The caller's own arguments.
LEMMA OwnTokens ==
    ASSUME NEW call, IsCall(call)
    PROVE  /\ Len(OwnPart(call)) = Len(call.arguments)
           /\ \A k \in 1 .. Len(OwnPart(call)) :
                  /\ OwnPart(call)[k].by = "caller" /\ OwnPart(call)[k].arg = call.arguments[k]
                  /\ OwnPart(call)[k].arg \in ToSet(call.arguments)
<1>1. IsList(call.arguments)
  BY CallLists
<1>2. /\ Len(Caller(call.arguments)) = Len(call.arguments)
      /\ \A k \in 1 .. Len(call.arguments) :
             Caller(call.arguments)[k].by = "caller" /\ Caller(call.arguments)[k].arg = call.arguments[k]
  BY <1>1, ByIsList DEF Caller
<1>3. \A k \in 1 .. Len(call.arguments) : call.arguments[k] \in ToSet(call.arguments)
  BY <1>1, ListFacts
<1> QED
  BY <1>2, <1>3 DEF OwnPart

(***************************************************************************)
(* On Bazel's command line no setting of the caller follows the server's.  *)
(***************************************************************************)
LEMMA BazelFlagsWin ==
    ASSUME NEW conf, NEW call, IsCall(call), Permitted(conf, call),
           ~AspectRoutes(conf, call.command), NEW class, NEW fifo
    PROVE  ServerFlagsWin(FALSE, BazelLine(conf, call, class, fifo))
<1> DEFINE p == HeadPart(conf, call)
           w == WordPart(call)
           e == FlagPart(conf, call, class, fifo)
           a == OwnPart(call)
           r == RunPart(call)
           line == BazelLine(conf, call, class, fifo)
           delimiter == [by |-> "server", arg |-> Delimiter]
<1>1. IsList(p) /\ IsList(w) /\ IsList(e) /\ IsList(a) /\ IsList(r) /\ line = p \o w \o e \o a \o r
  BY PartsAreLists
<1>2. \A k \in 1 .. Len(p) : p[k].by = "server" => p[k].arg.flag \in {"--output_user_root", "--max_idle_secs"}
  BY HeadTokens
<1>3. Len(w) = 1 /\ w[1].arg.form = "word"
  <2>1. Len(w) = 1 /\ w[1] = [by |-> "server", arg |-> Word(call.command)]
    BY OneToken DEF WordPart, Server
  <2>2. w[1].arg = Word(call.command)
    BY <2>1, TokenIs
  <2>3. Word(call.command).form = "word"
    BY DEF Word
  <2> QED
    BY <2>1, <2>2, <2>3
<1>4. \A k \in 1 .. Len(e) : /\ e[k].by = "server" /\ e[k].arg.flag \notin {"", "--task:id", "--"}
                             /\ \A x \in ToSet(call.arguments) : x.flag # e[k].arg.flag
  <2>1. TAKE k \in 1 .. Len(e)
  <2> QED
    BY FlagTokens
<1>5. \A k \in 1 .. Len(a) : a[k].by = "caller" /\ a[k].arg \in ToSet(call.arguments)
  BY OwnTokens
<1>6. ASSUME NEW k \in 1 .. Len(r)
      PROVE  /\ r[k].by = "server" => r[k].arg.form # "eq"
             /\ r[k].by = "caller" => \/ r[k].arg.flag = ""
                                      \/ \E j \in 1 .. k : r[j] = delimiter
  <2>1. CASE call.command = "run"
    <3> DEFINE t == Len(call.target)
               g == Len(call.program)
    <3>1. /\ Len(r) = t + 1 + g
          /\ \A i \in 1 .. t : r[i] = [by |-> "caller", arg |-> call.target[i]]
          /\ r[t + 1] = delimiter
          /\ \A i \in 1 .. g : r[t + 1 + i] = [by |-> "caller", arg |-> call.program[i]]
      BY <2>1, RunTokens
    <3>2. IsList(call.target) /\ IsList(call.program)
      BY CallLists
    <3>3. t \in Nat /\ g \in Nat /\ \A i \in 1 .. t : call.target[i] \in ToSet(call.target)
      BY <3>2, ListFacts
    <3>4. \A i \in 1 .. t : call.target[i].flag = ""
      BY <2>1, <3>3, CallLists DEF Permitted, RunIsApart
    <3> HIDE DEF r, t, g, delimiter
    <3>5. k \in 1 .. t \/ k = t + 1 \/ k > t + 1
      BY <3>3
    <3>6. CASE k \in 1 .. t
      <4>0. r[k] = [by |-> "caller", arg |-> call.target[k]]
        BY <3>1, <3>6
      <4>1. r[k].by = "caller" /\ r[k].arg = call.target[k]
        BY <4>0, TokenIs
      <4> QED
        BY <3>4, <3>6, <4>1
    <3>7. CASE k = t + 1
      <4>1. r[k].by = "server" /\ r[k].arg = Delimiter
        BY <3>1, <3>7, TokenIs DEF delimiter
      <4>2. Delimiter.form = "bare"
        BY DEF Delimiter, Bare
      <4> QED
        BY <4>1, <4>2
    <3>8. CASE k > t + 1
      <4>1. k - (t + 1) \in 1 .. g /\ k = t + 1 + (k - (t + 1)) /\ t + 1 \in 1 .. k
        BY <3>1, <3>3, <3>8
      <4>0. r[k] = [by |-> "caller", arg |-> call.program[k - (t + 1)]]
        BY <3>1, <4>1
      <4>2. r[k].by = "caller"
        BY <4>0, TokenIs
      <4> QED
        BY <3>1, <4>1, <4>2
    <3> QED
      BY <3>5, <3>6, <3>7, <3>8
  <2>2. CASE call.command # "run"
    <3>1. r = <<>>
      BY <2>2 DEF RunPart
    <3>2. Len(r) = 0
      BY <3>1
    <3>3. k \in 1 .. Len(r)
      OBVIOUS
    <3> HIDE DEF r
    <3>4. FALSE
      BY <3>2, <3>3
    <3> QED
      BY <3>4
  <2> QED
    BY <2>1, <2>2
<1>7. Parts(line, p, w, e, a, r)
  <2> HIDE DEF p, w, e, a, r, line
  <2> QED
    BY <1>1, FiveParts
<1> HIDE DEF p, w, e, a, r, line, delimiter
<1>17. IsList(p) /\ IsList(w) /\ IsList(e) /\ IsList(a) /\ IsList(r)
  BY <1>1
<1>8. /\ Len(p) \in Nat /\ Len(w) \in Nat /\ Len(e) \in Nat /\ Len(a) \in Nat /\ Len(r) \in Nat
  BY <1>1, ListFacts
<1>9. SUFFICES ASSUME NEW i \in DOMAIN line, NEW j \in DOMAIN line, i < j,
                      line[i].by = "server", line[j].by = "caller", line[i].arg.form = "eq",
                      ~\E k \in 1 .. j : line[k] = delimiter
               PROVE  /\ line[i].arg.flag \in BazelFlags => line[j].arg.flag # line[i].arg.flag
                      /\ line[i].arg.flag = "--task:id" => line[j].arg.flag # "--task:id"
  BY DEF ServerFlagsWin, Effect, delimiter, line
<1>10. DOMAIN line = 1 .. Len(p) + Len(w) + Len(e) + Len(a) + Len(r)
  BY <1>7, ListFacts DEF Parts
<1>11. CASE \E n \in 1 .. Len(p) : i = n /\ line[i] = p[n]
  <2>1. line[i].arg.flag \in {"--output_user_root", "--max_idle_secs"}
    BY <1>2, <1>9, <1>11
  <2> QED
    BY <2>1 DEF BazelFlags, RESERVED_FLAGS
<1>12. CASE \E n \in 1 .. Len(w) : i = Len(p) + n /\ line[i] = w[n]
  <2>1. line[i].arg.form = "word"
    BY <1>3, <1>12
  <2> QED
    BY <1>9, <2>1
<1>13. CASE \E n \in 1 .. Len(e) : i = Len(p) + Len(w) + n /\ line[i] = e[n]
  <2>1. PICK n \in 1 .. Len(e) : i = Len(p) + Len(w) + n /\ line[i] = e[n]
    BY <1>13
  <2>2. /\ line[i].arg.flag \notin {"", "--task:id", "--"}
        /\ \A x \in ToSet(call.arguments) : x.flag # line[i].arg.flag
    BY <1>4, <2>1
  <2>3. j > Len(p) + Len(w)
    BY <1>8, <1>9, <1>10, <2>1
  <2>4. CASE \E m \in 1 .. Len(e) : j = Len(p) + Len(w) + m /\ line[j] = e[m]
    BY <1>4, <1>9, <2>4
  <2>5. CASE \E m \in 1 .. Len(a) : j = Len(p) + Len(w) + Len(e) + m /\ line[j] = a[m]
    BY <1>5, <2>2, <2>5
  <2>6. CASE \E m \in 1 .. Len(r) : j = Len(p) + Len(w) + Len(e) + Len(a) + m /\ line[j] = r[m]
    <3>1. PICK m \in 1 .. Len(r) : j = Len(p) + Len(w) + Len(e) + Len(a) + m /\ line[j] = r[m]
      BY <2>6
    <3>2. r[m].arg.flag = "" \/ \E q \in 1 .. m : r[q] = delimiter
      BY <1>6, <1>9, <3>1
    <3>3. ASSUME NEW q \in 1 .. m, r[q] = delimiter PROVE FALSE
      <4> DEFINE z == Len(p) + Len(w) + Len(e) + Len(a) + q
      <4>1. z \in 1 .. j /\ q \in 1 .. Len(r)
        BY <1>8, <3>1
      <4>2. line[z] = r[q]
        BY <1>7, <4>1 DEF Parts, Within1
      <4> QED
        BY <1>9, <3>3, <4>1, <4>2
    <3> QED
      BY <2>2, <3>1, <3>2, <3>3
  <2>7. \/ \E m \in 1 .. Len(p) : j = m /\ line[j] = p[m]
        \/ \E m \in 1 .. Len(w) : j = Len(p) + m /\ line[j] = w[m]
        \/ \E m \in 1 .. Len(e) : j = Len(p) + Len(w) + m /\ line[j] = e[m]
        \/ \E m \in 1 .. Len(a) : j = Len(p) + Len(w) + Len(e) + m /\ line[j] = a[m]
        \/ \E m \in 1 .. Len(r) : j = Len(p) + Len(w) + Len(e) + Len(a) + m /\ line[j] = r[m]
    BY ONLY <1>17, <1>7, j \in DOMAIN line, PartOf
  <2>8. \A m \in 1 .. Len(p) : j # m
    BY <1>8, <1>10, <2>3
  <2>9. \A m \in 1 .. Len(w) : j # Len(p) + m
    BY <1>8, <1>10, <2>3
  <2> QED
    BY <2>4, <2>5, <2>6, <2>7, <2>8, <2>9
<1>14. CASE \E n \in 1 .. Len(a) : i = Len(p) + Len(w) + Len(e) + n /\ line[i] = a[n]
  BY <1>5, <1>9, <1>14
<1>15. CASE \E n \in 1 .. Len(r) : i = Len(p) + Len(w) + Len(e) + Len(a) + n /\ line[i] = r[n]
  BY <1>6, <1>9, <1>15
<1>16. \/ \E n \in 1 .. Len(p) : i = n /\ line[i] = p[n]
       \/ \E n \in 1 .. Len(w) : i = Len(p) + n /\ line[i] = w[n]
       \/ \E n \in 1 .. Len(e) : i = Len(p) + Len(w) + n /\ line[i] = e[n]
       \/ \E n \in 1 .. Len(a) : i = Len(p) + Len(w) + Len(e) + n /\ line[i] = a[n]
       \/ \E n \in 1 .. Len(r) : i = Len(p) + Len(w) + Len(e) + Len(a) + n /\ line[i] = r[n]
  BY ONLY <1>17, <1>7, i \in DOMAIN line, PartOf
<1> QED
  BY <1>11, <1>12, <1>13, <1>14, <1>15, <1>16

\* The server's own delimiter.
DelimiterToken == [by |-> "server", arg |-> Delimiter]

\* The boundary of a run: the target and the delimiter stand behind n tokens.
BoundaryAt(conf, call, line, n) ==
    /\ n \in Nat /\ Len(HeadPart(conf, call)) \in Nat /\ Len(HeadPart(conf, call)) < n
    /\ IsList(line) /\ IsList(call.program)
    /\ Len(line) = n + 2 + Len(call.program)
    /\ line[n + 1] = [by |-> "caller", arg |-> call.target[1]] /\ call.target[1].form = "word"
    /\ line[n + 2] = DelimiterToken
    /\ \A k \in 1 .. Len(call.program) : line[n + 2 + k] = [by |-> "caller", arg |-> call.program[k]]
    /\ \A k \in 1 .. n + 1 : line[k] # DelimiterToken
    /\ \A k \in Len(HeadPart(conf, call)) + 2 .. n :
           ~(line[k].by = "caller" /\ line[k].arg.form = "word") /\ line[k].arg # Delimiter

\* The command line of a run has a boundary.
LEMMA RunHasBoundary ==
    ASSUME NEW conf, NEW call, IsCall(call), Permitted(conf, call),
           ~AspectRoutes(conf, call.command), NEW class, NEW fifo, call.command = "run"
    PROVE  \E n : BoundaryAt(conf, call, BazelLine(conf, call, class, fifo), n)
<1> DEFINE p == HeadPart(conf, call)
           w == WordPart(call)
           e == FlagPart(conf, call, class, fifo)
           a == OwnPart(call)
           r == RunPart(call)
           line == BazelLine(conf, call, class, fifo)
           n == Len(p) + Len(w) + Len(e) + Len(a)
<1>0. Delimiter.form = "bare" /\ Delimiter.flag = "--" /\ DelimiterToken.by = "server"
      /\ DelimiterToken.arg = Delimiter
  <2>1. Delimiter.form = "bare" /\ Delimiter.flag = "--"
    BY DEF Delimiter, Bare
  <2> QED
    BY <2>1 DEF DelimiterToken
<1>1. IsList(p) /\ IsList(w) /\ IsList(e) /\ IsList(a) /\ IsList(r) /\ line = p \o w \o e \o a \o r
  BY PartsAreLists
<1>2. \A k \in 1 .. Len(p) : p[k].by = "server" => p[k].arg.flag \in {"--output_user_root", "--max_idle_secs"}
  BY HeadTokens
<1>3. Len(w) = 1 /\ w[1].arg.form = "word"
  <2>1. Len(w) = 1 /\ w[1] = [by |-> "server", arg |-> Word(call.command)]
    BY OneToken DEF WordPart, Server
  <2>2. w[1].arg = Word(call.command)
    BY <2>1, TokenIs
  <2>3. Word(call.command).form = "word"
    BY DEF Word
  <2> QED
    BY <2>1, <2>2, <2>3
<1>4. \A k \in 1 .. Len(e) : e[k].by = "server" /\ e[k].arg.flag # "--"
  <2>1. TAKE k \in 1 .. Len(e)
  <2> QED
    BY FlagTokens
<1>5. \A k \in 1 .. Len(a) : a[k].by = "caller" /\ a[k].arg # Delimiter /\ a[k].arg.form # "word"
  BY OwnTokens DEF Permitted, RunIsApart
<1>6. /\ Len(r) = Len(call.target) + 1 + Len(call.program)
      /\ \A k \in 1 .. Len(call.target) : r[k] = [by |-> "caller", arg |-> call.target[k]]
      /\ r[Len(call.target) + 1] = DelimiterToken
      /\ \A k \in 1 .. Len(call.program) :
             r[Len(call.target) + 1 + k] = [by |-> "caller", arg |-> call.program[k]]
  BY RunTokens DEF DelimiterToken
<1>7. /\ IsList(call.target) /\ IsList(call.program) /\ Len(call.target) = 1
      /\ Len(call.program) \in Nat /\ call.target[1].form = "word"
  <2>1. IsList(call.target) /\ IsList(call.program) /\ Len(call.target) <= 1 /\ call.target # <<>>
        /\ \A x \in ToSet(call.target) : x.form = "word"
    BY CallLists DEF Permitted, RunIsApart
  <2>2. /\ Len(call.target) \in Nat /\ Len(call.program) \in Nat
        /\ \A k \in 1 .. Len(call.target) : call.target[k] \in ToSet(call.target)
    BY <2>1, ListFacts
  <2>3. Len(call.target) # 0
    BY <2>1, <2>2 DEF IsList
  <2>5. \A m \in Nat : m <= 1 /\ m # 0 => m = 1 /\ 1 \in 1 .. m
    OBVIOUS
  <2>4. Len(call.target) = 1 /\ 1 \in 1 .. Len(call.target)
    BY <2>1, <2>2, <2>3, <2>5
  <2> QED
    BY <2>1, <2>2, <2>4
<1>8. Parts(line, p, w, e, a, r)
  <2> HIDE DEF p, w, e, a, r, line
  <2> QED
    BY <1>1, FiveParts
<1> HIDE DEF p, w, e, a, r, line
<1>9. IsList(p) /\ IsList(w) /\ IsList(e) /\ IsList(a) /\ IsList(r)
  BY <1>1
<1>10. /\ Len(p) \in Nat /\ Len(w) \in Nat /\ Len(e) \in Nat /\ Len(a) \in Nat /\ Len(r) \in Nat
  BY <1>9, ListFacts
<1>11. n \in Nat /\ Len(p) < n /\ Len(line) = n + 2 + Len(call.program) /\ IsList(line)
  <2>1. Len(line) = Len(p) + Len(w) + Len(e) + Len(a) + Len(r)
    BY <1>8 DEF Parts
  <2>3. IsList(line)
    BY <1>8 DEF Parts
  <2>2. Len(w) = 1 /\ Len(r) = Len(call.target) + 1 + Len(call.program) /\ Len(call.target) = 1
        /\ Len(call.program) \in Nat
    BY <1>3, <1>6, <1>7
  <2>4. n \in Nat /\ Len(p) < n
    BY ONLY <1>10, <2>2
  <2>6. PICK m \in Nat : m = Len(call.program)
    BY <2>2
  <2>7. Len(w) = 1 /\ Len(r) = 2 + m
    BY <2>2, <2>6
  <2>8. Len(line) = n + 2 + m
    BY ONLY <1>10, <2>1, <2>7
  <2>5. Len(line) = n + 2 + Len(call.program)
    BY <2>6, <2>8
  <2> QED
    BY <2>3, <2>4, <2>5
<1>12. DOMAIN line = 1 .. Len(line)
  BY <1>11, ListFacts
<1>13. \A k \in 1 .. Len(r) : line[n + k] = r[k]
  BY <1>8 DEF Parts, Within1
<1>14. /\ r[1] = [by |-> "caller", arg |-> call.target[1]] /\ r[2] = DelimiterToken
       /\ \A k \in 1 .. Len(call.program) : r[2 + k] = [by |-> "caller", arg |-> call.program[k]]
       /\ Len(r) = 2 + Len(call.program)
  BY <1>6, <1>7
<1>15. /\ line[n + 1] = r[1] /\ line[n + 2] = r[2]
       /\ \A k \in 1 .. Len(call.program) : line[n + 2 + k] = r[2 + k]
  <2>1. 1 \in 1 .. Len(r) /\ 2 \in 1 .. Len(r)
        /\ \A k \in 1 .. Len(call.program) : 2 + k \in 1 .. Len(r) /\ n + 2 + k = n + (2 + k)
    BY <1>7, <1>11, <1>14
  <2> QED
    BY <1>13, <2>1
<1>16. ASSUME NEW k \in 1 .. n + 1
       PROVE  /\ line[k] # DelimiterToken
              /\ k \in Len(p) + 2 .. n =>
                    ~(line[k].by = "caller" /\ line[k].arg.form = "word") /\ line[k].arg # Delimiter
  <2>1. k \in DOMAIN line
    <3>1. Len(call.program) \in Nat
      BY <1>7
    <3>4. PICK m \in Nat : m = Len(call.program)
      BY <3>1
    <3> HIDE DEF n
    <3>3. n \in Nat /\ Len(line) = n + 2 + m
      BY <1>11, <3>4
    <3>2. k \in 1 .. Len(line)
      BY ONLY m \in Nat, <3>3, k \in 1 .. n + 1
    <3> QED
      BY <1>12, <3>2
  <2>2. \/ \E j \in 1 .. Len(p) : k = j /\ line[k] = p[j]
        \/ \E j \in 1 .. Len(w) : k = Len(p) + j /\ line[k] = w[j]
        \/ \E j \in 1 .. Len(e) : k = Len(p) + Len(w) + j /\ line[k] = e[j]
        \/ \E j \in 1 .. Len(a) : k = Len(p) + Len(w) + Len(e) + j /\ line[k] = a[j]
        \/ \E j \in 1 .. Len(r) : k = Len(p) + Len(w) + Len(e) + Len(a) + j /\ line[k] = r[j]
    BY ONLY <1>9, <1>8, <2>1, PartOf
  <2>3. CASE \E j \in 1 .. Len(p) : k = j /\ line[k] = p[j]
    <3>1. PICK j \in 1 .. Len(p) : k = j /\ line[k] = p[j]
      BY <2>3
    <3>2. k \notin Len(p) + 2 .. n
      BY <1>10, <3>1
    <3>3. line[k].by = "server" => line[k].arg.flag # "--"
      BY <1>2, <3>1
    <3> QED
      BY <1>0, <3>2, <3>3
  <2>4. CASE \E j \in 1 .. Len(w) : k = Len(p) + j /\ line[k] = w[j]
    <3>1. k = Len(p) + 1 /\ line[k].arg.form = "word"
      BY <1>3, <2>4
    <3>2. k \notin Len(p) + 2 .. n
      BY <1>10, <3>1
    <3> QED
      BY <1>0, <3>1, <3>2
  <2>5. CASE \E j \in 1 .. Len(e) : k = Len(p) + Len(w) + j /\ line[k] = e[j]
    <3>1. line[k].by = "server" /\ line[k].arg.flag # "--"
      BY <1>4, <2>5
    <3> QED
      BY <1>0, <3>1
  <2>6. CASE \E j \in 1 .. Len(a) : k = Len(p) + Len(w) + Len(e) + j /\ line[k] = a[j]
    <3>1. line[k].by = "caller" /\ line[k].arg # Delimiter /\ line[k].arg.form # "word"
      BY <1>5, <2>6
    <3> QED
      BY <1>0, <3>1
  <2>7. CASE \E j \in 1 .. Len(r) : k = Len(p) + Len(w) + Len(e) + Len(a) + j /\ line[k] = r[j]
    <3>1. k = n + 1 /\ line[k] = r[1]
      BY <1>10, <1>11, <2>7
    <3>2. line[k].by = "caller"
      BY <1>14, <3>1, TokenIs
    <3>3. k \notin Len(p) + 2 .. n
      BY <1>11, <3>1
    <3> QED
      BY <1>0, <3>2, <3>3
  <2> QED
    BY <2>2, <2>3, <2>4, <2>5, <2>6, <2>7
<1> HIDE DEF n
<1>17. \A k \in Len(p) + 2 .. n : k \in 1 .. n + 1
  BY <1>10, <1>11
<1>18. BoundaryAt(conf, call, line, n)
  <2>1. /\ n \in Nat /\ Len(p) \in Nat /\ Len(p) < n /\ IsList(line) /\ IsList(call.program)
        /\ Len(line) = n + 2 + Len(call.program) /\ call.target[1].form = "word"
    BY <1>7, <1>10, <1>11
  <2>2. /\ line[n + 1] = [by |-> "caller", arg |-> call.target[1]] /\ line[n + 2] = DelimiterToken
        /\ \A k \in 1 .. Len(call.program) : line[n + 2 + k] = [by |-> "caller", arg |-> call.program[k]]
    BY <1>14, <1>15
  <2>3. \A k \in 1 .. n + 1 : line[k] # DelimiterToken
    BY <1>16
  <2>4. \A k \in Len(p) + 2 .. n :
            ~(line[k].by = "caller" /\ line[k].arg.form = "word") /\ line[k].arg # Delimiter
    BY <1>16, <1>17
  <2> QED
    BY <2>1, <2>2, <2>3, <2>4 DEF BoundaryAt, p
<1> QED
  BY <1>18 DEF line

\* Where the command stands on a Bazel command line.
LEMMA CommandStands ==
    ASSUME NEW call, IsCall(call)
    PROVE  CommandAt(call) = Len(HeadPart(config, call)) + 1
<1> DEFINE p == HeadPart(config, call)
           two == <<Word("info"), Word("server_pid")>>
           t == Server(two)
<1>1. IsList(two) /\ Len(two) = 2
  BY TupleOfTwo
<1>2. ServerPidLine(config, call) = p \o t
  BY DEF ServerPidLine, HeadPart
<1>3. IsList(p)
  BY PartsAreLists
<1> HIDE DEF two
<1>4. IsList(t) /\ Len(t) = 2
  BY <1>1, ByIsList DEF Server
<1> HIDE DEF p, t
<1>5. Len(p \o t) = Len(p) + 2 /\ Len(p) \in Nat
  <2>1. IsList(p) /\ IsList(t)
    BY <1>3, <1>4
  <2>2. Len(p \o t) = Len(p) + Len(t) /\ Len(p) \in Nat
    BY ONLY <2>1, ListConcat, ListFacts
  <2> QED
    BY <1>4, <2>2
<1> QED
  BY <1>2, <1>5 DEF CommandAt, p

\* First finds the boundary.
LEMMA BoundaryIsFirst ==
    ASSUME NEW call, NEW line, NEW n, BoundaryAt(config, call, line, n)
    PROVE  First(line, ToSet(Server(<<Delimiter>>))) = n + 2
<1> DEFINE wanted == ToSet(Server(<<Delimiter>>))
           at == First(line, wanted)
<1>1. wanted = {DelimiterToken}
  <2> DEFINE s == Server(<<Delimiter>>)
  <2>1. IsList(s) /\ Len(s) = 1 /\ s[1] = DelimiterToken
    BY OneToken DEF Server, DelimiterToken
  <2> HIDE DEF s
  <2>2. ToSet(s) = {s[k] : k \in 1 .. Len(s)}
    BY <2>1, ListFacts
  <2>3. ToSet(s) = {DelimiterToken}
    BY <2>1, <2>2
  <2> QED
    BY <2>3 DEF s
<1> HIDE DEF wanted
<1>2. IsList(line) /\ n \in Nat /\ Len(line) = n + 2 + Len(call.program) /\ Len(call.program) \in Nat
  BY ListFacts DEF BoundaryAt
<1>3. DOMAIN line = 1 .. Len(line) /\ Len(line) \in Nat
  BY <1>2, ListFacts
<1>4. /\ at \in 1 .. Len(line) + 1
      /\ at \in DOMAIN line => line[at] \in wanted
      /\ \A k \in DOMAIN line : k < at => line[k] \notin wanted
  <2>1. line \in Seq(ToSet(line))
    BY <1>2 DEF IsList
  <2> QED
    BY <2>1, FirstIn
<1> HIDE DEF at
<1>5. n + 2 \in DOMAIN line /\ line[n + 2] = DelimiterToken
  <2>3. PICK m \in Nat : m = Len(call.program)
    BY <1>2
  <2>4. n \in Nat /\ Len(line) = n + 2 + m
    BY <1>2, <2>3
  <2>1. n + 2 \in 1 .. Len(line)
    BY ONLY m \in Nat, <2>4
  <2>2. line[n + 2] = DelimiterToken
    BY DEF BoundaryAt
  <2> QED
    BY <1>3, <2>1, <2>2
<1>6. ~(n + 2 < at)
  BY <1>1, <1>4, <1>5
<1>7. at \in DOMAIN line
  <2>1. n \in Nat /\ Len(line) \in Nat /\ n + 2 \in 1 .. Len(line) /\ at \in 1 .. Len(line) + 1
    BY <1>2, <1>3, <1>4, <1>5
  <2>2. at \in 1 .. Len(line)
    BY ONLY <1>6, <2>1
  <2> QED
    BY <1>3, <2>2
<1>8. line[at] = DelimiterToken
  BY <1>1, <1>4, <1>7
<1>9. at \notin 1 .. n + 1
  BY <1>8 DEF BoundaryAt
<1> QED
  BY <1>2, <1>3, <1>6, <1>7, <1>9 DEF at, wanted

(***************************************************************************)
(* On the command line of a run, the target is the one word between the    *)
(* command and the delimiter, and the program's arguments are behind it.   *)
(***************************************************************************)
LEMMA BazelBoundary ==
    ASSUME NEW call, IsCall(call), Permitted(config, call),
           ~AspectRoutes(config, call.command), NEW class, NEW fifo
    PROVE  RunBoundaryHolds(call, BazelLine(config, call, class, fifo))
<1> DEFINE line == BazelLine(config, call, class, fifo)
           at == First(line, ToSet(Server(<<Delimiter>>)))
           own == CommandAt(call) + 1 .. at - 1
<1>1. SUFFICES ASSUME call.command = "run"
               PROVE  /\ {k \in own : line[k].by = "caller" /\ line[k].arg.form = "word"} = {at - 1}
                      /\ line[at - 1].arg = call.target[1]
                      /\ ~\E k \in own : line[k].arg = Delimiter
                      /\ From(line, at + 1) = Caller(call.program)
  BY DEF RunBoundaryHolds
<1>2. PICK n : BoundaryAt(config, call, line, n)
  BY <1>1, RunHasBoundary
<1> HIDE DEF line
<1>3. at = n + 2
  BY <1>2, BoundaryIsFirst
<1> DEFINE b == Len(HeadPart(config, call))
<1> HIDE DEF at
<1>4. CommandAt(call) = b + 1
  BY CommandStands
<1> HIDE DEF b
<1>5. /\ n \in Nat /\ b \in Nat /\ b < n /\ IsList(line) /\ IsList(call.program)
      /\ Len(line) = n + 2 + Len(call.program)
      /\ line[n + 1] = [by |-> "caller", arg |-> call.target[1]] /\ call.target[1].form = "word"
      /\ \A k \in b + 2 .. n :
             ~(line[k].by = "caller" /\ line[k].arg.form = "word") /\ line[k].arg # Delimiter
  BY <1>2 DEF BoundaryAt, b
<1>6. \A k \in 1 .. Len(call.program) : line[n + 2 + k] = [by |-> "caller", arg |-> call.program[k]]
  BY <1>2 DEF BoundaryAt
<1>7. line[n + 1].by = "caller" /\ line[n + 1].arg = call.target[1]
  BY <1>5, TokenIs
<1>8. at - 1 = n + 1 /\ own = b + 2 .. n + 1 /\ at + 1 = n + 3
  BY <1>3, <1>4, <1>5
<1>15. n \in Nat /\ b \in Nat /\ b < n
  BY <1>5
<1>9. \A k \in own : k \in b + 2 .. n \/ k = n + 1
  <2>1. \A k \in b + 2 .. n + 1 : k \in b + 2 .. n \/ k = n + 1
    BY ONLY <1>15
  <2> QED
    BY <1>8, <2>1
<1>10. n + 1 \in own
  <2>1. n + 1 \in b + 2 .. n + 1
    BY ONLY <1>15
  <2> QED
    BY <1>8, <2>1
<1> HIDE DEF own
<1>11. {k \in own : line[k].by = "caller" /\ line[k].arg.form = "word"} = {at - 1}
  BY <1>5, <1>7, <1>8, <1>9, <1>10
<1>12. line[n + 1].arg # Delimiter
  <2>1. Delimiter.form = "bare"
    BY DEF Delimiter, Bare
  <2> QED
    BY <1>5, <1>7, <2>1
<1>13. ~\E k \in own : line[k].arg = Delimiter
  BY <1>5, <1>9, <1>12
<1>14. From(line, at + 1) = Caller(call.program)
  <2> DEFINE g == Caller(call.program)
             m == Len(call.program)
  <2>1. /\ IsList(g) /\ Len(g) = m
        /\ \A k \in 1 .. m : g[k] = [by |-> "caller", arg |-> call.program[k]]
    BY <1>5, ByIsList DEF Caller
  <2>2. m \in Nat /\ g \in Seq(ToSet(g)) /\ line \in Seq(ToSet(line))
    BY <1>5, <2>1, ListFacts DEF IsList
  <2> HIDE DEF g, m
  <2> DEFINE f == SubSeq(line, n + 3, n + 2 + m)
  <2>3. From(line, at + 1) = f
    BY <1>5, <1>8 DEF From, m
  <2>4. f = [i \in 1 .. m |-> line[n + 2 + i]]
    <3>1. (n + 2 + m) - (n + 3) + 1 = m /\ \A i \in 1 .. m : i + (n + 3) - 1 = n + 2 + i
      BY <1>5, <2>2
    <3>2. n + 3 \in Nat /\ n + 2 + m \in Nat
      BY <1>5, <2>2
    <3>3. f = [i \in 1 .. (n + 2 + m) - (n + 3) + 1 |-> line[i + (n + 3) - 1]]
      BY <2>2, <3>2
    <3> QED
      BY <3>1, <3>3
  <2>5. g = [i \in 1 .. m |-> g[i]]
    BY <2>1, <2>2
  <2>6. \A i \in 1 .. m : line[n + 2 + i] = g[i]
    BY <1>6, <2>1 DEF m
  <2> QED
    BY <2>3, <2>4, <2>5, <2>6 DEF g
<1> QED
  BY <1>7, <1>8, <1>11, <1>13, <1>14

\* A slice that holds what a list does is that list.
LEMMA SliceIs ==
    ASSUME NEW s, NEW p, IsList(s), IsList(p), Len(p) <= Len(s), \A k \in 1 .. Len(p) : s[k] = p[k]
    PROVE  SubSeq(s, 1, Len(p)) = p
<1>1. s \in Seq(ToSet(s)) /\ p \in Seq(ToSet(p)) /\ Len(s) \in Nat /\ Len(p) \in Nat
  BY ListFacts DEF IsList
<1>2. PICK m \in Nat : m = Len(p)
  BY <1>1
<1>3. SubSeq(s, 1, m) = [i \in 1 .. m |-> s[i]]
  BY <1>1, <1>2
<1>4. p = [i \in 1 .. m |-> p[i]]
  BY <1>1, <1>2
<1> QED
  BY <1>2, <1>3, <1>4

(***************************************************************************)
(* The probe for the server's process has the child's startup options.     *)
(***************************************************************************)
LEMMA BazelHasSameServer ==
    ASSUME NEW call, IsCall(call), NEW class, NEW fifo
    PROVE  SameServer(call, BazelLine(config, call, class, fifo))
<1> DEFINE p == HeadPart(config, call)
           w == WordPart(call)
           e == FlagPart(config, call, class, fifo)
           a == OwnPart(call)
           r == RunPart(call)
           line == BazelLine(config, call, class, fifo)
           two == <<Word("info"), Word("server_pid")>>
           t == Server(two)
           probe == ServerPidLine(config, call)
<1>1. IsList(p) /\ IsList(w) /\ IsList(e) /\ IsList(a) /\ IsList(r) /\ line = p \o w \o e \o a \o r
  BY PartsAreLists
<1>2. Len(w) = 1 /\ w[1] = [by |-> "server", arg |-> Word(call.command)]
  BY OneToken DEF WordPart, Server
<1>3. CommandAt(call) = Len(p) + 1
  BY CommandStands
<1>4. IsList(t)
  <2>1. IsList(two)
    BY TupleOfTwo
  <2> HIDE DEF two
  <2> QED
    BY <2>1, ByIsList DEF Server
<1>5. probe = p \o t
  BY DEF ServerPidLine, HeadPart
<1>6. Parts(line, p, w, e, a, r)
  <2> HIDE DEF p, w, e, a, r, line
  <2> QED
    BY <1>1, FiveParts
<1> HIDE DEF p, w, e, a, r, line, t, probe, two
<1>7. /\ IsList(probe) /\ Len(probe) = Len(p) + Len(t) /\ \A k \in 1 .. Len(p) : probe[k] = p[k]
  <2>1. IsList(p) /\ IsList(t)
    BY <1>1, <1>4
  <2>2. /\ IsList(p \o t) /\ Len(p \o t) = Len(p) + Len(t)
        /\ \A k \in 1 .. Len(p) : (p \o t)[k] = p[k]
    BY ONLY <2>1, ListConcat
  <2> QED
    BY <1>5, <2>2
<1>8. /\ Len(p) \in Nat /\ Len(w) \in Nat /\ Len(e) \in Nat /\ Len(a) \in Nat /\ Len(r) \in Nat
      /\ Len(t) \in Nat
  BY <1>1, <1>4, ListFacts
<1>9. IsList(line)
  BY <1>6 DEF Parts
<1>10. Len(line) = Len(p) + Len(w) + Len(e) + Len(a) + Len(r)
  BY <1>6 DEF Parts
<1>11. /\ \A k \in 1 .. Len(p) : line[0 + k] = p[k]
       /\ \A k \in 1 .. Len(w) : line[Len(p) + k] = w[k]
  BY <1>6 DEF Parts, Within1
<1>12. \A k \in 1 .. Len(p) : line[k] = p[k]
  <2>1. \A k \in 1 .. Len(p) : 0 + k = k
    BY <1>8
  <2> QED
    BY <1>11, <2>1
<1>13. line[Len(p) + 1] = w[1]
  BY <1>2, <1>11
<1>14. Len(p) <= Len(line) /\ Len(p) <= Len(probe)
  <2>1. Len(probe) = Len(p) + Len(t)
    BY <1>7
  <2> QED
    BY ONLY <1>8, <1>10, <2>1
<1>15. SubSeq(line, 1, Len(p)) = p
  BY <1>1, <1>9, <1>12, <1>14, SliceIs
<1>16. SubSeq(probe, 1, Len(p)) = p
  BY <1>1, <1>7, <1>14, SliceIs
<1>17. CommandAt(call) - 1 = Len(p)
  BY <1>3, <1>8
<1> QED
  BY <1>2, <1>3, <1>13, <1>15, <1>16, <1>17 DEF SameServer, line, probe

\* Bazel takes the command at the first word that is no option's value.
LEMMA FirstWordIsTaken ==
    ASSUME NEW line, IsList(line), NEW n \in 1 .. Len(line), line[n].arg.form = "word",
           n > 1 => ~TakesValue(line[n - 1].arg),
           \A k \in 1 .. n - 1 : line[k].arg.form = "word" => k > 1 /\ TakesValue(line[k - 1].arg)
    PROVE  CommandTaken(line) = line[n]
<1>1. Len(line) \in Nat /\ DOMAIN line = 1 .. Len(line)
  BY ListFacts
<1> DEFINE T == {k \in DOMAIN line : /\ line[k].arg.form = "word"
                                     /\ k > 1 => ~TakesValue(line[k - 1].arg)}
<1>2. n \in T /\ T \subseteq Nat
  BY <1>1
<1>3. \A k \in T : n <= k
  <2>1. SUFFICES ASSUME NEW k \in T, k < n PROVE FALSE
    BY <1>1
  <2>2. k \in 1 .. n - 1
    BY <1>1, <2>1
  <2> QED
    BY <2>1, <2>2
<1>4. CommandTaken(line) = line[Min(T)]
  BY DEF CommandTaken
<1> HIDE DEF T
<1>5. Min(T) \in T /\ \A y \in T : Min(T) <= y
  BY <1>2, LeastIs
<1>6. Min(T) = n
  <2>1. PICK m \in Nat : m = Min(T)
    BY <1>2, <1>5
  <2>2. m <= n /\ n <= m
    BY <1>2, <1>3, <1>5, <2>1
  <2> QED
    BY <2>1, <2>2
<1> QED
  BY <1>4, <1>6

\* In front of the command every word is the value of an option, and no option waits
\* for the command.
LEMMA HeadIsOptions ==
    ASSUME NEW conf, NEW call, IsCall(call), StartupIsOptions(call.startup)
    PROVE  LET p == HeadPart(conf, call)
           IN  /\ \A k \in 1 .. Len(p) :
                      p[k].arg.form = "word" => k > 1 /\ TakesValue(p[k - 1].arg)
               /\ \A k \in 1 .. Len(p) : k = Len(p) => ~TakesValue(p[k].arg)
<1> DEFINE s == StartupFlags(conf)
           t == call.startup
           a == Server(s)
           b == Caller(t)
           p == HeadPart(conf, call)
<1>1. IsList(t) /\ IsList(s)
  BY CallLists, StartupFlagsAre
<1>2. /\ IsList(a) /\ Len(a) = Len(s)
      /\ \A i \in 1 .. Len(s) : a[i].arg = s[i]
  BY <1>1, ByIsList DEF Server
<1>3. /\ IsList(b) /\ Len(b) = Len(t)
      /\ \A i \in 1 .. Len(t) : b[i].arg = t[i]
  BY <1>1, ByIsList DEF Caller
<1>4. \A i \in 1 .. Len(s) : s[i].form = "eq"
  <2>1. \A i \in 1 .. Len(s) : s[i] \in ToSet(s)
    BY <1>1, ListFacts
  <2> QED
    BY <2>1, StartupFlagsAre
<1>5. p = a \o b
  BY DEF HeadPart
<1>6. /\ Len(s) \in Nat /\ Len(t) \in Nat /\ DOMAIN t = 1 .. Len(t)
  BY <1>1, ListFacts
<1>7. \A k \in 1 .. Len(t) :
          /\ t[k].form = "word" => k > 1 /\ TakesValue(t[k - 1])
          /\ TakesValue(t[k]) => k < Len(t)
  BY <1>6 DEF StartupIsOptions
<1>8. SUFFICES /\ \A k \in 1 .. Len(p) :
                      p[k].arg.form = "word" => k > 1 /\ TakesValue(p[k - 1].arg)
               /\ \A k \in 1 .. Len(p) : k = Len(p) => ~TakesValue(p[k].arg)
  OBVIOUS
<1> HIDE DEF s, t, a, b, p
<1>9. /\ Len(p) = Len(s) + Len(t)
      /\ \A k \in 1 .. Len(s) : p[k] = a[k]
      /\ \A k \in 1 .. Len(t) : p[Len(s) + k] = b[k]
  <2>1. IsList(a) /\ IsList(b)
    BY <1>2, <1>3
  <2>2. /\ Len(a \o b) = Len(a) + Len(b)
        /\ \A k \in 1 .. Len(a) : (a \o b)[k] = a[k]
        /\ \A k \in 1 .. Len(b) : (a \o b)[Len(a) + k] = b[k]
    BY ONLY <2>1, ListConcat
  <2> QED
    BY <1>2, <1>3, <1>5, <2>2
<1>10. \A k \in 1 .. Len(s) : p[k].arg.form = "eq"
  BY <1>2, <1>4, <1>9
<1>11. \A k \in 1 .. Len(t) : p[Len(s) + k].arg = t[k]
  BY <1>3, <1>9
<1>12. \A k \in 1 .. Len(p) : k \in 1 .. Len(s) \/ \E j \in 1 .. Len(t) : k = Len(s) + j
  <2>1. SUFFICES ASSUME NEW k \in 1 .. Len(p), k > Len(s)
                 PROVE  \E j \in 1 .. Len(t) : k = Len(s) + j
    BY <1>6, <1>9
  <2>2. k - Len(s) \in 1 .. Len(t) /\ k = Len(s) + (k - Len(s))
    BY <1>6, <1>9, <2>1
  <2> QED
    BY <2>2
<1>13. ASSUME NEW k \in 1 .. Len(p), p[k].arg.form = "word"
       PROVE  k > 1 /\ TakesValue(p[k - 1].arg)
  <2>1. PICK j \in 1 .. Len(t) : k = Len(s) + j
    BY <1>10, <1>12, <1>13
  <2>2. t[j].form = "word"
    BY <1>11, <1>13, <2>1
  <2>3. j > 1 /\ TakesValue(t[j - 1])
    BY <1>7, <2>2
  <2>4. j - 1 \in 1 .. Len(t) /\ k - 1 = Len(s) + (j - 1) /\ k > 1
    BY <1>6, <2>1, <2>3
  <2>5. p[k - 1].arg = t[j - 1]
    BY <1>11, <2>4
  <2> QED
    BY <2>3, <2>4, <2>5
<1>14. ASSUME NEW k \in 1 .. Len(p), k = Len(p) PROVE ~TakesValue(p[k].arg)
  <2>1. CASE k \in 1 .. Len(s)
    BY <1>10, <2>1 DEF TakesValue
  <2>2. CASE \E j \in 1 .. Len(t) : k = Len(s) + j
    <3>1. PICK j \in 1 .. Len(t) : k = Len(s) + j
      BY <2>2
    <3>2. j = Len(t)
      <4>1. Len(p) = Len(s) + Len(t)
        BY <1>9
      <4>2. j \in Nat /\ k = Len(p) /\ k = Len(s) + j
        BY <1>6, <1>14, <3>1
      <4>3. PICK u \in Nat, c \in Nat : u = Len(s) /\ c = Len(t)
        BY <1>6
      <4>4. u + c = u + j
        BY ONLY <4>1, <4>2, <4>3
      <4>5. c = j
        BY ONLY <4>2, <4>3, <4>4
      <4> QED
        BY <4>3, <4>5
    <3>3. ~TakesValue(t[j])
      BY <1>6, <1>7, <3>2
    <3> QED
      BY <1>11, <3>1, <3>3
  <2> QED
    BY <1>12, <2>1, <2>2
<1> QED
  BY <1>13, <1>14

\* Bazel takes the command the request names.
LEMMA BazelTakesItsCommand ==
    ASSUME NEW conf, NEW call, IsCall(call), NEW class, NEW fifo
    PROVE  TakesItsCommand(call, BazelLine(conf, call, class, fifo))
<1> SUFFICES ASSUME StartupIsOptions(call.startup)
             PROVE  CommandTaken(BazelLine(conf, call, class, fifo))
                      = [by |-> "server", arg |-> Word(call.command)]
  BY DEF TakesItsCommand
<1> DEFINE p == HeadPart(conf, call)
           w == WordPart(call)
           e == FlagPart(conf, call, class, fifo)
           a == OwnPart(call)
           r == RunPart(call)
           line == BazelLine(conf, call, class, fifo)
<1>1. IsList(p) /\ IsList(w) /\ IsList(e) /\ IsList(a) /\ IsList(r) /\ line = p \o w \o e \o a \o r
  BY PartsAreLists
<1>2. Len(w) = 1 /\ w[1] = [by |-> "server", arg |-> Word(call.command)]
  BY OneToken DEF WordPart, Server
<1>3. /\ \A k \in 1 .. Len(p) : p[k].arg.form = "word" => k > 1 /\ TakesValue(p[k - 1].arg)
      /\ \A k \in 1 .. Len(p) : k = Len(p) => ~TakesValue(p[k].arg)
  BY HeadIsOptions
<1>4. SUFFICES CommandTaken(line) = [by |-> "server", arg |-> Word(call.command)]
  OBVIOUS
<1> HIDE DEF p, w, e, a, r, line
<1>5. Parts(line, p, w, e, a, r)
  BY <1>1, FiveParts
<1>6. /\ Len(p) \in Nat /\ Len(e) \in Nat /\ Len(a) \in Nat /\ Len(r) \in Nat
  BY <1>1, ListFacts
<1>7. IsList(line) /\ Len(line) = Len(p) + Len(w) + Len(e) + Len(a) + Len(r)
  BY <1>5 DEF Parts
<1>8. /\ \A k \in 1 .. Len(p) : line[0 + k] = p[k]
      /\ line[Len(p) + 1] = w[1]
  BY <1>2, <1>5 DEF Parts, Within1
<1>9. \A k \in 1 .. Len(p) : line[k] = p[k]
  <2>1. \A k \in 1 .. Len(p) : 0 + k = k
    BY <1>6
  <2> QED
    BY <1>8, <2>1
<1>10. PICK n \in Nat : n = Len(p) + 1
  BY <1>6
<1>11. n \in 1 .. Len(line) /\ n - 1 = Len(p)
  BY ONLY <1>2, <1>6, <1>7, <1>10
<1>12. line[n] = [by |-> "server", arg |-> Word(call.command)] /\ line[n].arg.form = "word"
  <2>1. line[n] = [by |-> "server", arg |-> Word(call.command)]
    BY ONLY <1>2, <1>8, <1>10
  <2>2. Word(call.command).form = "word"
    BY DEF Word
  <2>3. line[n].arg = Word(call.command)
    BY ONLY <2>1
  <2> QED
    BY <2>1, <2>2, <2>3
<1>13. n > 1 => ~TakesValue(line[n - 1].arg)
  <2>1. SUFFICES ASSUME n > 1 PROVE ~TakesValue(line[n - 1].arg)
    OBVIOUS
  <2>2. n - 1 \in 1 .. Len(p)
    BY ONLY <1>6, <1>10, <2>1
  <2> QED
    BY <1>3, <1>9, <1>11, <2>2
<1>14. ASSUME NEW k \in 1 .. n - 1, line[k].arg.form = "word"
       PROVE  k > 1 /\ TakesValue(line[k - 1].arg)
  <2>1. k \in 1 .. Len(p)
    BY <1>11
  <2>2. k > 1 /\ TakesValue(p[k - 1].arg)
    BY <1>3, <1>9, <1>14, <2>1
  <2>3. k - 1 \in 1 .. Len(p)
    BY ONLY <1>6, <2>1, <2>2
  <2> QED
    BY <1>9, <2>2, <2>3
<1>15. CommandTaken(line) = line[n]
  BY <1>7, <1>11, <1>12, <1>13, <1>14, FirstWordIsTaken
<1> QED
  BY <1>12, <1>15

\* The values a flag is set to, by what the server contributes.
LEMMA SetsAre ==
    ASSUME NEW line, NEW flag
    PROVE  \A v : v \in Sets(line, flag) <=> \E x \in ServerArgs(line) : x.flag = flag /\ x.value = v
  BY DEF Sets, ServerArgs

\* What the server contributes to a Bazel command line.
LEMMA BazelServerArgs ==
    ASSUME NEW conf, NEW call, IsCall(call), NEW class, NEW fifo
    PROVE  /\ ToSet(BazelFlagList(conf, call.command, class, fifo))
                \subseteq ServerArgs(BazelLine(conf, call, class, fifo))
           /\ \A x \in ServerArgs(BazelLine(conf, call, class, fifo)) :
                  \/ x \in ToSet(BazelFlagList(conf, call.command, class, fifo))
                  \/ x.flag \in {"", "--", "--output_user_root", "--max_idle_secs"}
<1> DEFINE p == HeadPart(conf, call)
           w == WordPart(call)
           e == FlagPart(conf, call, class, fifo)
           a == OwnPart(call)
           r == RunPart(call)
           f == BazelFlagList(conf, call.command, class, fifo)
           s == StartupFlags(conf)
<1>1. IsList(p) /\ IsList(w) /\ IsList(e) /\ IsList(a) /\ IsList(r)
      /\ BazelLine(conf, call, class, fifo) = p \o w \o e \o a \o r
  BY PartsAreLists
<1>2. /\ IsList(call.startup) /\ IsList(call.arguments) /\ IsList(call.target) /\ IsList(call.program)
  BY CallLists
<1>3. IsList(f) /\ IsList(s)
  BY BazelFlagListIs, StartupFlagsAre
<1>4. ServerArgs(e) = ToSet(f)
  BY <1>3, ServerArgsOf DEF FlagPart
<1>5. ServerArgs(a) = {}
  BY <1>2, ServerArgsOf DEF OwnPart
<1>6. ServerArgs(w) = {Word(call.command)}
  <2>1. IsList(<<Word(call.command)>>) /\ ToSet(<<Word(call.command)>>) = {Word(call.command)}
    BY TupleOfOne
  <2> QED
    BY <2>1, ServerArgsOf DEF WordPart
<1>7. ServerArgs(p) = ToSet(s)
  <2>1. /\ IsList(Server(s)) /\ IsList(Caller(call.startup))
        /\ ServerArgs(Server(s)) = ToSet(s) /\ ServerArgs(Caller(call.startup)) = {}
    BY <1>2, <1>3, ByIsList, ServerArgsOf DEF Server, Caller
  <2>2. ServerArgs(Server(s) \o Caller(call.startup)) = ServerArgs(Server(s)) \cup ServerArgs(Caller(call.startup))
    BY <2>1, ServerArgsConcat
  <2> QED
    BY <2>1, <2>2 DEF HeadPart
<1>8. ServerArgs(r) \subseteq {Delimiter}
  <2> DEFINE t == Caller(call.target)
             d == Server(<<Delimiter>>)
             g == Caller(call.program)
  <2>1. IsList(t) /\ IsList(g) /\ ServerArgs(t) = {} /\ ServerArgs(g) = {}
    BY <1>2, ByIsList, ServerArgsOf DEF Caller
  <2>2. IsList(d) /\ ServerArgs(d) = {Delimiter}
    <3>1. IsList(<<Delimiter>>) /\ ToSet(<<Delimiter>>) = {Delimiter}
      BY TupleOfOne
    <3> QED
      BY <3>1, ByIsList, ServerArgsOf DEF Server
  <2>3. r = t \o d \o g \/ r = <<>>
    BY DEF RunPart
  <2> HIDE DEF t, d, g
  <2>4. IsList(t \o d) /\ ServerArgs(t \o d) = ServerArgs(t) \cup ServerArgs(d)
    BY <2>1, <2>2, ListConcat, ServerArgsConcat
  <2>5. ServerArgs(t \o d \o g) = ServerArgs(t \o d) \cup ServerArgs(g)
    BY <2>1, <2>4, ServerArgsConcat
  <2>6. ServerArgs(<<>>) = {}
    BY DEF ServerArgs
  <2> HIDE DEF r
  <2> QED
    BY <2>1, <2>2, <2>3, <2>4, <2>5, <2>6
<1> HIDE DEF p, w, e, a, r, f, s
<1>9. IsList(p \o w) /\ ServerArgs(p \o w) = ServerArgs(p) \cup ServerArgs(w)
  BY <1>1, ListConcat, ServerArgsConcat
<1>10. IsList(p \o w \o e) /\ ServerArgs(p \o w \o e) = ServerArgs(p \o w) \cup ServerArgs(e)
  BY <1>1, <1>9, ListConcat, ServerArgsConcat
<1>11. IsList(p \o w \o e \o a) /\ ServerArgs(p \o w \o e \o a) = ServerArgs(p \o w \o e) \cup ServerArgs(a)
  BY <1>1, <1>10, ListConcat, ServerArgsConcat
<1>12. ServerArgs(p \o w \o e \o a \o r) = ServerArgs(p \o w \o e \o a) \cup ServerArgs(r)
  BY <1>1, <1>11, ServerArgsConcat
<1> DEFINE all == ServerArgs(BazelLine(conf, call, class, fifo))
<1>13. all = ToSet(s) \cup {Word(call.command)} \cup ToSet(f) \cup ServerArgs(r)
  BY <1>1, <1>4, <1>5, <1>6, <1>7, <1>9, <1>10, <1>11, <1>12
<1> HIDE DEF all
<1>14. \A x \in ToSet(s) : x.flag \in {"--output_user_root", "--max_idle_secs"}
  BY StartupFlagsAre DEF s
<1>15. Word(call.command).flag = "" /\ Delimiter.flag = "--"
  BY DEF Word, Delimiter, Bare
<1>16. ToSet(f) \subseteq all
  BY <1>13
<1>17. \A x \in all : x \in ToSet(f) \/ x.flag \in {"", "--", "--output_user_root", "--max_idle_secs"}
  BY <1>8, <1>13, <1>14, <1>15
<1> QED
  BY <1>16, <1>17 DEF all, f

\* The flag that names the file for the events.
BinaryFile == "--build_event_binary_file"

\* The flags of the settings that tell Bazel where its events go.
LEMMA EventFlagNames ==
    ASSUME NEW transport, NEW fifo, NEW x
    PROVE  /\ x \in {InvocationFlag} \cup OtherFlags =>
                  x.flag \notin {"--bes_backend", "--bes-backend", BinaryFile}
           /\ transport = "bes" /\ x \in EventSet(transport, fifo) =>
                  x.flag \in {"--bes_backend", "--bes_upload_mode"}
           /\ transport # "bes" /\ x \in EventSet(transport, fifo) =>
                  /\ x.flag \in {BinaryFile, "--build_event_binary_file_path_conversion"}
                  /\ x.flag = BinaryFile => x.value = EventValue(transport, fifo)
<1>1. \A f, v : Setting(f, v).flag = f /\ Setting(f, v).value = v /\ Bare(f).flag = f
  BY DEF Setting, Bare
<1>2. x \in OtherFlags => x.flag \in {"--tool_tag", "--color", "--curses", "--show_progress",
                  "--show_result", "--test_output", "--test_summary", "--run", "--omit_run_args",
                  "--noexperimental_run_bep_event_include_residue", "--subcommands"}
  BY <1>1 DEF OtherFlags
<1>3. x = InvocationFlag => x.flag = "--invocation_id"
  BY <1>1 DEF InvocationFlag
<1>4. x \in {InvocationFlag} \cup OtherFlags =>
          x.flag \notin {"--bes_backend", "--bes-backend", BinaryFile}
  BY <1>2, <1>3 DEF BinaryFile
<1>5. transport = "bes" /\ x \in EventSet(transport, fifo) =>
          x.flag \in {"--bes_backend", "--bes_upload_mode"}
  BY <1>1 DEF EventSet
<1>6. transport # "bes" /\ x \in EventSet(transport, fifo) =>
          /\ x.flag \in {BinaryFile, "--build_event_binary_file_path_conversion"}
          /\ x.flag = BinaryFile => x.value = EventValue(transport, fifo)
  BY <1>1 DEF EventSet, BinaryFile
<1> QED
  BY <1>4, <1>5, <1>6

(***************************************************************************)
(* Bazel sends its events where the capture reads them.                    *)
(***************************************************************************)
LEMMA BazelCaptureIsFed ==
    ASSUME NEW conf, NEW call, IsCall(call), NEW driver, driver.aspect = FALSE, NEW fifo
    PROVE  CaptureIsFed(Capture(conf, driver, call, fifo),
                        BazelLine(conf, call, CommandClass(driver, call.command), fifo))
<1> DEFINE class == CommandClass(driver, call.command)
           line == BazelLine(conf, call, class, fifo)
           flags == ToSet(BazelFlagList(conf, call.command, class, fifo))
           events == EventSet(conf.transport, fifo)
           own == ServerArgs(line)
           capture == Capture(conf, driver, call, fifo)
<1>1. /\ flags \subseteq {InvocationFlag} \cup events \cup OtherFlags
      /\ CapturesBep(class) => events \subseteq flags
      /\ ~CapturesBep(class) => flags = {}
  BY BazelFlagListIs
<1>2. /\ flags \subseteq own
      /\ \A x \in own : x \in flags \/ x.flag \in {"", "--", "--output_user_root", "--max_idle_secs"}
  BY BazelServerArgs
<1>3. capture = IF ~CapturesBep(class) THEN "none"
                ELSE IF conf.transport = "bes" \/ (conf.transport = "fifo" /\ fifo)
                THEN conf.transport ELSE "tail"
  BY DEF Capture, Transport
<1>4. /\ \A v : v \in Sets(line, "--bes_backend") <=> \E x \in own : x.flag = "--bes_backend" /\ x.value = v
      /\ \A v : v \in Sets(line, "--bes-backend") <=> \E x \in own : x.flag = "--bes-backend" /\ x.value = v
      /\ \A v : v \in Sets(line, BinaryFile) <=> \E x \in own : x.flag = BinaryFile /\ x.value = v
  BY SetsAre
<1>9. SUFFICES CaptureIsFed(capture, line)
  OBVIOUS
<1> HIDE DEF class, line, flags, own, capture, events
<1>5. \A x \in own : x.flag \in {"--bes_backend", "--bes-backend", BinaryFile} =>
          x \in events /\ CapturesBep(class)
  <2>1. SUFFICES ASSUME NEW x \in own, x.flag \in {"--bes_backend", "--bes-backend", BinaryFile}
                 PROVE  x \in events /\ CapturesBep(class)
    OBVIOUS
  <2>2. x \in flags
    BY <1>2, <2>1 DEF BinaryFile
  <2>3. x \notin {InvocationFlag} \cup OtherFlags
    BY <2>1, EventFlagNames
  <2> QED
    BY <1>1, <2>2, <2>3
<1>6. CASE ~CapturesBep(class)
  <2>1. Sets(line, "--bes_backend") = {} /\ Sets(line, "--bes-backend") = {} /\ Sets(line, BinaryFile) = {}
    BY <1>4, <1>5, <1>6
  <2> QED
    BY <1>3, <1>6, <2>1 DEF CaptureIsFed, BinaryFile
<1>7. CASE CapturesBep(class) /\ conf.transport = "bes"
  <2>1. Setting("--bes_backend", "endpoint") \in own
    BY <1>1, <1>2, <1>7 DEF events, EventSet
  <2>2. Setting("--bes_backend", "endpoint").flag = "--bes_backend"
        /\ Setting("--bes_backend", "endpoint").value = "endpoint"
    BY DEF Setting
  <2>3. "endpoint" \in Sets(line, "--bes_backend")
    BY <1>4, <2>1, <2>2
  <2>4. Sets(line, BinaryFile) = {}
    <3>1. \A x \in own : x.flag # BinaryFile
      <4>1. \A x \in events : x.flag \in {"--bes_backend", "--bes_upload_mode"}
        BY <1>7, EventFlagNames DEF events
      <4> QED
        BY <1>5, <4>1 DEF BinaryFile
    <3> QED
      BY <3>1, <1>4
  <2>5. capture = "bes"
    BY <1>3, <1>7
  <2> QED
    BY <2>3, <2>4, <2>5 DEF CaptureIsFed, BinaryFile
<1>8. CASE CapturesBep(class) /\ conf.transport # "bes"
  <2> DEFINE value == EventValue(conf.transport, fifo)
  <2>1. Setting(BinaryFile, value) \in own
    BY <1>1, <1>2, <1>8 DEF events, EventSet, BinaryFile
  <2>2. Setting(BinaryFile, value).flag = BinaryFile /\ Setting(BinaryFile, value).value = value
    BY DEF Setting
  <2>3. \A x \in own : x.flag = BinaryFile => x.value = value
    <3>1. \A x \in events : x.flag = BinaryFile => x.value = value
      BY <1>8, EventFlagNames DEF events
    <3> QED
      BY <1>5, <3>1
  <2>4. Sets(line, BinaryFile) = {value}
    <3> HIDE DEF value
    <3> QED
      BY <1>4, <2>1, <2>2, <2>3
  <2>5. Sets(line, "--bes_backend") = {} /\ Sets(line, "--bes-backend") = {}
    <3>1. \A x \in own : x.flag # "--bes_backend" /\ x.flag # "--bes-backend"
      <4>1. \A x \in events : x.flag \in {BinaryFile, "--build_event_binary_file_path_conversion"}
        BY <1>8, EventFlagNames DEF events
      <4> QED
        BY <1>5, <4>1 DEF BinaryFile
    <3> QED
      BY <1>4, <3>1
  <2>6. (capture = "fifo" /\ value = "fifo") \/ (capture = "tail" /\ value = "bep")
    <3>1. CASE conf.transport = "fifo" /\ fifo
      BY <1>3, <1>8, <3>1 DEF EventValue
    <3>2. CASE ~(conf.transport = "fifo" /\ fifo)
      BY <1>3, <1>8, <3>2 DEF EventValue
    <3> QED
      BY <3>1, <3>2
  <2> HIDE DEF value
  <2>7. {value} = {"fifo"} <=> value = "fifo"
    OBVIOUS
  <2>8. {value} = {"bep"} <=> value = "bep"
    OBVIOUS
  <2> QED
    BY <2>4, <2>5, <2>6, <2>7, <2>8 DEF CaptureIsFed, BinaryFile
<1> QED
  BY <1>6, <1>7, <1>8

\* Who contributed a token and what it is, for every token of what somebody contributes.
LEMMA ByTokens ==
    ASSUME NEW s, IsList(s), NEW who, NEW token \in ToSet(By(who, s))
    PROVE  token.by = who /\ token.arg \in ToSet(s)
<1>1. /\ IsList(By(who, s)) /\ Len(By(who, s)) = Len(s)
      /\ \A k \in 1 .. Len(s) : By(who, s)[k].by = who /\ By(who, s)[k].arg = s[k]
  BY ByIsList
<1>2. /\ ToSet(By(who, s)) = {By(who, s)[k] : k \in 1 .. Len(s)}
      /\ ToSet(s) = {s[k] : k \in 1 .. Len(s)}
  BY <1>1, ListFacts
<1> QED
  BY <1>1, <1>2

\* Every one of them is there.
LEMMA TokensBy ==
    ASSUME NEW s, IsList(s), NEW who, NEW x \in ToSet(s)
    PROVE  \E token \in ToSet(By(who, s)) : token.by = who /\ token.arg = x
<1>1. /\ IsList(By(who, s)) /\ Len(By(who, s)) = Len(s)
      /\ \A k \in 1 .. Len(s) : By(who, s)[k].by = who /\ By(who, s)[k].arg = s[k]
  BY ByIsList
<1>2. /\ ToSet(By(who, s)) = {By(who, s)[k] : k \in 1 .. Len(s)}
      /\ ToSet(s) = {s[k] : k \in 1 .. Len(s)}
  BY <1>1, ListFacts
<1>3. PICK k \in 1 .. Len(s) : x = s[k]
  BY <1>2
<1> QED
  BY <1>1, <1>2, <1>3

\* Arguments nested in another flag keep what they set.
LEMMA NestedIs ==
    ASSUME NEW flag, NEW s, IsList(s)
    PROVE  /\ IsList(Nested(flag, s))
           /\ \A x \in ToSet(Nested(flag, s)) :
                  /\ x.flag = flag
                  /\ \E a \in ToSet(s) : x.value = IF a.form = "word" THEN a.value ELSE a.flag
<1>1. Len(s) \in Nat /\ DOMAIN s = 1 .. Len(s) /\ ToSet(s) = {s[k] : k \in 1 .. Len(s)}
  BY ListFacts
<1> DEFINE v(a) == IF a.form = "word" THEN a.value ELSE a.flag
           n == Nested(flag, s)
           T == {Setting(flag, v(s[k])) : k \in 1 .. Len(s)}
<1>2. n = [k \in 1 .. Len(s) |-> Setting(flag, v(s[k]))]
  BY <1>1 DEF Nested
<1> HIDE DEF v
<1>3. n \in Seq(T) /\ Len(n) = Len(s)
  BY <1>1, <1>2
<1>4. IsList(n)
  BY <1>3, ListOf
<1>5. ToSet(n) = {n[k] : k \in 1 .. Len(s)}
  BY <1>3, <1>4, ListFacts
<1>6. \A f, z : Setting(f, z).flag = f /\ Setting(f, z).value = z
  BY DEF Setting
<1>7. ASSUME NEW x \in ToSet(n) PROVE x.flag = flag /\ \E a \in ToSet(s) : x.value = v(a)
  <2>1. PICK k \in 1 .. Len(s) : x = Setting(flag, v(s[k]))
    BY <1>2, <1>5
  <2>2. s[k] \in ToSet(s)
    BY <1>1
  <2> QED
    BY <1>6, <2>1, <2>2
<1> QED
  BY <1>4, <1>7 DEF v

\* What the server nests behind Aspect's command: Bazel flags that are reserved.
AspectNested(call) == <<InvocationFlag>> \o Quiet \o TestFlags(call.command)

\* What the server passes on through Aspect are reserved flags.
LEMMA NestedAreReserved ==
    ASSUME NEW call
    PROVE  /\ IsList(Nested("--bazel-flag", AspectNested(call)))
           /\ \A x \in ToSet(Nested("--bazel-flag", AspectNested(call))) :
                  x.flag = "--bazel-flag" /\ x.value \in RESERVED_FLAGS
<1> DEFINE i == <<InvocationFlag>>
           q == Quiet
           t == TestFlags(call.command)
           s == AspectNested(call)
<1>1. IsList(i) /\ ToSet(i) = {InvocationFlag}
  BY TupleOfOne
<1>2. IsList(q) /\ ToSet(q) \subseteq OtherFlags /\ IsList(t) /\ ToSet(t) \subseteq OtherFlags
  BY QuietFlags, TestFlagsAre
<1>3. s = i \o q \o t
  BY DEF AspectNested
<1> HIDE DEF i, q, t, s
<1>4. IsList(i \o q) /\ ToSet(i \o q) = ToSet(i) \cup ToSet(q)
  BY <1>1, <1>2, ListConcat
<1>5. IsList(i \o q \o t) /\ ToSet(i \o q \o t) = ToSet(i \o q) \cup ToSet(t)
  BY <1>2, <1>4, ListConcat
<1>6. IsList(s) /\ ToSet(s) \subseteq {InvocationFlag} \cup OtherFlags
  BY <1>1, <1>2, <1>3, <1>4, <1>5
<1>7. \A x \in {InvocationFlag} \cup OtherFlags : x.form # "word" /\ x.flag \in RESERVED_FLAGS
  <2>1. \A f, v : Setting(f, v).form = "eq" /\ Bare(f).form = "bare"
    BY DEF Setting, Bare
  <2>2. InvocationFlag.flag = "--invocation_id" /\ InvocationFlag.form = "eq"
    BY DEF InvocationFlag, Setting
  <2>3. \A x \in OtherFlags : x.form \in {"eq", "bare"}
    BY <2>1 DEF OtherFlags
  <2>4. "--invocation_id" \in RESERVED_FLAGS
    BY DEF RESERVED_FLAGS
  <2> QED
    BY <2>2, <2>3, <2>4, OtherAreReserved
<1>8. /\ IsList(Nested("--bazel-flag", s))
      /\ \A x \in ToSet(Nested("--bazel-flag", s)) :
             /\ x.flag = "--bazel-flag"
             /\ \E a \in ToSet(s) : x.value = IF a.form = "word" THEN a.value ELSE a.flag
  BY <1>6, NestedIs
<1>9. \A x \in ToSet(Nested("--bazel-flag", s)) : x.flag = "--bazel-flag" /\ x.value \in RESERVED_FLAGS
  BY <1>6, <1>7, <1>8
<1> QED
  BY <1>8, <1>9 DEF s

\* What the server contributes to an Aspect command line.
AspectServerArg(x, class) ==
    /\ x.flag \in {"--task:id", "--task:timing-summary", "", "--bazel-startup-flag", "--bazel-flag",
                   "--bes-backend", "--bes-header"}
    /\ x.flag = "--bazel-flag" => x.value \in RESERVED_FLAGS
    /\ x.flag = "--bes-backend" => class = "build_like"

\* What stands first on the command line of Aspect.
AspectHead(conf, call) ==
    <<Setting("--task:id", "id"), Setting("--task:timing-summary", "none"), Word(call.command)>>
      \o Nested("--bazel-startup-flag", StartupFlags(conf))

\* They are the server's arguments.
LEMMA AspectHeadIs ==
    ASSUME NEW conf, NEW call, NEW class
    PROVE  /\ IsList(AspectHead(conf, call))
           /\ \A x \in ToSet(AspectHead(conf, call)) : AspectServerArg(x, class)
<1> DEFINE t == <<Setting("--task:id", "id"), Setting("--task:timing-summary", "none"), Word(call.command)>>
           n == Nested("--bazel-startup-flag", StartupFlags(conf))
<1>1. IsList(t) /\ ToSet(t) = {Setting("--task:id", "id"), Setting("--task:timing-summary", "none"),
                               Word(call.command)}
  BY TupleOfThree
<1>2. IsList(n) /\ \A x \in ToSet(n) : x.flag = "--bazel-startup-flag"
  BY StartupFlagsAre, NestedIs
<1>3. AspectHead(conf, call) = t \o n
  BY DEF AspectHead
<1> HIDE DEF t, n
<1>4. IsList(t \o n) /\ ToSet(t \o n) = ToSet(t) \cup ToSet(n)
  BY <1>1, <1>2, ListConcat
<1>5. /\ Setting("--task:id", "id").flag = "--task:id" /\ Word(call.command).flag = ""
      /\ Setting("--task:timing-summary", "none").flag = "--task:timing-summary"
  BY DEF Setting, Word
<1>6. \A x \in ToSet(t) : x.flag \in {"--task:id", "--task:timing-summary", ""}
  BY <1>1, <1>5
<1> QED
  BY <1>2, <1>3, <1>4, <1>6 DEF AspectServerArg

\* What tells Aspect where the events go.
AspectEvents == <<Setting("--bes-backend", "endpoint"),
                  Setting("--bes-header", "x-bazel-mcp-invocation-id")>>

\* What the server adds behind the head, if there are events to capture.
AspectFlagList(call, class) ==
    IF class = "build_like" THEN Nested("--bazel-flag", AspectNested(call)) \o AspectEvents ELSE <<>>

\* They are the server's arguments, with the event service among them.
LEMMA AspectFlagListIs ==
    ASSUME NEW call, NEW class
    PROVE  /\ IsList(AspectFlagList(call, class))
           /\ \A x \in ToSet(AspectFlagList(call, class)) : AspectServerArg(x, class)
           /\ class = "build_like" =>
                  Setting("--bes-backend", "endpoint") \in ToSet(AspectFlagList(call, class))
<1> DEFINE n == Nested("--bazel-flag", AspectNested(call))
           v == AspectEvents
<1>1. IsList(n) /\ \A x \in ToSet(n) : x.flag = "--bazel-flag" /\ x.value \in RESERVED_FLAGS
  BY NestedAreReserved
<1>2. IsList(v) /\ ToSet(v) = {Setting("--bes-backend", "endpoint"),
                               Setting("--bes-header", "x-bazel-mcp-invocation-id")}
  BY TupleOfTwo DEF AspectEvents
<1>3. AspectFlagList(call, class) = IF class = "build_like" THEN n \o v ELSE <<>>
  BY DEF AspectFlagList
<1> HIDE DEF n, v
<1>4. IsList(n \o v) /\ ToSet(n \o v) = ToSet(n) \cup ToSet(v)
  BY <1>1, <1>2, ListConcat
<1>5. /\ Setting("--bes-backend", "endpoint").flag = "--bes-backend"
      /\ Setting("--bes-header", "x-bazel-mcp-invocation-id").flag = "--bes-header"
  BY DEF Setting
<1>6. \A x \in ToSet(v) : x.flag \in {"--bes-backend", "--bes-header"}
  BY <1>2, <1>5
<1>7. CASE class = "build_like"
  BY <1>1, <1>2, <1>3, <1>4, <1>6, <1>7 DEF AspectServerArg
<1>8. CASE class # "build_like"
  BY <1>3, <1>8, EmptySet
<1> QED
  BY <1>7, <1>8

\* What the caller contributes to it.
AspectCallerArg(call, x) == x.flag = "--bazel-startup-flag" \/ x \in ToSet(call.arguments)

\* The four parts of an Aspect command line.
LEMMA AspectLineParts ==
    ASSUME NEW conf, NEW call, NEW class
    PROVE  AspectLine(conf, call, class)
             = Server(AspectHead(conf, call)) \o Caller(Nested("--bazel-startup-flag", call.startup))
                 \o Server(AspectFlagList(call, class)) \o Caller(call.arguments)
<1> DEFINE p == Server(AspectHead(conf, call))
           w == Caller(Nested("--bazel-startup-flag", call.startup))
           e == Server(AspectFlagList(call, class))
           a == Caller(call.arguments)
           line == AspectLine(conf, call, class)
<1>1. Server(<<>>) = <<>>
  BY DEF Server, By
<1>2. e = IF class = "build_like" THEN Server(Nested("--bazel-flag", AspectNested(call)) \o AspectEvents)
          ELSE <<>>
  BY <1>1 DEF AspectFlagList
<1>3. line = p \o w \o (IF class = "build_like"
                        THEN Server(Nested("--bazel-flag", AspectNested(call)) \o AspectEvents)
                        ELSE <<>>) \o a
  BY DEF AspectLine, AspectHead, AspectNested, AspectEvents, InvocationFlag
<1>4. SUFFICES line = p \o w \o e \o a
  OBVIOUS
<1> HIDE DEF p, w, e, a, line
<1> QED
  BY <1>2, <1>3

(***************************************************************************)
(* Every token of an Aspect command line, by who contributed it.           *)
(***************************************************************************)
LEMMA AspectTokens ==
    ASSUME NEW conf, NEW call, IsCall(call), NEW class
    PROVE  /\ \A token \in ToSet(AspectLine(conf, call, class)) :
                  \/ token.by = "server" /\ AspectServerArg(token.arg, class)
                  \/ token.by = "caller" /\ AspectCallerArg(call, token.arg)
           /\ class = "build_like" =>
                  \E token \in ToSet(AspectLine(conf, call, class)) :
                      token.by = "server" /\ token.arg = Setting("--bes-backend", "endpoint")
<1> DEFINE h == AspectHead(conf, call)
           n == Nested("--bazel-startup-flag", call.startup)
           f == AspectFlagList(call, class)
           p == Server(h)
           w == Caller(n)
           e == Server(f)
           a == Caller(call.arguments)
           line == AspectLine(conf, call, class)
<1>1. IsList(call.startup) /\ IsList(call.arguments)
  BY CallLists
<1>2. IsList(h) /\ \A x \in ToSet(h) : AspectServerArg(x, class)
  BY AspectHeadIs
<1>3. IsList(n) /\ \A x \in ToSet(n) : x.flag = "--bazel-startup-flag"
  BY <1>1, NestedIs
<1>4. /\ IsList(f) /\ \A x \in ToSet(f) : AspectServerArg(x, class)
      /\ class = "build_like" => Setting("--bes-backend", "endpoint") \in ToSet(f)
  BY AspectFlagListIs
<1>5. line = p \o w \o e \o a
  BY AspectLineParts
<1>6. IsList(p) /\ IsList(w) /\ IsList(e) /\ IsList(a)
  <2> HIDE DEF h, n, f
  <2> QED
    BY <1>1, <1>2, <1>3, <1>4, ByIsList DEF Server, Caller
<1>7. /\ \A token \in ToSet(p) : token.by = "server" /\ token.arg \in ToSet(h)
      /\ \A token \in ToSet(w) : token.by = "caller" /\ token.arg \in ToSet(n)
      /\ \A token \in ToSet(e) : token.by = "server" /\ token.arg \in ToSet(f)
      /\ \A token \in ToSet(a) : token.by = "caller" /\ token.arg \in ToSet(call.arguments)
  <2> HIDE DEF h, n, f
  <2> QED
    BY <1>1, <1>2, <1>3, <1>4, ByTokens DEF Server, Caller
<1>8. \A x \in ToSet(f) : \E token \in ToSet(e) : token.by = "server" /\ token.arg = x
  <2> HIDE DEF f
  <2> QED
    BY <1>4, TokensBy DEF Server
<1>14. SUFFICES /\ \A token \in ToSet(line) : \/ token.by = "server" /\ AspectServerArg(token.arg, class)
                                              \/ token.by = "caller" /\ AspectCallerArg(call, token.arg)
                /\ class = "build_like" =>
                       \E token \in ToSet(line) :
                          token.by = "server" /\ token.arg = Setting("--bes-backend", "endpoint")
  OBVIOUS
<1> HIDE DEF h, n, f, p, w, e, a, line
<1>9. IsList(p \o w) /\ ToSet(p \o w) = ToSet(p) \cup ToSet(w)
  BY <1>6, ListConcat
<1>10. IsList(p \o w \o e) /\ ToSet(p \o w \o e) = ToSet(p \o w) \cup ToSet(e)
  BY <1>6, <1>9, ListConcat
<1>11. ToSet(p \o w \o e \o a) = ToSet(p \o w \o e) \cup ToSet(a)
  BY <1>6, <1>10, ListConcat
<1>12. ToSet(line) = ToSet(p) \cup ToSet(w) \cup ToSet(e) \cup ToSet(a)
  BY <1>5, <1>9, <1>10, <1>11
<1>13. \A token \in ToSet(line) : \/ token.by = "server" /\ AspectServerArg(token.arg, class)
                                  \/ token.by = "caller" /\ AspectCallerArg(call, token.arg)
  BY <1>2, <1>3, <1>4, <1>7, <1>12 DEF AspectCallerArg
<1> QED
  BY <1>4, <1>8, <1>12, <1>13

(***************************************************************************)
(* On Aspect's command line no setting of the caller is one of the         *)
(* server's, nested or not.                                                *)
(***************************************************************************)
LEMMA AspectFlagsWin ==
    ASSUME NEW conf, NEW call, IsCall(call), Permitted(conf, call),
           AspectRoutes(conf, call.command), NEW class
    PROVE  ServerFlagsWin(TRUE, AspectLine(conf, call, class))
<1> DEFINE line == AspectLine(conf, call, class)
<1>1. \A i \in DOMAIN line : \/ line[i].by = "server" /\ AspectServerArg(line[i].arg, class)
                             \/ line[i].by = "caller" /\ AspectCallerArg(call, line[i].arg)
  BY AspectTokens DEF ToSet
<1> HIDE DEF line
<1>2. \A i \in DOMAIN line : line[i].by = "server" =>
          \/ Effect(TRUE, line[i]) \in RESERVED_FLAGS
          \/ Effect(TRUE, line[i]) \notin BazelFlags
  BY <1>1 DEF AspectServerArg, Effect, BazelFlags, RESERVED_FLAGS
<1>3. \A j \in DOMAIN line : line[j].by = "caller" =>
          Effect(TRUE, line[j]) \notin RESERVED_FLAGS /\ line[j].arg.flag # "--task:id"
  <2>1. SUFFICES ASSUME NEW j \in DOMAIN line, line[j].by = "caller"
                 PROVE  Effect(TRUE, line[j]) \notin RESERVED_FLAGS /\ line[j].arg.flag # "--task:id"
    OBVIOUS
  <2>2. PICK x : x = line[j].arg
    OBVIOUS
  <2>3. x.flag = "--bazel-startup-flag" \/ x \in ToSet(call.arguments)
    BY <1>1, <2>1, <2>2 DEF AspectCallerArg
  <2>4. Effect(TRUE, line[j]) = IF x.flag = "--bazel-flag" THEN x.value ELSE x.flag
    BY <2>2 DEF Effect
  <2>5. CASE x.flag = "--bazel-startup-flag"
    BY <2>2, <2>4, <2>5 DEF RESERVED_FLAGS
  <2>6. CASE x \in ToSet(call.arguments)
    <3>1. x.flag \notin RESERVED_FLAGS /\ ~AspectReserved(x)
          /\ (x.flag # "--bazel-flag" \/ x.value \notin RESERVED_FLAGS)
      BY <2>6 DEF Permitted, Unreserved, AspectIsApart
    <3>2. x.flag # "--task:id"
      BY <3>1 DEF AspectReserved
    <3> QED
      BY <2>2, <2>4, <3>1, <3>2
  <2> QED
    BY <2>3, <2>5, <2>6
<1>4. ServerFlagsWin(TRUE, line)
  BY <1>2, <1>3 DEF ServerFlagsWin
<1> QED
  BY <1>4 DEF line

(***************************************************************************)
(* Aspect sends Bazel's events where the capture reads them.               *)
(***************************************************************************)
LEMMA AspectCaptureIsFed ==
    ASSUME NEW conf, NEW call, IsCall(call), call.command # "run",
           NEW driver, driver.aspect = TRUE, NEW fifo
    PROVE  CaptureIsFed(Capture(conf, driver, call, fifo),
                        AspectLine(conf, call, CommandClass(driver, call.command)))
<1> DEFINE class == CommandClass(driver, call.command)
           line == AspectLine(conf, call, class)
           capture == Capture(conf, driver, call, fifo)
<1>1. class # "run"
  BY DEF CommandClass, Class
<1>2. capture = IF class = "build_like" THEN "bes" ELSE "none"
  BY <1>1 DEF Capture, Transport, CapturesBep
<1>3. /\ \A i \in DOMAIN line : line[i].by = "server" => AspectServerArg(line[i].arg, class)
      /\ class = "build_like" =>
             \E i \in DOMAIN line : line[i].by = "server"
                                      /\ line[i].arg = Setting("--bes-backend", "endpoint")
  <2>1. /\ \A token \in ToSet(line) : \/ token.by = "server" /\ AspectServerArg(token.arg, class)
                                      \/ token.by = "caller" /\ AspectCallerArg(call, token.arg)
        /\ class = "build_like" =>
               \E token \in ToSet(line) :
                   token.by = "server" /\ token.arg = Setting("--bes-backend", "endpoint")
    BY AspectTokens
  <2> HIDE DEF class, line
  <2> QED
    BY <2>1 DEF ToSet
<1>4. SUFFICES CaptureIsFed(capture, line)
  OBVIOUS
<1> HIDE DEF class, line, capture
<1>5. \A i \in DOMAIN line : line[i].by = "server" =>
          line[i].arg.flag # "--bes_backend" /\ line[i].arg.flag # "--build_event_binary_file"
  BY <1>3 DEF AspectServerArg
<1>6. Sets(line, "--bes_backend") = {} /\ Sets(line, "--build_event_binary_file") = {}
  BY <1>5 DEF Sets
<1>7. CASE class = "build_like"
  <2>1. Setting("--bes-backend", "endpoint").flag = "--bes-backend"
        /\ Setting("--bes-backend", "endpoint").value = "endpoint"
    BY DEF Setting
  <2>2. "endpoint" \in Sets(line, "--bes-backend")
    BY <1>3, <1>7, <2>1 DEF Sets
  <2> QED
    BY <1>2, <1>6, <1>7, <2>2 DEF CaptureIsFed
<1>8. CASE class # "build_like"
  <2>1. Sets(line, "--bes-backend") = {}
    BY <1>3, <1>8 DEF Sets, AspectServerArg
  <2> QED
    BY <1>2, <1>6, <1>8, <2>1 DEF CaptureIsFed
<1> QED
  BY <1>7, <1>8

\* Aspect takes the command the request names.
LEMMA AspectTakesItsCommand ==
    ASSUME NEW conf, NEW call, IsCall(call), NEW class
    PROVE  TakesItsCommand(call, AspectLine(conf, call, class))
<1> DEFINE x == Setting("--task:id", "id")
           y == Setting("--task:timing-summary", "none")
           three == <<x, y, Word(call.command)>>
           h == AspectHead(conf, call)
           n == Nested("--bazel-startup-flag", call.startup)
           f == AspectFlagList(call, class)
           p == Server(h)
           line == AspectLine(conf, call, class)
<1>1. /\ IsList(h) /\ IsList(n) /\ IsList(f) /\ IsList(call.arguments)
      /\ IsList(Nested("--bazel-startup-flag", StartupFlags(conf)))
  BY CallLists, AspectHeadIs, NestedIs, AspectFlagListIs, StartupFlagsAre
<1>2. line = p \o Caller(n) \o Server(f) \o Caller(call.arguments)
  BY AspectLineParts
<1>3. IsList(p) /\ IsList(Caller(n)) /\ IsList(Server(f)) /\ IsList(Caller(call.arguments)) /\ Len(p) = Len(h)
      /\ \A k \in 1 .. Len(h) : p[k] = [by |-> "server", arg |-> h[k]]
  <2> HIDE DEF h, n, f
  <2> QED
    BY <1>1, ByIsList DEF Server, Caller
<1>4. /\ IsList(three) /\ Len(three) = 3 /\ three[1] = x /\ three[2] = y
      /\ three[3] = Word(call.command)
  BY TupleOfThree
<1>5. x.form = "eq" /\ y.form = "eq" /\ Word(call.command).form = "word"
  BY DEF Setting, Word
<1>6. h = three \o Nested("--bazel-startup-flag", StartupFlags(conf))
  BY DEF AspectHead
<1>7. SUFFICES CommandTaken(line) = [by |-> "server", arg |-> Word(call.command)]
  BY DEF TakesItsCommand
<1> DEFINE m == Nested("--bazel-startup-flag", StartupFlags(conf))
           g1 == Caller(n)
           g2 == Server(f)
           g3 == Caller(call.arguments)
<1> HIDE DEF x, y, three, h, n, f, p, line, m, g1, g2, g3
<1>8. Len(h) \in Nat /\ Len(h) >= 3 /\ \A k \in 1 .. 3 : h[k] = three[k]
  <2>1. IsList(three) /\ IsList(m) /\ Len(m) \in Nat
    BY <1>1, <1>4, ListFacts DEF m
  <2>2. Len(three \o m) = Len(three) + Len(m) /\ \A k \in 1 .. Len(three) : (three \o m)[k] = three[k]
    BY ONLY <2>1, ListConcat
  <2> QED
    BY <1>4, <1>6, <2>1, <2>2 DEF m
<1>9. IsList(line) /\ Len(line) \in Nat /\ Len(line) >= Len(h) /\ \A k \in 1 .. Len(h) : line[k] = p[k]
  <2>1. IsList(p) /\ IsList(g1) /\ IsList(g2) /\ IsList(g3)
    BY <1>3 DEF g1, g2, g3
  <2>2. /\ IsList(p \o g1) /\ Len(p \o g1) = Len(p) + Len(g1) /\ Len(g1) \in Nat /\ Len(p) \in Nat
        /\ \A k \in 1 .. Len(p) : (p \o g1)[k] = p[k]
    BY ONLY <2>1, ListConcat, ListFacts
  <2>3. PICK q : q = p \o g1
    OBVIOUS
  <2>4. IsList(q)
    BY <2>2, <2>3
  <2>5. /\ IsList(q \o g2) /\ Len(q \o g2) = Len(q) + Len(g2) /\ Len(g2) \in Nat
        /\ \A k \in 1 .. Len(q) : (q \o g2)[k] = q[k]
    BY ONLY <2>1, <2>4, ListConcat, ListFacts
  <2>6. PICK z : z = q \o g2
    OBVIOUS
  <2>7. IsList(z)
    BY <2>5, <2>6
  <2>8. /\ IsList(z \o g3) /\ Len(z \o g3) = Len(z) + Len(g3) /\ Len(g3) \in Nat
        /\ \A k \in 1 .. Len(z) : (z \o g3)[k] = z[k]
    BY ONLY <2>1, <2>7, ListConcat, ListFacts
  <2>9. line = z \o g3
    BY <1>2, <2>3, <2>6 DEF g1, g2, g3
  <2>10. /\ Len(q) = Len(p) + Len(g1) /\ \A k \in 1 .. Len(p) : q[k] = p[k]
         /\ Len(z) = Len(q) + Len(g2) /\ \A k \in 1 .. Len(q) : z[k] = q[k]
         /\ Len(line) = Len(z) + Len(g3) /\ \A k \in 1 .. Len(z) : line[k] = z[k]
    BY <2>2, <2>3, <2>5, <2>6, <2>8, <2>9
  <2>11. Len(line) \in Nat /\ Len(line) >= Len(p) /\ Len(q) >= Len(p) /\ Len(z) >= Len(q)
         /\ Len(q) \in Nat /\ Len(z) \in Nat
    BY ONLY <2>2, <2>5, <2>8, <2>10
  <2>12. ASSUME NEW k \in 1 .. Len(p) PROVE line[k] = p[k]
    <3>1. k \in 1 .. Len(q) /\ k \in 1 .. Len(z)
      BY <2>2, <2>11
    <3> QED
      BY <2>10, <3>1
  <2> QED
    BY <1>3, <2>8, <2>9, <2>11, <2>12
<1>10. \A k \in 1 .. 3 : line[k] = [by |-> "server", arg |-> three[k]]
  <2>1. \A k \in 1 .. 3 : k \in 1 .. Len(h)
    BY <1>8
  <2> QED
    BY <1>3, <1>8, <1>9, <2>1
<1>11. /\ line[1].arg.form = "eq" /\ line[2].arg.form = "eq" /\ line[3].arg.form = "word"
       /\ line[3] = [by |-> "server", arg |-> Word(call.command)]
  BY <1>4, <1>5, <1>10
<1>12. PICK c \in Nat : c = 3
  OBVIOUS
<1>13. c \in 1 .. Len(line) /\ c - 1 = 2
  BY <1>8, <1>9, <1>12
<1>14. c > 1 => ~TakesValue(line[c - 1].arg)
  BY <1>11, <1>13 DEF TakesValue
<1>15. \A k \in 1 .. c - 1 : line[k].arg.form # "word"
  <2>1. \A k \in 1 .. c - 1 : k = 1 \/ k = 2
    BY <1>13
  <2> QED
    BY <1>11, <2>1
<1>16. CommandTaken(line) = line[c]
  BY <1>9, <1>11, <1>12, <1>13, <1>14, <1>15, FirstWordIsTaken
<1> QED
  BY <1>11, <1>12, <1>16

\* What a configuration that loaded promises to those who run with it.
RunsSafely(given, conf) ==
    /\ "run" \notin conf.aspect.commands
    /\ conf.maximumTimeout \in Nat /\ conf.maximumTimeout > 0 /\ conf.defaultTimeout \in Nat
    /\ conf.policy.environment = given.raw.environment
    /\ \A root \in conf.policy.roots : IsRealPath(given.fs.links, root)

\* The fields of a configuration.
ConfigFields ==
    {"error", "cacheRoot", "policy", "aspect", "defaultTimeout", "maximumTimeout", "pending",
     "outputUserRoot", "supported", "allowUnsupported", "transport", "encoding", "execution"}

\* The fields of a policy.
PolicyFields == {"roots", "allowed", "denied", "environment", "bazel"}

\* A configuration that was accepted is one to run with.
ConfigSound(given, conf) ==
    /\ DOMAIN conf = ConfigFields /\ DOMAIN conf.policy = PolicyFields
    /\ conf.error = "ok" => RunsSafely(given, conf)

\* A runner that is valid has a time to give, and routes run to Bazel.
LEMMA RunnerIsValid ==
    ASSUME NEW raw, ValidateRunner(raw) = "ok"
    PROVE  raw.maximumTimeout > 0 /\ "run" \notin raw.aspectCommands
<1> DEFINE timed == raw.maximumTimeout > 0
           routed == "run" \notin raw.aspectCommands
           named == ~HasInvalidCommand(raw.aspectCommands)
           checks == <<Check(raw.concurrency > 0, "concurrency"),
                       Check(raw.pending >= raw.concurrency, "pending"),
                       Check(timed, "maximum timeout"),
                       Check(raw.maximumRunOutput > 0, "run output"),
                       Check(raw.defaultTimeout <= raw.maximumTimeout, "default timeout"),
                       Check(raw.versionTimeout > 0, "version timeout"),
                       Check(raw.idleTimeout > 0, "idle timeout"),
                       Check(named, "aspect command"),
                       Check(routed, "aspect run"),
                       Check(raw.aspectCommands \subseteq raw.allowed \ raw.denied, "aspect policy"),
                       Check(raw.allowUnsupported \/ raw.supported # {}, "versions")>>
<1>1. FirstError(checks) = "ok"
  BY DEF ValidateRunner
<1> HIDE DEF timed, routed, named
<1>2. DOMAIN checks = 1 .. 11
  OBVIOUS
<1>3. checks[3] = Check(timed, "maximum timeout") /\ checks[9] = Check(routed, "aspect run")
  OBVIOUS
<1> HIDE DEF checks
<1>4. DOMAIN checks \subseteq Nat
  BY ONLY <1>2
<1>5. \A k \in DOMAIN checks : checks[k] = "ok"
  BY <1>1, <1>4, NoError
<1>6. checks[3] = "ok" /\ checks[9] = "ok"
  BY ONLY <1>2, <1>5
<1>7. timed /\ routed
  BY <1>3, <1>6 DEF Check
<1> QED
  BY <1>7 DEF timed, routed

\* That of a server is.
LEMMA LoadIsSound ==
    ASSUME NEW given \in Scenarios
    PROVE  ConfigSound(given, Load(given.fs, given.raw))
<1> DEFINE f == given.fs
           raw == given.raw
           conf == Load(f, raw)
<1>1. /\ DOMAIN conf = ConfigFields /\ DOMAIN conf.policy = PolicyFields
      /\ conf.policy.roots = RootsOf(f, raw) /\ conf.policy.environment = raw.environment
      /\ conf.aspect.commands = raw.aspectCommands
      /\ conf.maximumTimeout = raw.maximumTimeout /\ conf.defaultTimeout = raw.defaultTimeout
  BY DEF Load, ConfigOf, PolicyOf, AspectOf, RootsOf, ConfigFields, PolicyFields
<1>2. /\ {raw.defaultTimeout, raw.maximumTimeout} \subseteq Nat /\ IsFileSystem(f)
      /\ \A root \in raw.allowedRoots : root.parts \in Seq(STRING)
  BY SurfaceAssumption
<1>3. ASSUME conf.error = "ok" PROVE RunsSafely(given, conf)
  <2>1. NotFound \notin RootsOf(f, raw) /\ ValidateRunner(raw) = "ok"
    BY <1>3, LoadedOk
  <2>2. raw.maximumTimeout > 0 /\ "run" \notin raw.aspectCommands
    BY <2>1, RunnerIsValid
  <2>3. ASSUME NEW root \in RootsOf(f, raw) PROVE IsRealPath(f.links, root)
    <3>1. PICK path \in raw.allowedRoots : root = Canonicalize(f, Absolute(path, LaunchDirectory))
      BY DEF RootsOf
    <3>2. path.parts \in Seq(STRING)
      BY <1>2
    <3>3. Absolute(path, LaunchDirectory) \in Seq(STRING)
      <4>1. LaunchDirectory \o path.parts \in Seq(STRING)
        BY <3>2, LaunchAssumption
      <4> QED
        BY <3>2, <4>1 DEF Absolute
    <3>4. root = Resolve(f.links, Absolute(path, LaunchDirectory))
      BY <2>1, <3>1 DEF Canonicalize, Real
    <3>5. \A l \in DOMAIN f.links : IsRealPath(f.links, f.links[l])
      BY <1>2 DEF IsFileSystem
    <3> QED
      BY <3>3, <3>4, <3>5, ResolvedIsReal
  <2> HIDE DEF conf
  <2> QED
    BY <1>1, <1>2, <2>2, <2>3 DEF RunsSafely
<1> QED
  BY <1>1, <1>3 DEF ConfigSound

\* That of an agent is, and has the agent's Bazel.
LEMMA AgentRuntimeIsSound ==
    ASSUME NEW given, NEW conf, ConfigSound(given, conf), NEW scratch, NEW executable
    PROVE  LET new == WithAgentRuntime(conf, scratch, executable)
           IN  /\ ConfigSound(given, new) /\ new.error = conf.error
               /\ new.policy.bazel = executable
<1> DEFINE new == WithAgentRuntime(conf, scratch, executable)
<1>1. /\ DOMAIN new = DOMAIN conf /\ DOMAIN new.policy = DOMAIN conf.policy
      /\ new.error = conf.error /\ new.aspect = conf.aspect
      /\ new.maximumTimeout = conf.maximumTimeout /\ new.defaultTimeout = conf.defaultTimeout
      /\ new.policy.bazel = executable /\ new.policy.roots = conf.policy.roots
      /\ new.policy.environment = conf.policy.environment
  BY DEF ConfigSound, ConfigFields, PolicyFields, WithAgentRuntime
<1> HIDE DEF new
<1>2. ConfigSound(given, new)
  BY <1>1 DEF ConfigSound, RunsSafely
<1> QED
  BY <1>1, <1>2 DEF new

\* A child's time is at least a second and at most the maximum.
LEMMA TimeIsLimited ==
    ASSUME NEW given, NEW conf, RunsSafely(given, conf), NEW call, IsCall(call)
    PROVE  Timeout(conf, call) \in 1 .. conf.maximumTimeout
<1>1. PICK m \in Nat : m = conf.maximumTimeout
  BY DEF RunsSafely
<1>2. PICK x \in Nat : x = IF call.timeout = <<>> THEN conf.defaultTimeout ELSE Head(call.timeout)
  <2>1. conf.defaultTimeout \in Nat /\ call.timeout \in Seq(Nat)
    BY DEF RunsSafely, IsCall
  <2> QED
    BY <2>1
<1>3. m > 0
  BY <1>1 DEF RunsSafely
<1>4. Max({x, 1}) \in Nat /\ Max({x, 1}) >= 1
  BY DEF Max
<1>5. PICK y \in Nat : y = Max({x, 1}) /\ y >= 1
  BY <1>4
<1>6. Min({y, m}) \in 1 .. m
  BY <1>3, <1>5 DEF Min
<1> QED
  BY <1>1, <1>2, <1>5, <1>6 DEF Timeout

\* A request that was let through: what was permitted, where, and with which Bazel.
Admitted(conf, q) ==
    /\ IsCall(q.call[1]) /\ Permitted(conf, q.call[1])
    /\ conf.policy.roots # {} => \E root \in conf.policy.roots : Within(q.workspace, root)
    /\ conf.policy.bazel # "none" => q.bazel = conf.policy.bazel

\* The driver is the one the command is routed to.
Driven(conf, q) ==
    \/ AspectRoutes(conf, q.call[1].command) /\ q.driver.aspect = TRUE
    \/ ~AspectRoutes(conf, q.call[1].command) /\ q.driver.aspect = FALSE

\* The child and the capture beside it are those of the call.
ChildOf(given, conf, q) ==
    \E fifo \in BOOLEAN :
        /\ q.child = <<Child(given.host, conf, q.driver, q.call[1], fifo)>>
        /\ q.capture = Capture(conf, q.driver, q.call[1], fifo)

(***************************************************************************)
(* The child of a permitted call keeps what the server means.              *)
(***************************************************************************)
LEMMA ChildIsAsMeant ==
    ASSUME NEW given, RunsSafely(given, config), NEW q, Admitted(config, q), Driven(config, q),
           ChildOf(given, config, q)
    PROVE  /\ TakesItsCommand(q.call[1], q.child[1].line)
           /\ ServerFlagsWin(q.driver.aspect, q.child[1].line)
           /\ RunBoundaryHolds(q.call[1], q.child[1].line)
           /\ CaptureIsFed(q.capture, q.child[1].line)
           /\ q.capture = "fifo" => SameServer(q.call[1], q.child[1].line)
           /\ q.child[1].environment \subseteq ALWAYS_ALLOWED \cup given.raw.environment \cup {"BAZEL_REAL"}
           /\ q.child[1].timeout \in 1 .. config.maximumTimeout
<1> DEFINE call == q.call[1]
           driver == q.driver
           class == CommandClass(driver, call.command)
<1>1. IsCall(call) /\ Permitted(config, call)
  BY DEF Admitted
<1>2. PICK fifo \in BOOLEAN :
          /\ q.child = <<Child(given.host, config, driver, call, fifo)>>
          /\ q.capture = Capture(config, driver, call, fifo)
  BY DEF ChildOf
<1>3. PICK child : child = q.child[1]
  OBVIOUS
<1>4. child = Child(given.host, config, driver, call, fifo)
  BY <1>2, <1>3
<1>5. /\ child.line = IF driver.aspect THEN AspectLine(config, call, class)
                      ELSE BazelLine(config, call, class, fifo)
      /\ child.environment = FilteredEnvironment(given.host, config.policy)
                               \cup (IF driver.aspect THEN {"BAZEL_REAL"} ELSE {})
      /\ child.timeout = Timeout(config, call)
  BY <1>4 DEF Child
<1>6. child.environment \subseteq ALWAYS_ALLOWED \cup given.raw.environment \cup {"BAZEL_REAL"}
  BY <1>5 DEF FilteredEnvironment, RunsSafely
<1>7. child.timeout \in 1 .. config.maximumTimeout
  BY <1>1, <1>5, TimeIsLimited
<1> HIDE DEF call, driver
<1>8. CASE AspectRoutes(config, call.command) /\ driver.aspect = TRUE
  <2>1. child.line = AspectLine(config, call, class)
    BY <1>5, <1>8
  <2>2. call.command # "run"
    BY <1>8 DEF AspectRoutes, RunsSafely
  <2>3. ServerFlagsWin(TRUE, child.line)
    BY <1>1, <1>8, <2>1, AspectFlagsWin
  <2>4. CaptureIsFed(q.capture, child.line)
    BY <1>1, <1>2, <1>8, <2>1, <2>2, AspectCaptureIsFed
  <2>5. RunBoundaryHolds(call, child.line)
    BY <2>2 DEF RunBoundaryHolds
  <2>6. q.capture # "fifo"
    BY <1>2, <1>8 DEF Capture, Transport
  <2>7. TakesItsCommand(call, child.line)
    BY <1>1, <2>1, AspectTakesItsCommand
  <2> QED
    BY <1>3, <1>6, <1>7, <1>8, <2>3, <2>4, <2>5, <2>6, <2>7 DEF call, driver
<1>9. CASE ~AspectRoutes(config, call.command) /\ driver.aspect = FALSE
  <2>1. child.line = BazelLine(config, call, class, fifo)
    BY <1>5, <1>9
  <2>3. ServerFlagsWin(FALSE, child.line)
    BY <1>1, <1>9, <2>1, BazelFlagsWin
  <2>4. CaptureIsFed(q.capture, child.line)
    BY <1>1, <1>2, <1>9, <2>1, BazelCaptureIsFed
  <2>5. RunBoundaryHolds(call, child.line)
    BY <1>1, <1>9, <2>1, BazelBoundary
  <2>6. SameServer(call, child.line)
    BY <1>1, <2>1, BazelHasSameServer
  <2>7. TakesItsCommand(call, child.line)
    BY <1>1, <2>1, BazelTakesItsCommand
  <2> QED
    BY <1>3, <1>6, <1>7, <1>9, <2>3, <2>4, <2>5, <2>6, <2>7 DEF call, driver
<1> QED
  BY <1>8, <1>9 DEF Driven, call, driver

\* Before the child: no request has one.
Unspawned == {"idle", "dispatched", "probing", "accepted"}

\* What a request promises about the child it runs or will run.
ChildOk(given, conf, q) ==
    /\ q.phase \in Checked \cup {"dispatched"} => conf.error = "ok"
    /\ q.phase \in Checked => Admitted(conf, q)
    /\ q.phase \in {"accepted", "running"} => Driven(conf, q)
    /\ q.phase \in Unspawned => q.child = <<>>
    /\ q.child # <<>> =>
           conf.error = "ok" /\ Admitted(conf, q) /\ Driven(conf, q) /\ ChildOf(given, conf, q)
    /\ q.end.kind # "interrupted"

\* An agent's Bazel is another program than the agent.
AgentHasOwnBazel ==
    mode = "agent" => /\ config.policy.bazel # "none"
                      /\ S.host.identity[config.policy.bazel] # S.host.identity[SHIM]

\* The invariant of the children.
ChildInv ==
    /\ ConfigSound(scenario, config) /\ AgentHasOwnBazel
    /\ \A r \in Slots : ChildOk(scenario, config, req[r])

\* The invariant, with the arguments of an agent, is the property.
LEMMA ChildrenAreAdmitted ==
    ASSUME ChildInv, AgentKeepsArguments
    PROVE  ChildRunsWhatWasAdmitted
<1>1. ASSUME NEW r \in Running
      PROVE  /\ Call(r).command \in config.policy.allowed \ config.policy.denied
             /\ config.policy.roots # {} =>
                  \E root \in config.policy.roots : Within(req[r].workspace, root)
             /\ TakesItsCommand(Call(r), TheChild(r).line)
             /\ ServerFlagsWin(req[r].driver.aspect, TheChild(r).line)
             /\ RunBoundaryHolds(Call(r), TheChild(r).line)
             /\ CaptureIsFed(req[r].capture, TheChild(r).line)
             /\ req[r].capture = "fifo" => SameServer(Call(r), TheChild(r).line)
             /\ TheChild(r).environment \subseteq ALWAYS_ALLOWED \cup S.raw.environment \cup {"BAZEL_REAL"}
             /\ TheChild(r).timeout \in 1 .. config.maximumTimeout
             /\ mode = "agent" => S.host.identity[req[r].bazel] # S.host.identity[SHIM]
  <2>1. r \in Slots /\ req[r].child # <<>>
    BY DEF Running
  <2>2. /\ config.error = "ok" /\ Admitted(config, req[r]) /\ Driven(config, req[r])
        /\ ChildOf(scenario, config, req[r])
    BY <2>1 DEF ChildInv, ChildOk
  <2>3. RunsSafely(scenario, config)
    BY <2>2 DEF ChildInv, ConfigSound
  <2>4. /\ TakesItsCommand(Call(r), TheChild(r).line)
        /\ ServerFlagsWin(req[r].driver.aspect, TheChild(r).line)
        /\ RunBoundaryHolds(Call(r), TheChild(r).line)
        /\ CaptureIsFed(req[r].capture, TheChild(r).line)
        /\ req[r].capture = "fifo" => SameServer(Call(r), TheChild(r).line)
        /\ TheChild(r).environment \subseteq ALWAYS_ALLOWED \cup S.raw.environment \cup {"BAZEL_REAL"}
        /\ TheChild(r).timeout \in 1 .. config.maximumTimeout
    BY <2>2, <2>3, ChildIsAsMeant DEF TheChild, Call, S
  <2>5. /\ Call(r).command \in config.policy.allowed \ config.policy.denied
        /\ config.policy.roots # {} =>
             \E root \in config.policy.roots : Within(req[r].workspace, root)
    BY <2>2 DEF Admitted, Permitted, Call
  <2>6. mode = "agent" => S.host.identity[req[r].bazel] # S.host.identity[SHIM]
    BY <2>2 DEF ChildInv, AgentHasOwnBazel, Admitted
  <2> QED
    BY <2>4, <2>5, <2>6
<1>2. \A r \in Slots : req[r].end.kind # "interrupted"
  BY DEF ChildInv, ChildOk
<1> QED
  BY <1>1, <1>2 DEF ChildRunsWhatWasAdmitted

\* A request that keeps what it is run with, and its phase or one past the child.
LEMMA ChildStays ==
    ASSUME NEW given, NEW conf, NEW q, ChildOk(given, conf, q), NEW p,
           \A f \in {"call", "workspace", "bazel", "driver", "child", "capture"} : p[f] = q[f],
           p.end.kind # "interrupted",
           p.phase = q.phase \/ p.phase \notin Checked \cup Unspawned
    PROVE  ChildOk(given, conf, p)
<1>1. /\ p.call = q.call /\ p.workspace = q.workspace /\ p.bazel = q.bazel /\ p.driver = q.driver
      /\ p.child = q.child /\ p.capture = q.capture
  OBVIOUS
<1>2. /\ Admitted(conf, q) => Admitted(conf, p)
      /\ Driven(conf, q) => Driven(conf, p)
      /\ ChildOf(given, conf, q) => ChildOf(given, conf, p)
  BY <1>1 DEF Admitted, Driven, ChildOf
<1>3. "dispatched" \in Unspawned /\ {"accepted", "running"} \subseteq Checked
  BY DEF Unspawned, Checked
<1> QED
  BY <1>1, <1>2, <1>3 DEF ChildOk

\* An idle request has no child.
LEMMA IdleChildOk ==
    ASSUME NEW given, NEW conf
    PROVE  ChildOk(given, conf, Idle)
<1>1. Idle.phase = "idle" /\ Idle.child = <<>> /\ Idle.end = NoEnd /\ NoEnd.kind = "none"
  BY DEF Idle, NoEnd
<1>2. Idle.end.kind # "interrupted" /\ Idle.phase \notin Checked \cup {"dispatched"}
  BY <1>1 DEF Checked
<1>3. Idle.phase \notin {"accepted", "running"}
  BY <1>1
<1> QED
  BY <1>1, <1>2, <1>3 DEF ChildOk

\* The end of an invocation is one of the kinds its step allows.
LEMMA FinishKind ==
    ASSUME RequestShape, NEW r \in Slots, NEW kinds, Finish(r, kinds)
    PROVE  req'[r].end.kind \in kinds
<1>1. PICK end \in S.ends, summary \in S.summaries :
          end.kind \in kinds /\ Become(r, Finished(r, end, summary))
  BY DEF Finish
<1> DEFINE draft == <<Draft(summary, req[r].dispatch # "agent")>>
           ended == [req[r] EXCEPT !.phase = "ended", !.end = end, !.draft = draft]
           new == Finished(r, end, summary)
<1>2. new = IF Deferred(r) THEN ended ELSE BuildRunResult(ended, FALSE)
  BY DEF Finished
<1> HIDE DEF draft, new
<1>3. DOMAIN ended = DOMAIN Idle /\ ended.end = end
  BY DEF RequestShape, Idle
<1> HIDE DEF ended
<1>4. DOMAIN new = DOMAIN Idle /\ new.end = end
  <2>1. CASE Deferred(r)
    BY <2>1, <1>2, <1>3
  <2>2. CASE ~Deferred(r)
    BY <2>2, <1>2, <1>3 DEF BuildRunResult, Idle
  <2> QED
    BY <2>1, <2>2
<1>5. Become(r, new)
  BY <1>1 DEF new
<1> QED
  BY <1>1, <1>4, <1>5, BecomeReplaces

\* The end of a request that has just ended leaves the rest of it alone.
LEMMA FinishKeepsChild ==
    ASSUME RequestShape, ChildInv, NEW r \in Slots, NEW kinds, Finish(r, kinds),
           "interrupted" \notin kinds
    PROVE  ChildOk(scenario, config, req'[r])
<1>1. FinishedIn(r) /\ req'[r].end.kind # "interrupted"
  BY FinishEffect, FinishKind
<1>2. \A f \in {"call", "workspace", "bazel", "driver", "child", "capture"} : req'[r][f] = req[r][f]
  BY <1>1 DEF FinishedIn, Only, Idle
<1>3. req'[r].phase \notin Checked \cup Unspawned
  BY <1>1 DEF FinishedIn, Checked, Unspawned
<1>4. ChildOk(scenario, config, req[r])
  BY DEF ChildInv
<1> QED
  BY <1>1, <1>2, <1>3, <1>4, ChildStays

\* The event service runs whenever a driver needs its endpoint.
LEMMA EndpointIsThere ==
    ASSUME NEW q, Driven(config, q)
    PROVE  ~EndpointMissing(config, q.driver, q.call[1], NeedsBes(config))
  BY DEF Driven, EndpointMissing, NeedsBes, AspectRoutes, AspectEnabled

\* Spawn starts the child that was admitted, with what the driver adds.
LEMMA SpawnKeepsChild ==
    ASSUME RequestShape, ChildInv, NEW r \in Slots, Spawn(r)
    PROVE  ChildOk(scenario, config, req'[r])
<1>1. ChildOk(scenario, config, req[r]) /\ req[r].phase = "accepted"
  BY DEF ChildInv, Spawn, At
<1>2. config.error = "ok" /\ Admitted(config, req[r]) /\ Driven(config, req[r])
  BY <1>1 DEF ChildOk, Checked
<1>3. ~EndpointMissing(config, req[r].driver, Call(r), NeedsBes(config))
  BY <1>2, EndpointIsThere DEF Call
<1>4. \/ Finish(r, {"cancelled"}) \/ Finish(r, {"spawn failure"})
      \/ \E fifo \in FifoMade(req[r].driver, Call(r)) :
             Become(r, [req[r] EXCEPT
                 !.phase = "running",
                 !.child = <<Child(S.host, config, req[r].driver, Call(r), fifo)>>,
                 !.capture = Capture(config, req[r].driver, Call(r), fifo)])
  BY <1>3 DEF Spawn
<1>5. CASE Finish(r, {"cancelled"})
  <2>1. PICK kinds : kinds = {"cancelled"}
    OBVIOUS
  <2>2. "interrupted" \notin kinds /\ Finish(r, kinds)
    BY <1>5, <2>1
  <2> QED
    BY <2>2, FinishKeepsChild
<1>6. CASE Finish(r, {"spawn failure"})
  <2>1. PICK kinds : kinds = {"spawn failure"}
    OBVIOUS
  <2>2. "interrupted" \notin kinds /\ Finish(r, kinds)
    BY <1>6, <2>1
  <2> QED
    BY <2>2, FinishKeepsChild
<1>7. ASSUME NEW fifo \in FifoMade(req[r].driver, Call(r)),
             Become(r, [req[r] EXCEPT
                 !.phase = "running",
                 !.child = <<Child(S.host, config, req[r].driver, Call(r), fifo)>>,
                 !.capture = Capture(config, req[r].driver, Call(r), fifo)])
      PROVE  ChildOk(scenario, config, req'[r])
  <2>1. fifo \in BOOLEAN
    <3>1. FifoMade(req[r].driver, Call(r)) \subseteq BOOLEAN
      BY DEF FifoMade
    <3> QED
      BY <3>1
  <2>2. PICK child, capture :
            /\ child = <<Child(S.host, config, req[r].driver, Call(r), fifo)>>
            /\ capture = Capture(config, req[r].driver, Call(r), fifo)
    OBVIOUS
  <2> DEFINE new == [req[r] EXCEPT !.phase = "running", !.child = child, !.capture = capture]
  <2>3. /\ DOMAIN new = DOMAIN Idle /\ new.phase = "running" /\ new.child = child
        /\ new.capture = capture
        /\ new.call = req[r].call /\ new.driver = req[r].driver /\ new.workspace = req[r].workspace
        /\ new.bazel = req[r].bazel /\ new.end = req[r].end
    BY DEF RequestShape, Idle
  <2>4. Become(r, new)
    BY <1>7, <2>2
  <2> HIDE DEF new
  <2>5. req'[r] = new
    BY <2>3, <2>4, BecomeReplaces
  <2>6. Admitted(config, new) /\ Driven(config, new)
    BY <1>2, <2>3 DEF Admitted, Driven
  <2>7. ChildOf(scenario, config, new)
    BY <2>1, <2>2, <2>3 DEF ChildOf, Call, S
  <2>8. new.end.kind # "interrupted" /\ new.phase \notin Unspawned
    BY <1>1, <2>3 DEF ChildOk, Unspawned
  <2> QED
    BY <1>2, <2>5, <2>6, <2>7, <2>8 DEF ChildOk
<1> QED
  BY <1>4, <1>5, <1>6, <1>7

\* Accept finds the driver that the command is routed to.
LEMMA AcceptKeepsChild ==
    ASSUME RequestShape, ChildInv, NEW r \in Slots, Accept(r)
    PROVE  ChildOk(scenario, config, req'[r])
<1>1. /\ Only(r, {"phase", "error", "driver"}) /\ req[r].phase = "probing"
      /\ req'[r].phase \in {"answered", "accepted"}
  BY AcceptEffect
<1>2. ChildOk(scenario, config, req[r])
  BY DEF ChildInv
<1>3. /\ req'[r].call = req[r].call /\ req'[r].workspace = req[r].workspace
      /\ req'[r].bazel = req[r].bazel /\ req'[r].child = req[r].child
      /\ req'[r].end = req[r].end
  BY <1>1 DEF Only, Idle
<1>4. config.error = "ok" /\ Admitted(config, req[r]) /\ req[r].child = <<>>
      /\ req[r].end.kind # "interrupted"
  BY <1>1, <1>2 DEF ChildOk, Checked, Unspawned
<1>5. Admitted(config, req'[r])
  BY <1>3, <1>4 DEF Admitted
<1>6. req'[r].phase = "accepted" => req'[r].driver = DriverOf(r).driver
  <2> DEFINE version == Check(req[r].cell = 0 \/ cells[req[r].cell].major \in config.supported,
                              "UnsupportedBazelVersion")
             error == FirstError(<<version, DriverOf(r).error,
                                   Check(~req[r].cancelled, "CancelledBeforeAcceptance")>>)
             taken == [req[r] EXCEPT !.phase = "accepted", !.driver = DriverOf(r).driver]
  <2>1. Become(r, IF error # "ok" THEN Answered(r, error) ELSE taken)
    BY DEF Accept
  <2> HIDE DEF error
  <2>2. DOMAIN taken = DOMAIN Idle /\ taken.driver = DriverOf(r).driver
    BY DEF RequestShape, Idle
  <2> HIDE DEF taken
  <2>3. CASE error # "ok"
    BY <2>1, <2>3, AnsweredShape, BecomeReplaces
  <2>4. CASE error = "ok"
    BY <2>1, <2>2, <2>4, BecomeReplaces
  <2> QED
    BY <2>3, <2>4
<1>7. req'[r].phase = "accepted" => Driven(config, req'[r])
  <2>1. \A e : AspectDriver(e).aspect = TRUE /\ BazelDriver(e).aspect = FALSE
    BY DEF AspectDriver, BazelDriver
  <2>2. IF AspectRoutes(config, Call(r).command) THEN DriverOf(r).driver.aspect = TRUE
        ELSE DriverOf(r).driver.aspect = FALSE
    BY <2>1 DEF DriverOf
  <2> QED
    BY <1>3, <1>6, <2>2 DEF Driven, Call
<1> QED
  BY <1>1, <1>3, <1>4, <1>5, <1>7 DEF ChildOk

\* Steps after the checks.
LEMMA LaterStepKeepsChild ==
    ASSUME RequestShape, ChildInv, NEW r \in Slots, LaterStep(r)
    PROVE  ChildOk(scenario, config, req'[r])
<1> DEFINE Kept == \A f \in {"call", "workspace", "bazel", "driver", "child", "capture", "end"} :
                       req'[r][f] = req[r][f]
<1>1. ChildOk(scenario, config, req[r])
  BY DEF ChildInv
<1>2. ASSUME Kept, req'[r].phase = req[r].phase \/ req'[r].phase \notin Checked \cup Unspawned
      PROVE  ChildOk(scenario, config, req'[r])
  <2>1. req'[r].end.kind # "interrupted"
    BY <1>1, <1>2 DEF ChildOk
  <2> QED
    BY <1>1, <1>2, <2>1, ChildStays
<1>3. CASE Cancel(r)
  <2>1. Kept /\ req'[r].phase = req[r].phase
    BY <1>3, CancelEffect DEF Only, Idle
  <2> QED
    BY <1>2, <2>1
<1>4. CASE Accept(r)
  BY <1>4, AcceptKeepsChild
<1>5. CASE Spawn(r)
  BY <1>5, SpawnKeepsChild
<1>6. CASE Exit(r)
  <2>1. PICK kinds : /\ kinds = {"exit", "signal", "timeout", "output limit"}
                                  \cup (IF req[r].cancelled THEN {"cancelled"} ELSE {})
                     /\ Finish(r, kinds)
    BY <1>6 DEF Exit
  <2>2. "interrupted" \notin kinds
    BY <2>1
  <2> QED
    BY <2>1, <2>2, FinishKeepsChild
<1>7. CASE Pack(r)
  <2>1. Kept /\ req'[r].phase \in {"packing", "answered"}
    BY <1>7, PackEffect DEF Only, Idle
  <2> QED
    BY <1>2, <2>1 DEF Checked, Unspawned
<1>8. CASE Forget(r)
  <2>1. Kept /\ req'[r].phase = "answered"
    BY <1>8, ForgetEffect DEF Only, Idle
  <2> QED
    BY <1>2, <2>1 DEF Checked, Unspawned
<1>9. CASE \E method, capable : TaskCall(r, method, capable)
  <2>1. Kept /\ req'[r].phase \in {req[r].phase, "packing"}
    BY <1>9, TaskCallEffect DEF Only, Idle
  <2> QED
    BY <1>2, <2>1 DEF Checked, Unspawned
<1> QED
  BY <1>3, <1>4, <1>5, <1>6, <1>7, <1>8, <1>9 DEF LaterStep

\* A workspace that was let through is in a root.
LEMMA PlacedInRoot ==
    ASSUME NEW r \in Slots, WorldOk, RunsSafely(scenario, config), IsCall(Call(r)),
           Placed(Call(r)).error = "ok"
    PROVE  config.policy.roots # {} =>
               \E root \in config.policy.roots : Within(Placed(Call(r)).workspace, root)
<1> DEFINE call == Call(r)
           roots == config.policy.roots
           checked == ValidateWorkspace(fs, call.workspace, roots)
           selected == EffectiveOutputBase(fs, checked.workspace, call.startup)
           bazel == ResolveBazelExecutable(S.host, checked.workspace, config.policy.bazel, "none")
<1>1. /\ Placed(call).workspace = checked.workspace
      /\ FirstError(<<checked.error, selected.error, bazel.error>>) = "ok"
  BY DEF Placed, Places
<1>2. checked.error = "ok"
  <2>1. PICK a, b, c : a = checked.error /\ b = selected.error /\ c = bazel.error
    OBVIOUS
  <2> HIDE DEF checked, selected, bazel
  <2>2. FirstError(<<a, b, c>>) = "ok"
    BY <1>1, <2>1
  <2> QED
    BY <2>1, <2>2, NoError3
<1>3. LinksOk(fs.links) /\ call.workspace.parts \in Seq(STRING)
  BY LinksLead DEF IsCall
<1>4. roots = {} \/ \E root \in roots : Canonicalize(fs, root) # NotFound
                       /\ Within(checked.workspace, Canonicalize(fs, root))
  BY <1>2, <1>3, WorkspaceIsReal
<1>5. ASSUME NEW root \in roots, Canonicalize(fs, root) # NotFound PROVE Canonicalize(fs, root) = root
  <2>1. IsRealPath(fs.links, root)
    BY DEF RunsSafely, WorldOk, S
  <2>2. Resolve(fs.links, root) = root
    BY <2>1, RealStays
  <2> QED
    BY <1>5, <2>2 DEF Canonicalize, Real
<1> HIDE DEF checked
<1> QED
  BY <1>1, <1>4, <1>5

\* A Bazel that is configured is the one that is used.
LEMMA PlacedBazel ==
    ASSUME NEW call, config.policy.bazel # "none"
    PROVE  Placed(call).bazel = config.policy.bazel
<1> DEFINE workspace == ValidateWorkspace(fs, call.workspace, config.policy.roots)
<1>1. Placed(call).bazel
        = ResolveBazelExecutable(S.host, workspace.workspace, config.policy.bazel, "none").executable
  BY DEF Placed, Places
<1> HIDE DEF workspace
<1> QED
  BY <1>1 DEF ResolveBazelExecutable

\* Prepare admits a call that every check let pass.
LEMMA PrepareKeepsChild ==
    ASSUME RequestShape, LockInv, ChildInv, NEW r \in Slots, Prepare(r)
    PROVE  ChildOk(scenario, config, req'[r])
<1>1. ChildOk(scenario, config, req[r]) /\ req[r].phase = "dispatched"
  BY PrepareEffect DEF ChildInv
<1>2. config.error = "ok" /\ req[r].child = <<>> /\ req[r].end.kind # "interrupted"
  BY <1>1 DEF ChildOk, Unspawned
<1>3. /\ req'[r].phase \in {"answered", "probing"}
      /\ req'[r].call = req[r].call /\ req'[r].child = req[r].child /\ req'[r].end = req[r].end
  BY PrepareEffect DEF Only, Idle
<1>4. CASE req'[r].phase = "answered"
  BY <1>2, <1>3, <1>4 DEF ChildOk, Checked, Unspawned
<1>5. CASE req'[r].phase = "probing"
  <2>1. IsCall(Call(r)) /\ WorldOk /\ RunsSafely(scenario, config)
    BY <1>1, <1>2 DEF LockInv, CallOk, Call, ChildInv, ConfigSound
  <2>2. /\ ArgumentsError(Call(r)) = "ok" /\ Placed(Call(r)).error = "ok"
        /\ req'[r].workspace = Placed(Call(r)).workspace
        /\ req'[r].bazel = Placed(Call(r)).bazel
    BY <1>5, PreparePasses
  <2>3. Permitted(config, Call(r))
    BY <2>1, <2>2, ArgumentsArePermitted
  <2>4. config.policy.roots # {} =>
            \E root \in config.policy.roots : Within(req'[r].workspace, root)
    BY <2>1, <2>2, PlacedInRoot
  <2>5. config.policy.bazel # "none" => req'[r].bazel = config.policy.bazel
    BY <2>2, PlacedBazel
  <2>6. Admitted(config, req'[r])
    BY <1>3, <2>1, <2>3, <2>4, <2>5 DEF Admitted, Call
  <2> QED
    BY <1>2, <1>3, <1>5, <2>6 DEF ChildOk
<1> QED
  BY <1>3, <1>4, <1>5

\* A call that arrives has no child.
LEMMA ReceiveKeepsChild ==
    ASSUME RequestShape, LockInv, NEW r \in Slots, NEW call, Receive(r, call)
    PROVE  ChildOk(scenario, config, req'[r])
<1>1. /\ req'[r].phase \in {"dispatched", "answered"}
      /\ req'[r].child = Idle.child /\ req'[r].end = Idle.end
  <2>1. /\ req'[r].phase \in {"dispatched", "answered"}
        /\ \A f \in DOMAIN Idle \ {"phase", "call", "family", "dispatch", "error"} : req'[r][f] = Idle[f]
    BY ReceiveEffect
  <2>2. {"child", "end"} \subseteq DOMAIN Idle \ {"phase", "call", "family", "dispatch", "error"}
    BY DEF Idle
  <2> QED
    BY <2>1, <2>2
<1>2. Idle.child = <<>> /\ Idle.end = NoEnd /\ NoEnd.kind = "none"
  BY DEF Idle, NoEnd
<1>3. config.error = "ok"
  BY DEF Receive, LockInv, ConfigLoaded
<1>4. req'[r].phase \notin Checked /\ req'[r].phase \notin {"accepted", "running"}
  BY <1>1 DEF Checked
<1>5. req'[r].child = <<>> /\ req'[r].end.kind # "interrupted"
  BY <1>1, <1>2
<1> QED
  BY <1>3, <1>4, <1>5 DEF ChildOk

\* A step of one request, while the process goes on.
LEMMA OneStepKeepsChildren ==
    ASSUME ChildInv, NEW r \in Slots, UNCHANGED <<scenario, mode, config>>,
           \A s \in Slots \ {r} : req'[s] = req[s], ChildOk(scenario, config, req'[r])
    PROVE  ChildInv'
<1>1. \A s \in Slots : ChildOk(scenario, config, req'[s])
  BY DEF ChildInv
<1>2. AgentHasOwnBazel' /\ ConfigSound(scenario, config)'
  BY DEF ChildInv, AgentHasOwnBazel, S
<1> QED
  BY <1>1, <1>2 DEF ChildInv

\* A request that was delivered has none.
LEMMA DeliverKeepsChildren ==
    ASSUME RequestShape, ChildInv, NEW r \in Slots, Deliver(r)
    PROVE  ChildInv'
<1>1. UNCHANGED <<scenario, config>> /\ mode' \in {mode, "exited"}
  BY DEF Deliver
<1>2. \/ req' = req
      \/ req'[r] = Idle /\ \A s \in Slots \ {r} : req'[s] = req[s]
  BY DeliverEffect
<1>3. \A s \in Slots : req'[s] = req[s] \/ req'[s] = Idle
  BY <1>2
<1>4. \A s \in Slots : ChildOk(scenario, config, req'[s])
  BY <1>3, IdleChildOk DEF ChildInv
<1>5. AgentHasOwnBazel' /\ ConfigSound(scenario, config)'
  BY <1>1 DEF ChildInv, AgentHasOwnBazel, S
<1> QED
  BY <1>1, <1>4, <1>5 DEF ChildInv

\* A step outside the requests leaves the children alone.
LEMMA OutsideStepKeepsChildren ==
    ASSUME ChildInv, UNCHANGED <<scenario, config, req>>, mode' = mode \/ mode' # "agent"
    PROVE  ChildInv'
<1>1. AgentHasOwnBazel' /\ ConfigSound(scenario, config)'
  BY DEF ChildInv, AgentHasOwnBazel, S
<1> QED
  BY <1>1 DEF ChildInv

\* The agent's Bazel is another program than the agent's own.
LEMMA AgentBazelIsAnother ==
    ASSUME scenario \in Scenarios, NEW workspace, AgentBazel(workspace).error = "ok"
    PROVE  /\ AgentBazel(workspace).executable # "none"
           /\ S.host.identity[AgentBazel(workspace).executable] # S.host.identity[SHIM]
<1> DEFINE host == S.host
           configured == config.policy.bazel
           from == IF workspace = NotFound THEN LaunchDirectory ELSE workspace
           found == AgentBazel(workspace)
           candidates == Candidates(host, from)
           usable == {k \in DOMAIN candidates : ~IsExcluded(host, candidates[k], SHIM)}
<1>1. IsHost(host) /\ SHIM # "none"
  BY SurfaceAssumption DEF S
<1>2. \A c : ~IsExcluded(host, c, SHIM) => host.identity[c] # host.identity[SHIM]
  BY <1>1 DEF IsExcluded
<1>3. found = ResolveBazelExecutable(host, from, configured, SHIM)
  BY DEF AgentBazel
<1>4. CASE configured # "none"
  <2>1. /\ found.executable = configured
        /\ found.error = FirstError(<<Check(configured \in host.executables, "ExecutableNotFound"),
                                      Check(~IsExcluded(host, configured, SHIM), "ExecutableRecursion")>>)
    BY <1>3, <1>4 DEF ResolveBazelExecutable
  <2>2. PICK a, b : /\ a = Check(configured \in host.executables, "ExecutableNotFound")
                    /\ b = Check(~IsExcluded(host, configured, SHIM), "ExecutableRecursion")
    OBVIOUS
  <2>3. FirstError(<<a, b>>) = "ok"
    BY <2>1, <2>2
  <2>4. b = "ok"
    BY <2>3, NoError2
  <2>5. ~IsExcluded(host, configured, SHIM)
    BY <2>2, <2>4 DEF Check
  <2> QED
    BY <1>2, <1>4, <2>1, <2>5
<1>5. CASE configured = "none"
  <2>1. usable # {} /\ found.executable = candidates[Min(usable)]
    BY <1>3, <1>5 DEF ResolveBazelExecutable
  <2>2. IsList(candidates) /\ \A c \in ToSet(candidates) : c # "none"
    <3> DEFINE own == IF from \in DOMAIN host.wrappers /\ host.wrappers[from] \in host.executables
                      THEN <<host.wrappers[from]>> ELSE <<>>
               one == host.path["bazelisk"]
               two == host.path["bazel"]
    <3>1. candidates = own \o one \o two
      BY DEF Candidates
    <3>2. one \in Seq(STRING \ {"none"}) /\ two \in Seq(STRING \ {"none"})
      BY <1>1 DEF IsHost
    <3>3. IsList(own) /\ \A c \in ToSet(own) : c # "none"
      <4>1. PICK w : w = host.wrappers[from]
        OBVIOUS
      <4>2. IsList(<<w>>) /\ ToSet(<<w>>) = {w}
        BY TupleOfOne
      <4>3. from \in DOMAIN host.wrappers => w # "none"
        BY <1>1, <4>1 DEF IsHost
      <4>4. \/ own = <<w>> /\ from \in DOMAIN host.wrappers
            \/ own = <<>>
        BY <4>1
      <4> HIDE DEF own
      <4> QED
        BY <4>2, <4>3, <4>4, EmptySet
    <3> HIDE DEF own, one, two, candidates
    <3>4. IsList(one) /\ IsList(two) /\ (\A c \in ToSet(one) : c # "none")
          /\ (\A c \in ToSet(two) : c # "none")
      <4>1. IsList(one) /\ IsList(two)
        BY <3>2, ListOf
      <4>2. ToSet(one) \subseteq STRING \ {"none"} /\ ToSet(two) \subseteq STRING \ {"none"}
        BY <3>2 DEF ToSet
      <4> QED
        BY <4>1, <4>2
    <3>5. IsList(own \o one) /\ ToSet(own \o one) = ToSet(own) \cup ToSet(one)
      BY <3>3, <3>4, ListConcat
    <3>6. IsList(own \o one \o two) /\ ToSet(own \o one \o two) = ToSet(own \o one) \cup ToSet(two)
      BY <3>4, <3>5, ListConcat
    <3> QED
      BY <3>1, <3>3, <3>4, <3>5, <3>6
  <2> HIDE DEF candidates
  <2>3. DOMAIN candidates \subseteq Nat
    <3>1. DOMAIN candidates = 1 .. Len(candidates) /\ Len(candidates) \in Nat
      BY <2>2, ListFacts
    <3> QED
      BY ONLY <3>1
  <2>4. Min(usable) \in usable
    <3>1. usable \subseteq Nat
      BY <2>3
    <3> HIDE DEF usable
    <3> QED
      BY <2>1, <3>1, LeastIs
  <2>5. candidates[Min(usable)] \in ToSet(candidates) /\ ~IsExcluded(host, candidates[Min(usable)], SHIM)
    <3>1. PICK k : k = Min(usable)
      OBVIOUS
    <3>2. k \in DOMAIN candidates /\ ~IsExcluded(host, candidates[k], SHIM)
      BY <2>4, <3>1
    <3> QED
      BY <3>1, <3>2 DEF ToSet
  <2> QED
    BY <1>2, <2>1, <2>2, <2>5
<1> QED
  BY <1>4, <1>5

\* An agent that starts has its configuration, its Bazel and its arguments.
LEMMA AgentStartsSound ==
    ASSUME NEW workspace, NEW parsed, AgentError(workspace, parsed) = "ok"
    PROVE  /\ config.error = "ok" /\ AgentBazel(workspace).error = "ok"
           /\ ~AgentRaw => workspace # NotFound /\ parsed.error = "ok"
<1> DEFINE located == AgentRaw \/ workspace # NotFound
<1>1. PICK a, b, c, d :
          /\ a = Check(config.error = "ok", "configuration") /\ b = AgentBazel(workspace).error
          /\ c = Check(located, "no workspace") /\ d = IF AgentRaw THEN "ok" ELSE parsed.error
  OBVIOUS
<1>2. FirstError(<<a, b, c, d>>) = "ok"
  BY <1>1 DEF AgentError
<1> HIDE DEF located
<1>3. a = "ok" /\ b = "ok" /\ c = "ok" /\ d = "ok"
  BY <1>2, NoError4
<1>4. config.error = "ok" /\ located
  BY <1>1, <1>3 DEF Check
<1>5. ~AgentRaw => parsed.error = "ok"
  BY <1>1, <1>3
<1> QED
  BY <1>1, <1>3, <1>4, <1>5 DEF located

\* The agent's own request has no child yet, and its configuration is sound.
LEMMA StartAgentKeepsChildren ==
    ASSUME RequestShape, DownIsIdle, LockInv, ChildInv, StartAgent
    PROVE  ChildInv'
<1> DEFINE workspace == DiscoverWorkspace(fs, LaunchDirectory)
           parsed == ParseBazelArguments(AgentArguments, config.policy)
           error == AgentError(workspace, parsed)
           new == [Idle EXCEPT !.phase = "dispatched", !.dispatch = "agent",
                               !.call = <<AgentCall(workspace, parsed)>>]
           m == Min(Slots)
           executable == AgentBazel(workspace).executable
<1>1. /\ mode = "down" /\ UNCHANGED <<scenario, fs, sent>>
      /\ \/ mode' # "agent" /\ UNCHANGED <<config, req>>
         \/ /\ error = "ok" /\ ~AgentRaw /\ Become(m, new)
            /\ config' = WithAgentRuntime(config, Scratch, executable)
  BY DEF StartAgent
<1>2. \A s \in Slots : req[s] = Idle
  BY <1>1 DEF DownIsIdle
<1>3. CASE mode' # "agent" /\ UNCHANGED <<config, req>>
  BY <1>1, <1>3, OutsideStepKeepsChildren
<1>4. CASE /\ error = "ok" /\ ~AgentRaw /\ Become(m, new)
           /\ config' = WithAgentRuntime(config, Scratch, executable)
  <2> HIDE DEF workspace, parsed, m
  <2>1. config.error = "ok" /\ AgentBazel(workspace).error = "ok"
    BY <1>4, AgentStartsSound
  <2>2. executable # "none" /\ S.host.identity[executable] # S.host.identity[SHIM]
    BY <2>1, AgentBazelIsAnother DEF LockInv, WorldOk
  <2> HIDE DEF executable
  <2>3. ConfigSound(scenario, config') /\ config'.error = "ok" /\ config'.policy.bazel = executable
    BY <1>4, <2>1, AgentRuntimeIsSound DEF ChildInv
  <2>4. /\ DOMAIN new = DOMAIN Idle /\ new.phase = "dispatched" /\ new.child = <<>>
        /\ new.end = NoEnd
    BY DEF Idle
  <2>5. NoEnd.kind = "none"
    BY DEF NoEnd
  <2> HIDE DEF new
  <2>6. ChildOk(scenario, config', new)
    BY <2>3, <2>4, <2>5 DEF ChildOk, Checked
  <2>7. \A s \in Slots : req'[s] = Idle \/ req'[s] = new
    BY <1>2, <1>4 DEF Become, RequestShape
  <2>8. \A s \in Slots : ChildOk(scenario, config', req'[s])
    BY <2>6, <2>7, IdleChildOk
  <2>9. AgentHasOwnBazel'
    BY <1>1, <2>2, <2>3 DEF AgentHasOwnBazel, S
  <2> QED
    BY <1>1, <2>3, <2>8, <2>9 DEF ChildInv
<1> QED
  BY <1>1, <1>3, <1>4

\* The invariant of the children holds at the start.
LEMMA ChildInit ==
    ASSUME Init
    PROVE  ChildInv
<1>1. scenario \in Scenarios /\ mode = "down" /\ config = Load(scenario.fs, scenario.raw)
      /\ \A r \in Slots : req[r] = Idle
  BY DEF Init, S
<1>2. ConfigSound(scenario, config)
  BY <1>1, LoadIsSound
<1>3. \A r \in Slots : ChildOk(scenario, config, req[r])
  BY <1>1, IdleChildOk
<1>4. AgentHasOwnBazel
  BY <1>1 DEF AgentHasOwnBazel
<1> QED
  BY <1>2, <1>3, <1>4 DEF ChildInv

\* Every step keeps the invariant of the children.
LEMMA NextKeepsChildren ==
    ASSUME RequestShape, DownIsIdle, LockInv, ChildInv, [Next]_vars
    PROVE  ChildInv'
<1>1. CASE StartServer \/ RunUnfiltered \/ \E version \in S.versions : Initialize(version)
  <2>1. UNCHANGED <<scenario, config, req>> /\ (mode' = mode \/ mode' # "agent")
    BY <1>1 DEF StartServer, Serve, RunUnfiltered, Initialize
  <2> QED
    BY <2>1, OutsideStepKeepsChildren
<1>2. CASE StartAgent
  BY <1>2, StartAgentKeepsChildren
<1>3. ASSUME NEW r \in Slots, NEW call, Receive(r, call) PROVE ChildInv'
  <2>1. UNCHANGED <<scenario, mode, config>>
    BY <1>3 DEF Receive
  <2>2. \A s \in Slots \ {r} : req'[s] = req[s]
    BY <1>3, ReceiveEffect
  <2> QED
    BY <1>3, <2>1, <2>2, ReceiveKeepsChild, OneStepKeepsChildren
<1>4. ASSUME NEW r \in Slots, LaterStep(r) PROVE ChildInv'
  <2>1. UNCHANGED <<scenario, mode, config>>
    BY <1>4 DEF LaterStep, Cancel, Accept, Spawn, Exit, Pack, Forget, TaskCall
  <2>2. \A s \in Slots \ {r} : req'[s] = req[s]
    BY <1>4, RequestStepIsLocal DEF LaterStep, RequestStep
  <2> QED
    BY <1>4, <2>1, <2>2, LaterStepKeepsChild, OneStepKeepsChildren
<1>5. ASSUME NEW r \in Slots, Prepare(r) PROVE ChildInv'
  <2>1. UNCHANGED <<scenario, mode, config>>
    BY <1>5 DEF Prepare
  <2>2. \A s \in Slots \ {r} : req'[s] = req[s]
    BY <1>5, RequestStepIsLocal DEF RequestStep
  <2> QED
    BY <1>5, <2>1, <2>2, PrepareKeepsChild, OneStepKeepsChildren
<1>6. ASSUME NEW r \in Slots, Deliver(r) PROVE ChildInv'
  BY <1>6, DeliverKeepsChildren
<1>7. CASE \/ \E r \in Slots : CreateOutputBase(r) \/ StartProbe(r)
           \/ \E k \in DOMAIN cells, outcome \in S.probes : EndProbe(k, outcome)
           \/ UNCHANGED vars
  <2>1. UNCHANGED <<scenario, mode, config, req>>
    BY <1>7 DEF CreateOutputBase, StartProbe, EndProbe, vars
  <2> QED
    BY <2>1, OutsideStepKeepsChildren
<1> QED
  BY <1>1, <1>2, <1>3, <1>4, <1>5, <1>6, <1>7 DEF Next, LaterStep

\* How often an argument stands in a list that is put together from parts.
LEMMA ShiftKeepsSize ==
    ASSUME NEW n \in Nat, NEW B, B \subseteq Nat, IsFiniteSet(B)
    PROVE  LET C == {n + k : k \in B} IN IsFiniteSet(C) /\ Cardinality(C) = Cardinality(B)
<1> DEFINE C == {n + k : k \in B}
           f == [k \in B |-> n + k]
<1>1. f \in [B -> C] /\ \A k \in B : f[k] = n + k
  OBVIOUS
<1>2. \A c \in C : \E k \in B : f[k] = c
  OBVIOUS
<1>3. \A k, l \in B : f[k] = f[l] => k = l
  BY <1>1
<1>5. \A k, l \in DOMAIN f : f[k] = f[l] => k = l
  BY <1>1, <1>3
<1> HIDE DEF f, C
<1>4. f \in Bijection(B, C)
  BY <1>1, <1>2, <1>3, <1>5 DEF Bijection, Injection, Surjection, IsInjective
<1>6. ExistsBijection(B, C)
  BY <1>4 DEF ExistsBijection
<1> QED
  BY <1>6, FS_Bijection DEF C

\* They are counted over a finite set.
LEMMA OccurrencesAre ==
    ASSUME NEW T, NEW s \in Seq(T), NEW a
    PROVE  /\ IsFiniteSet({k \in DOMAIN s : s[k] = a}) /\ Occurrences(s, a) \in Nat
           /\ Occurrences(s, a) = Cardinality({k \in DOMAIN s : s[k] = a})
<1>1. DOMAIN s = 1 .. Len(s) /\ Len(s) \in Nat
  OBVIOUS
<1>0. PICK one \in Int : one = 1
  OBVIOUS
<1>2. IsFiniteSet(1 .. Len(s))
  BY <1>0, <1>1, FS_Interval
<1>3. {k \in DOMAIN s : s[k] = a} \in SUBSET (1 .. Len(s))
  BY <1>1
<1>4. IsFiniteSet({k \in DOMAIN s : s[k] = a})
  BY <1>2, <1>3, FS_Subset
<1> QED
  BY <1>4, FS_CardinalityType DEF Occurrences

\* A concatenation holds an argument as often as its parts together.
LEMMA OccurrencesAdd ==
    ASSUME NEW T, NEW s \in Seq(T), NEW t \in Seq(T), NEW a
    PROVE  Occurrences(s \o t, a) = Occurrences(s, a) + Occurrences(t, a)
<1> DEFINE A == {k \in DOMAIN s : s[k] = a}
           B == {k \in DOMAIN t : t[k] = a}
           C == {Len(s) + k : k \in B}
           D == {k \in DOMAIN (s \o t) : (s \o t)[k] = a}
<1>1. IsFiniteSet(A) /\ Occurrences(s, a) = Cardinality(A)
  BY OccurrencesAre
<1>2. IsFiniteSet(B) /\ Occurrences(t, a) = Cardinality(B)
  BY OccurrencesAre
<1>3. Len(s) \in Nat /\ B \subseteq Nat
  OBVIOUS
<1>4. IsFiniteSet(C) /\ Cardinality(C) = Cardinality(B)
  <2> HIDE DEF B
  <2> QED
    BY <1>2, <1>3, ShiftKeepsSize
<1>5. /\ s \o t \in Seq(T) /\ Len(s \o t) = Len(s) + Len(t)
      /\ \A i \in 1 .. Len(s) : (s \o t)[i] = s[i]
      /\ \A i \in 1 .. Len(t) : (s \o t)[Len(s) + i] = t[i]
  BY ConcatAt
<1>6. A \cap C = {}
  OBVIOUS
<1>7. D = A \cup C
  <2>1. A \cup C \subseteq D
    BY <1>5
  <2>2. ASSUME NEW k \in D PROVE k \in A \cup C
    <3>1. k \in 1 .. Len(s) + Len(t)
      BY <1>5
    <3>2. CASE k \in 1 .. Len(s)
      BY <1>5, <3>2
    <3>3. CASE k \notin 1 .. Len(s)
      <4>1. k - Len(s) \in 1 .. Len(t) /\ k = Len(s) + (k - Len(s))
        BY <3>1, <3>3
      <4>2. t[k - Len(s)] = a
        BY <1>5, <4>1
      <4> QED
        BY <4>1, <4>2
    <3> QED
      BY <3>2, <3>3
  <2> QED
    BY <2>1, <2>2
<1>8. Occurrences(s \o t, a) = Cardinality(D)
  BY DEF Occurrences
<1> HIDE DEF A, B, C, D
<1>9. Cardinality(A \cup C) = Cardinality(A) + Cardinality(C) - Cardinality(A \cap C)
  BY <1>1, <1>4, FS_Union
<1>10. Cardinality(A \cap C) = 0 /\ Cardinality(A) \in Nat /\ Cardinality(C) \in Nat
  BY <1>1, <1>4, <1>6, FS_EmptySet, FS_CardinalityType
<1> QED
  BY <1>1, <1>2, <1>4, <1>7, <1>8, <1>9, <1>10

\* The empty list holds none.
LEMMA NoneInNothing ==
    ASSUME NEW a
    PROVE  Occurrences(<<>>, a) = 0
<1>1. {k \in DOMAIN <<>> : <<>>[k] = a} = {}
  OBVIOUS
<1> QED
  BY <1>1, FS_EmptySet DEF Occurrences

\* A list of one other argument holds none.
LEMMA NoneInOther ==
    ASSUME NEW a, NEW b, a # b
    PROVE  Occurrences(<<b>>, a) = 0
<1>1. {k \in DOMAIN <<b>> : <<b>>[k] = a} = {}
  OBVIOUS
<1> QED
  BY <1>1, FS_EmptySet DEF Occurrences

\* A list is what is before a position, what is at it, and what is behind it.
LEMMA ListIsCut ==
    ASSUME NEW T, NEW s \in Seq(T), NEW k \in 1 .. Len(s), NEW a
    PROVE  /\ SubSeq(s, 1, k - 1) \in Seq(T) /\ <<s[k]>> \in Seq(T) /\ From(s, k + 1) \in Seq(T)
           /\ s = (SubSeq(s, 1, k - 1) \o <<s[k]>>) \o From(s, k + 1)
           /\ Occurrences(s, a) = Occurrences(SubSeq(s, 1, k - 1), a) + Occurrences(<<s[k]>>, a)
                                    + Occurrences(From(s, k + 1), a)
<1> DEFINE p == SubSeq(s, 1, k - 1)
           q == <<s[k]>>
           r == From(s, k + 1)
<1>1. k \in Nat /\ Len(s) \in Nat /\ k - 1 \in 0 .. Len(s) /\ k + 1 \in Nat \ {0} /\ Len(s) \in 0 .. Len(s)
  OBVIOUS
<1>0. PICK one \in Nat \ {0} : one = 1
  OBVIOUS
<1>2. p \in Seq(T) /\ Len(p) = k - 1 /\ \A i \in 1 .. k - 1 : p[i] = s[i]
  <2>1. p \in Seq(T)
    BY <1>0, <1>1, SliceIsSeq
  <2> QED
    BY <1>1, <2>1
<1>3. q \in Seq(T) /\ Len(q) = 1 /\ q[1] = s[k]
  OBVIOUS
<1>4. r \in Seq(T) /\ Len(r) = Len(s) - k /\ \A i \in 1 .. Len(s) - k : r[i] = s[k + i]
  <2>1. r \in Seq(T)
    BY <1>1, SliceIsSeq DEF From
  <2>2. CASE k = Len(s)
    BY <1>1, <2>1, <2>2 DEF From
  <2>3. CASE k < Len(s)
    BY <1>1, <2>1, <2>3 DEF From
  <2> QED
    BY <1>1, <2>2, <2>3
<1> HIDE DEF p, q, r
<1>9. p \in Seq(T) /\ q \in Seq(T) /\ r \in Seq(T)
  BY <1>2, <1>3, <1>4
<1>5. /\ p \o q \in Seq(T) /\ Len(p \o q) = k
      /\ \A i \in 1 .. k - 1 : (p \o q)[i] = s[i]
      /\ (p \o q)[k] = s[k]
  <2>1. /\ p \o q \in Seq(T) /\ Len(p \o q) = Len(p) + Len(q)
        /\ \A i \in 1 .. Len(p) : (p \o q)[i] = p[i]
        /\ \A i \in 1 .. Len(q) : (p \o q)[Len(p) + i] = q[i]
    BY ONLY <1>9
  <2>2. (k - 1) + 1 = k /\ 1 \in 1 .. Len(q)
    BY <1>1, <1>3
  <2> QED
    BY <1>1, <1>2, <1>3, <2>1, <2>2
<1>6. s = (p \o q) \o r
  <2> DEFINE u == p \o q
  <2>6. u \in Seq(T)
    BY <1>5
  <2> HIDE DEF u
  <2>1. /\ u \o r \in Seq(T) /\ Len(u \o r) = Len(u) + Len(r)
        /\ \A i \in 1 .. Len(u) : (u \o r)[i] = u[i]
        /\ \A i \in 1 .. Len(r) : (u \o r)[Len(u) + i] = r[i]
    BY ONLY <1>9, <2>6
  <2>4. Len(u) = k /\ \A i \in 1 .. k : u[i] = s[i]
    BY <1>1, <1>5 DEF u
  <2>2. Len(u \o r) = Len(s)
    BY <1>1, <1>4, <2>1, <2>4
  <2>3. ASSUME NEW i \in 1 .. Len(s) PROVE (u \o r)[i] = s[i]
    <3>1. CASE i <= k
      BY <1>1, <2>1, <2>4, <3>1
    <3>2. CASE i > k
      <4>1. i - k \in 1 .. Len(s) - k /\ k + (i - k) = i
        BY <1>1, <3>2
      <4> QED
        <5>1. r[i - k] = s[i] /\ i - k \in 1 .. Len(r)
          BY <1>4, <4>1
        <5>2. (u \o r)[k + (i - k)] = r[i - k]
          BY <2>1, <2>4, <5>1
        <5> QED
          BY <4>1, <5>1, <5>2
    <3>3. i <= k \/ i > k
      BY <1>1
    <3> QED
      BY <3>1, <3>2, <3>3
  <2>5. s = u \o r
    <3> DEFINE v == u \o r
    <3>1. v \in Seq(T) /\ Len(v) = Len(s) /\ \A i \in 1 .. Len(s) : v[i] = s[i]
      BY <2>1, <2>2, <2>3
    <3> HIDE DEF v
    <3>2. s = v
      BY <3>1
    <3> QED
      BY <3>2 DEF v
  <2> QED
    BY <2>5 DEF u
<1>7. Occurrences((p \o q) \o r, a) = Occurrences(p \o q, a) + Occurrences(r, a)
  BY <1>4, <1>5, OccurrencesAdd
<1>8. Occurrences(p \o q, a) = Occurrences(p, a) + Occurrences(q, a)
  BY <1>2, <1>3, OccurrencesAdd
<1>10. Occurrences(s, a) = Occurrences(p, a) + Occurrences(q, a) + Occurrences(r, a)
  BY <1>6, <1>7, <1>8
<1> QED
  BY <1>2, <1>3, <1>4, <1>6, <1>10 DEF p, q, r

\* The parts of a command line that was taken apart hold an argument as often.
PartsHold(parsed, a, n) ==
    LET parts == parsed.startup \o <<Word(parsed.command)>> \o parsed.arguments
                     \o parsed.target \o parsed.program
    IN  Occurrences(parts, a) = n

\* Counted part by part.
LEMMA PartsCount ==
    ASSUME NEW startup \in Seq(Arguments), NEW arguments \in Seq(Arguments),
           NEW target \in Seq(Arguments), NEW program \in Seq(Arguments),
           NEW command, Word(command) \in Arguments, NEW a
    PROVE  PartsHold(Parsed(startup, command, arguments, target, program), a,
                     Occurrences(startup, a) + Occurrences(<<Word(command)>>, a)
                       + Occurrences(arguments, a) + Occurrences(target, a)
                       + Occurrences(program, a))
<1>0. PICK x \in Arguments : x = Word(command)
  OBVIOUS
<1>10. <<x>> \in Seq(Arguments)
  OBVIOUS
<1>1. PICK w \in Seq(Arguments) : w = <<Word(command)>>
  BY <1>0, <1>10
<1> DEFINE p1 == startup \o w
           p2 == p1 \o arguments
           p3 == p2 \o target
           p4 == p3 \o program
<1>2. p1 \in Seq(Arguments) /\ Occurrences(p1, a) = Occurrences(startup, a) + Occurrences(w, a)
  BY OccurrencesAdd
<1> HIDE DEF p1
<1>3. p2 \in Seq(Arguments) /\ Occurrences(p2, a) = Occurrences(p1, a) + Occurrences(arguments, a)
  BY <1>2, OccurrencesAdd
<1> HIDE DEF p2
<1>4. p3 \in Seq(Arguments) /\ Occurrences(p3, a) = Occurrences(p2, a) + Occurrences(target, a)
  BY <1>3, OccurrencesAdd
<1> HIDE DEF p3
<1>5. Occurrences(p4, a) = Occurrences(p3, a) + Occurrences(program, a)
  BY <1>4, OccurrencesAdd
<1> HIDE DEF p4
<1>6. Occurrences(p4, a) = Occurrences(startup, a) + Occurrences(w, a) + Occurrences(arguments, a)
                             + Occurrences(target, a) + Occurrences(program, a)
  BY <1>2, <1>3, <1>4, <1>5
<1> DEFINE parsed == Parsed(startup, command, arguments, target, program)
<1>7. /\ parsed.startup = startup /\ parsed.command = command /\ parsed.arguments = arguments
      /\ parsed.target = target /\ parsed.program = program
  BY DEF Parsed
<1> HIDE DEF parsed
<1>8. parsed.startup \o <<Word(parsed.command)>> \o parsed.arguments
        \o parsed.target \o parsed.program = p4
  BY <1>1, <1>7 DEF p1, p2, p3, p4
<1>9. PartsHold(parsed, a, Occurrences(p4, a))
  BY <1>8 DEF PartsHold
<1> QED
  BY <1>1, <1>6, <1>9 DEF parsed

\* Cut at the first of some arguments, if there is one.
LEMMA CutAtFirst ==
    ASSUME NEW s \in Seq(Arguments), NEW wanted, NEW a, a \notin wanted
    PROVE  LET k == First(s, wanted)
           IN  /\ SubSeq(s, 1, k - 1) \in Seq(Arguments) /\ From(s, k + 1) \in Seq(Arguments)
               /\ Occurrences(s, a) = Occurrences(SubSeq(s, 1, k - 1), a)
                                        + Occurrences(From(s, k + 1), a)
<1> DEFINE k == First(s, wanted)
<1>1. k \in 1 .. Len(s) + 1 /\ (k \in DOMAIN s => s[k] \in wanted)
  BY FirstIn
<1> SUFFICES /\ SubSeq(s, 1, k - 1) \in Seq(Arguments) /\ From(s, k + 1) \in Seq(Arguments)
             /\ Occurrences(s, a) = Occurrences(SubSeq(s, 1, k - 1), a)
                                      + Occurrences(From(s, k + 1), a)
  OBVIOUS
<1> HIDE DEF k
<1>2. Len(s) \in Nat /\ DOMAIN s = 1 .. Len(s)
  OBVIOUS
<1>3. CASE k \in 1 .. Len(s)
  <2>1. /\ SubSeq(s, 1, k - 1) \in Seq(Arguments) /\ From(s, k + 1) \in Seq(Arguments)
        /\ Occurrences(s, a) = Occurrences(SubSeq(s, 1, k - 1), a) + Occurrences(<<s[k]>>, a)
                                 + Occurrences(From(s, k + 1), a)
    BY <1>3, ListIsCut
  <2>2. s[k] # a
    BY <1>1, <1>2, <1>3
  <2>3. Occurrences(<<s[k]>>, a) = 0
    BY <2>2, NoneInOther
  <2>4. /\ Occurrences(SubSeq(s, 1, k - 1), a) \in Nat
        /\ Occurrences(From(s, k + 1), a) \in Nat
    BY <2>1, OccurrencesAre
  <2> QED
    BY <2>1, <2>3, <2>4
<1>4. CASE k = Len(s) + 1
  <2>1. SubSeq(s, 1, k - 1) = s
    <3>1. k - 1 = Len(s)
      BY <1>2, <1>4
    <3>2. SubSeq(s, 1, Len(s)) = s
      OBVIOUS
    <3> QED
      BY <3>1, <3>2
  <2>2. From(s, k + 1) = <<>>
    BY <1>2, <1>4 DEF From
  <2>3. Occurrences(<<>>, a) = 0 /\ Occurrences(s, a) \in Nat /\ <<>> \in Seq(Arguments)
    BY NoneInNothing, OccurrencesAre, EmptyIsSeq
  <2>4. Occurrences(s, a) = Occurrences(s, a) + Occurrences(<<>>, a)
    BY <2>3
  <2> QED
    BY <2>1, <2>2, <2>3, <2>4, Zenon
<1> QED
  BY <1>1, <1>2, <1>3, <1>4

\* The target is cut out of the arguments of run.
LEMMA CutOfTarget ==
    ASSUME NEW s \in Seq(Arguments), NEW wanted, NEW a
    PROVE  LET k == First(s, wanted)
               rest == SubSeq(s, 1, k - 1) \o From(s, k + 1)
               target == SubSeq(s, k, Min({k, Len(s)}))
           IN  /\ rest \in Seq(Arguments) /\ target \in Seq(Arguments)
               /\ Occurrences(s, a) = Occurrences(rest, a) + Occurrences(target, a)
<1> DEFINE k == First(s, wanted)
           rest == SubSeq(s, 1, k - 1) \o From(s, k + 1)
           least == Min({k, Len(s)})
           target == SubSeq(s, k, least)
<1>1. k \in 1 .. Len(s) + 1
  BY FirstIn
<1> SUFFICES /\ rest \in Seq(Arguments) /\ target \in Seq(Arguments)
             /\ Occurrences(s, a) = Occurrences(rest, a) + Occurrences(target, a)
  OBVIOUS
<1> HIDE DEF k
<1>2. Len(s) \in Nat /\ k \in Nat
  BY <1>1
<1>3. least \in {k, Len(s)} /\ least <= k /\ least <= Len(s)
  <2>1. {k, Len(s)} \subseteq Nat /\ {k, Len(s)} # {}
    BY <1>2
  <2> QED
    BY <2>1, LeastIs
<1> HIDE DEF least
<1>4. CASE k \in 1 .. Len(s)
  <2>1. least = k
    BY <1>2, <1>3, <1>4
  <2>2. target = <<s[k]>>
    <3> DEFINE q == SubSeq(s, k, k)
    <3>1. q \in Seq(Arguments) /\ Len(q) = 1 /\ q[1] = s[k]
      BY <1>2, <1>4
    <3> HIDE DEF q
    <3>2. q = <<s[k]>>
      BY <3>1
    <3> QED
      BY <2>1, <3>2 DEF q
  <2>3. /\ SubSeq(s, 1, k - 1) \in Seq(Arguments) /\ From(s, k + 1) \in Seq(Arguments)
        /\ <<s[k]>> \in Seq(Arguments)
        /\ Occurrences(s, a) = Occurrences(SubSeq(s, 1, k - 1), a) + Occurrences(<<s[k]>>, a)
                                 + Occurrences(From(s, k + 1), a)
    BY <1>4, ListIsCut
  <2>4. /\ rest \in Seq(Arguments)
        /\ Occurrences(rest, a) = Occurrences(SubSeq(s, 1, k - 1), a)
                                    + Occurrences(From(s, k + 1), a)
    <3>1. PICK u \in Seq(Arguments), v \in Seq(Arguments) : u = SubSeq(s, 1, k - 1) /\ v = From(s, k + 1)
      BY <2>3
    <3>2. u \o v \in Seq(Arguments) /\ Occurrences(u \o v, a) = Occurrences(u, a) + Occurrences(v, a)
      BY OccurrencesAdd
    <3> QED
      BY <3>1, <3>2
  <2>5. /\ Occurrences(SubSeq(s, 1, k - 1), a) \in Nat
        /\ Occurrences(From(s, k + 1), a) \in Nat /\ Occurrences(<<s[k]>>, a) \in Nat
    BY <2>3, OccurrencesAre
  <2> HIDE DEF rest, target
  <2> QED
    BY <2>2, <2>3, <2>4, <2>5
<1>5. CASE k = Len(s) + 1
  <2>1. SubSeq(s, 1, k - 1) = s
    <3>1. k - 1 = Len(s)
      BY <1>2, <1>5
    <3>2. SubSeq(s, 1, Len(s)) = s
      OBVIOUS
    <3> QED
      BY <3>1, <3>2
  <2>2. From(s, k + 1) = <<>>
    BY <1>2, <1>5 DEF From
  <2>3. target = <<>>
    BY <1>2, <1>3, <1>5
  <2>6. s \o <<>> = s
    OBVIOUS
  <2>4. rest = s
    BY <2>1, <2>2, <2>6
  <2>5. Occurrences(<<>>, a) = 0 /\ Occurrences(s, a) \in Nat /\ <<>> \in Seq(Arguments)
    BY NoneInNothing, OccurrencesAre, EmptyIsSeq
  <2> HIDE DEF rest, target
  <2> QED
    BY <2>3, <2>4, <2>5
<1> QED
  BY <1>1, <1>2, <1>4, <1>5

\* What run leaves of its arguments: all but the delimiter.
LEMMA RunKeeps ==
    ASSUME NEW startup \in Seq(Arguments), NEW arguments \in Seq(Arguments), NEW a, a # Delimiter,
           Word("run") \in Arguments
    PROVE  PartsHold(ParseRun(startup, arguments), a,
                     Occurrences(startup, a) + Occurrences(<<Word("run")>>, a)
                       + Occurrences(arguments, a))
<1> DEFINE delimiter == First(arguments, {Delimiter})
           own == SubSeq(arguments, 1, delimiter - 1)
           target == First(own, Words(own))
           rest == SubSeq(own, 1, target - 1) \o From(own, target + 1)
           goal == SubSeq(own, target, Min({target, Len(own)}))
           program == From(arguments, delimiter + 1)
<1>1. ParseRun(startup, arguments) = Parsed(startup, "run", rest, goal, program)
  BY DEF ParseRun
<1>2. /\ own \in Seq(Arguments) /\ program \in Seq(Arguments)
      /\ Occurrences(arguments, a) = Occurrences(own, a) + Occurrences(program, a)
  <2>0. PICK d : d = Delimiter /\ a # d
    OBVIOUS
  <2>1. a \notin {d} /\ {d} = {Delimiter}
    BY <2>0
  <2> QED
    BY <2>1, CutAtFirst
<1> HIDE DEF own, program
<1>3. /\ rest \in Seq(Arguments) /\ goal \in Seq(Arguments)
      /\ Occurrences(own, a) = Occurrences(rest, a) + Occurrences(goal, a)
  <2>1. PICK s \in Seq(Arguments) : s = own
    BY <1>2
  <2>3. PICK wanted : wanted = Words(own)
    OBVIOUS
  <2>2. /\ SubSeq(s, 1, First(s, wanted) - 1) \o From(s, First(s, wanted) + 1) \in Seq(Arguments)
        /\ SubSeq(s, First(s, wanted), Min({First(s, wanted), Len(s)})) \in Seq(Arguments)
        /\ Occurrences(s, a)
             = Occurrences(SubSeq(s, 1, First(s, wanted) - 1) \o From(s, First(s, wanted) + 1), a)
                 + Occurrences(SubSeq(s, First(s, wanted), Min({First(s, wanted), Len(s)})), a)
    BY CutOfTarget
  <2> QED
    BY <2>1, <2>2, <2>3
<1> HIDE DEF rest, goal
<1>4. PICK run : run = "run"
  OBVIOUS
<1>5. PartsHold(Parsed(startup, run, rest, goal, program), a,
                Occurrences(startup, a) + Occurrences(<<Word(run)>>, a) + Occurrences(rest, a)
                  + Occurrences(goal, a) + Occurrences(program, a))
  BY <1>2, <1>3, <1>4, PartsCount
<1>6. PICK w \in Seq(Arguments) : w = <<Word("run")>>
  <2>1. PICK x \in Arguments : x = Word("run")
    OBVIOUS
  <2>2. <<x>> \in Seq(Arguments)
    OBVIOUS
  <2> QED
    BY <2>1, <2>2
<1>7. /\ Occurrences(startup, a) \in Nat /\ Occurrences(rest, a) \in Nat /\ Occurrences(w, a) \in Nat
      /\ Occurrences(goal, a) \in Nat /\ Occurrences(program, a) \in Nat
  BY <1>2, <1>3, OccurrencesAre
<1>8. Occurrences(startup, a) + Occurrences(w, a) + Occurrences(rest, a)
        + Occurrences(goal, a) + Occurrences(program, a)
      = Occurrences(startup, a) + Occurrences(w, a) + Occurrences(arguments, a)
  BY ONLY <1>2, <1>3, <1>7
<1> QED
  BY <1>1, <1>4, <1>5, <1>6, <1>8

\* A word is the word of its value.
LEMMA WordKeeps ==
    ASSUME NEW name
    PROVE  Word(Word(name).value) = Word(name)
  BY DEF Word

\* parse_bazel_arguments loses nothing but delimiters and the two help flags.
LEMMA ParsingKeeps ==
    ASSUME NEW arguments \in Seq(Arguments), NEW policy,
           ParseBazelArguments(arguments, policy).error = "ok",
           NEW a \in ToSet(arguments) \ {Delimiter, Bare("--help"), Bare("--version")}
    PROVE  PartsHold(ParseBazelArguments(arguments, policy), a, Occurrences(arguments, a))
<1> DEFINE wanted == {Word(name) : name \in policy.allowed \cup policy.denied}
           at == First(arguments, wanted)
           startup == SubSeq(arguments, 1, at - 1)
           rest == From(arguments, at + 1)
           failed(error) == [Parsed(<<>>, "help", <<>>, <<>>, <<>>) EXCEPT !.error = error]
           parsed == ParseBazelArguments(arguments, policy)
<1>1. PICK i \in DOMAIN arguments : arguments[i] = a
  BY DEF ToSet
<1>2. arguments \notin {<<>>, <<Bare("--help")>>, <<Bare("--version")>>}
  <2>1. arguments # <<>>
    BY <1>1
  <2>2. ASSUME NEW x, x # a PROVE arguments # <<x>>
    BY <1>1, <2>2
  <2> QED
    BY <2>1, <2>2
<1>3. at \in 1 .. Len(arguments) + 1 /\ (at \in DOMAIN arguments => arguments[at] \in wanted)
  BY FirstIn
<1>4. failed("no command").error # "ok" /\ failed("not UTF-8").error # "ok"
  BY DEF Parsed
<1>5. /\ ~(at > Len(arguments))
      /\ parsed = IF arguments[at].value = "run" THEN ParseRun(startup, rest)
                  ELSE Parsed(startup, arguments[at].value, rest, <<>>, <<>>)
  BY <1>2, <1>4 DEF ParseBazelArguments
<1> HIDE DEF at, wanted
<1>6. at \in 1 .. Len(arguments) /\ arguments[at] \in wanted /\ arguments[at] \in Arguments
  BY <1>3, <1>5
<1>7. Word(arguments[at].value) = arguments[at]
  BY <1>6, WordKeeps DEF wanted
<1>8. /\ startup \in Seq(Arguments) /\ rest \in Seq(Arguments)
      /\ Occurrences(arguments, a) = Occurrences(startup, a) + Occurrences(<<arguments[at]>>, a)
                                       + Occurrences(rest, a)
  BY <1>6, ListIsCut
<1> HIDE DEF startup, rest, parsed
<1>9. CASE arguments[at].value = "run"
  <2>1. Word("run") = arguments[at] /\ parsed = ParseRun(startup, rest) /\ a # Delimiter
    BY <1>5, <1>7, <1>9
  <2>2. PartsHold(ParseRun(startup, rest), a, Occurrences(startup, a)
                    + Occurrences(<<Word("run")>>, a) + Occurrences(rest, a))
    BY <1>6, <1>8, <2>1, RunKeeps
  <2> QED
    BY <1>8, <2>1, <2>2 DEF parsed
<1>10. CASE arguments[at].value # "run"
  <2>1. PICK command : command = arguments[at].value
    OBVIOUS
  <2>2. PICK none \in Seq(Arguments) : none = <<>> /\ Occurrences(none, a) = 0
    BY EmptyIsSeq, NoneInNothing
  <2>3. Word(command) = arguments[at] /\ Word(command) \in Arguments
    BY <1>6, <1>7, <2>1
  <2>4. PartsHold(Parsed(startup, command, rest, none, none), a,
                  Occurrences(startup, a) + Occurrences(<<Word(command)>>, a)
                    + Occurrences(rest, a) + Occurrences(none, a) + Occurrences(none, a))
    BY <1>8, <2>3, PartsCount
  <2>5. Occurrences(arguments, a) \in Nat
    BY OccurrencesAre
  <2>6. Occurrences(startup, a) + Occurrences(<<Word(command)>>, a)
          + Occurrences(rest, a) + Occurrences(none, a) + Occurrences(none, a)
        = Occurrences(arguments, a)
    BY <1>8, <2>2, <2>3, <2>5
  <2>7. parsed = Parsed(startup, command, rest, none, none)
    BY <1>5, <1>10, <2>1, <2>2
  <2> QED
    BY <2>4, <2>6, <2>7 DEF parsed
<1> QED
  BY <1>9, <1>10

\* A step that leaves the agent's call alone keeps its arguments.
LEMMA CallKeepsArguments ==
    ASSUME AgentKeepsArguments, scenario' = scenario,
           mode' = "agent" => mode = "agent" /\ Call(Min(Slots))' = Call(Min(Slots))
    PROVE  AgentKeepsArguments'
<1>1. AgentArguments' = AgentArguments
  BY DEF AgentArguments, AgentRaw, Launch, S
<1>2. CASE mode' = "agent"
  BY <1>1, <1>2 DEF AgentKeepsArguments
<1>3. CASE mode' # "agent"
  BY <1>3 DEF AgentKeepsArguments
<1> QED
  BY <1>2, <1>3

\* The agent's call has the arguments it was launched with.
LEMMA StartAgentKeepsArguments ==
    ASSUME RequestShape, LockInv, StartAgent
    PROVE  AgentKeepsArguments'
<1> DEFINE workspace == DiscoverWorkspace(fs, LaunchDirectory)
           parsed == ParseBazelArguments(AgentArguments, config.policy)
           new == [Idle EXCEPT !.phase = "dispatched", !.dispatch = "agent",
                               !.call = <<AgentCall(workspace, parsed)>>]
           m == Min(Slots)
<1>1. /\ scenario' = scenario
      /\ \/ mode' # "agent"
         \/ AgentError(workspace, parsed) = "ok" /\ ~AgentRaw /\ Become(m, new)
  BY DEF StartAgent
<1>2. CASE mode' # "agent"
  BY <1>2 DEF AgentKeepsArguments
<1>3. CASE AgentError(workspace, parsed) = "ok" /\ ~AgentRaw /\ Become(m, new)
  <2>1. S.launch.arguments \in Seq(Arguments)
    BY SurfaceAssumption DEF LockInv, WorldOk, S
  <2>2. AgentArguments \in Seq(Arguments) /\ AgentArguments' = AgentArguments
    BY <1>1, <2>1, AgentArgumentsAre DEF AgentArguments, AgentRaw, Launch, S
  <2>3. parsed.error = "ok"
    <3> HIDE DEF workspace, parsed
    <3> QED
      BY <1>3, AgentStartsSound
  <2>4. \A a \in ToSet(AgentArguments) \ {Delimiter, Bare("--help"), Bare("--version")} :
            PartsHold(parsed, a, Occurrences(AgentArguments, a))
    BY <2>2, <2>3, ParsingKeeps
  <2> HIDE DEF workspace, parsed
  <2>5. m \in Slots
    BY LeastIs, SurfaceAssumption
  <2>6. new.call = <<AgentCall(workspace, parsed)>>
    BY DEF Idle
  <2> HIDE DEF m, new
  <2>7. req'[m] = new
    BY <1>3, <2>5 DEF Become, RequestShape
  <2>8. Call(m)' = AgentCall(workspace, parsed)
    BY <2>6, <2>7 DEF Call, m
  <2> DEFINE call == Call(m)'
  <2>9. /\ call.startup = parsed.startup /\ call.command = parsed.command
        /\ call.arguments = parsed.arguments /\ call.target = parsed.target
        /\ call.program = parsed.program
    BY <2>8 DEF AgentCall
  <2>10. \A a \in ToSet(AgentArguments) \ {Delimiter, Bare("--help"), Bare("--version")} :
             Occurrences(call.startup \o <<Word(call.command)>> \o call.arguments
                           \o call.target \o call.program, a) = Occurrences(AgentArguments, a)
    BY <2>4, <2>9 DEF PartsHold
  <2> QED
    BY <2>2, <2>10 DEF AgentKeepsArguments, m
<1> QED
  BY <1>1, <1>2, <1>3

\* No step changes the call of an agent.
LEMMA NextKeepsArguments ==
    ASSUME RequestShape, LockInv, AgentKeepsArguments, [Next]_vars
    PROVE  AgentKeepsArguments'
<1>0. Min(Slots) \in Slots
  BY LeastIs, SurfaceAssumption
<1>1. CASE StartAgent
  BY <1>1, StartAgentKeepsArguments
<1>2. CASE StartServer \/ RunUnfiltered \/ \E version \in S.versions : Initialize(version)
  <2>1. scenario' = scenario /\ req' = req /\ (mode' = mode \/ mode' # "agent")
    BY <1>2 DEF StartServer, Serve, RunUnfiltered, Initialize
  <2> QED
    BY <2>1, CallKeepsArguments DEF Call
<1>3. ASSUME NEW r \in Slots, NEW call, Receive(r, call) PROVE AgentKeepsArguments'
  <2>1. scenario' = scenario /\ mode' # "agent"
    BY <1>3 DEF Receive
  <2> QED
    BY <2>1, CallKeepsArguments
<1>4. ASSUME NEW r \in Slots, LaterStep(r) \/ Prepare(r) PROVE AgentKeepsArguments'
  <2>1. scenario' = scenario /\ mode' = mode
    BY <1>4 DEF Prepare, LaterStep, Cancel, Accept, Spawn, Exit, Pack, Forget, TaskCall
  <2>2. \A s \in Slots \ {r} : req'[s] = req[s]
    BY <1>4, RequestStepIsLocal DEF LaterStep, RequestStep
  <2>3. req'[r].call = req[r].call
    <3>1. CASE LaterStep(r)
      BY <3>1, LaterStepEffect
    <3>2. CASE Prepare(r)
      <4>1. Only(r, {"phase", "error"}) \/ Only(r, {"phase", "workspace", "base", "key", "bazel"})
            \/ Only(r, {"phase", "workspace", "base", "key", "bazel", "cell"})
        BY <3>2, PrepareEffect
      <4> QED
        BY <4>1 DEF Only, Idle
    <3> QED
      BY <1>4, <3>1, <3>2
  <2>4. Call(Min(Slots))' = Call(Min(Slots))
    BY <1>0, <2>2, <2>3 DEF Call
  <2> QED
    BY <2>1, <2>4, CallKeepsArguments
<1>5. ASSUME NEW r \in Slots, Deliver(r) PROVE AgentKeepsArguments'
  <2>1. scenario' = scenario /\ mode' # "agent"
    BY <1>5 DEF Deliver
  <2> QED
    BY <2>1, CallKeepsArguments
<1>6. CASE \/ \E r \in Slots : CreateOutputBase(r) \/ StartProbe(r)
           \/ \E k \in DOMAIN cells, outcome \in S.probes : EndProbe(k, outcome)
           \/ UNCHANGED vars
  <2>1. UNCHANGED <<scenario, mode, req>>
    BY <1>6 DEF CreateOutputBase, StartProbe, EndProbe, vars
  <2> QED
    BY <2>1, CallKeepsArguments DEF Call
<1> QED
  BY <1>1, <1>2, <1>3, <1>4, <1>5, <1>6 DEF Next, LaterStep

(***************************************************************************)
(* The command of a request that runs was allowed by the policy, and is    *)
(* the one its child takes, if the caller's startup arguments are options; *)
(* that they are is not checked by the code (flags.rs:42-53).  The child   *)
(* runs in an allowed root, with the server's flags, boundary,             *)
(* environment, capture and timeout; a pipe is fed by the child's own      *)
(* Bazel server; an agent never runs itself and loses none of its          *)
(* arguments; and no execution ends for want of the event service          *)
(* (flags.rs, driver.rs, execution.rs, executable.rs, environment.rs,      *)
(* agent.rs).                                                              *)
(***************************************************************************)
THEOREM ChildrenRunWhatWasAdmitted == Spec => []ChildRunsWhatWasAdmitted
<1>1. Init => LockInv /\ ChildInv /\ AgentKeepsArguments
  <2>1. Init => mode = "down"
    BY DEF Init
  <2> QED
    BY <2>1, LockInit, ChildInit DEF AgentKeepsArguments
<1>2. SurfaceInv /\ LockInv /\ [Next]_vars => LockInv'
  BY NextKeepsLocks DEF SurfaceInv
<1>3. SurfaceInv /\ LockInv /\ ChildInv /\ [Next]_vars => ChildInv'
  BY NextKeepsChildren DEF SurfaceInv
<1>4. SurfaceInv /\ LockInv /\ AgentKeepsArguments /\ [Next]_vars => AgentKeepsArguments'
  BY NextKeepsArguments DEF SurfaceInv
<1>5. ChildInv /\ AgentKeepsArguments => ChildRunsWhatWasAdmitted
  BY ChildrenAreAdmitted
<1> QED
  BY <1>1, <1>2, <1>3, <1>4, <1>5, SurfaceInvariance, PTL DEF Spec
=============================================================================
