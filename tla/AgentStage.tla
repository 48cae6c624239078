----------------------------- MODULE AgentStage -----------------------------
(***************************************************************************)
(* Stage (agentconfig/stage.go) builds the tree that Install copies into a *)
(* sandbox: in a temporary directory, from the built-in files, a manifest  *)
(* and the caller's options, a group of files a step.  Every step may fail *)
(* (a path that is missing, a full disk) and the process may die.  A file  *)
(* is known by who it comes from.                                          *)
(***************************************************************************)
EXTENDS Naturals, Sequences

CONSTANT AsRoot     \* the process may write to files that are read-only

ASSUME StageAssumption == AsRoot \in BOOLEAN

\* "advisor" is the built-in skill's name, "own" any other; "extra" is a
\* payload item that no other step writes.
Skills  == {"advisor", "own"}
Payload == {"extra", "runtime", "cli", "prompt"}
Files   == Skills \cup Payload \cup {"agents"}
Origins == {"none", "builtin", "manifest", "option"}

\* An item of the manifest may be left out.
Tri == {"unset", "on", "off"}
Manifests ==
    [given : BOOLEAN, skills : SUBSET Skills, payload : SUBSET Payload,
     seeds : {"none", "good", "bad"}, agents : Tri, runtime : Tri, seed : Tri,
     harness : BOOLEAN, prompt : BOOLEAN, cli : BOOLEAN, mcp : BOOLEAN]
Options ==
    [builtin : BOOLEAN, skills : SUBSET Skills, agents : BOOLEAN,
     runtime : BOOLEAN, seed : BOOLEAN, harness : BOOLEAN, prompt : BOOLEAN,
     cli : BOOLEAN, mcp : BOOLEAN, man : Manifests]

VARIABLES
    opt,
    at,         \* "begin", a step, "staged" (returned), "failed", "died"
    dir,        \* the temporary directory: "none", "there", "gone"
    tree,       \* who each file in it comes from
    sealed,     \* files in it that are read-only
    staged      \* what the returned Staged points to

stageVars == <<opt, at, dir, tree, sealed, staged>>

StageInit(o) ==
    /\ opt = o /\ at = "begin" /\ dir = "none"
    /\ tree = [f \in Files |-> "none"] /\ sealed = {} /\ staged = {}

-----------------------------------------------------------------------------
(* What is asked for, once the manifest is merged into the options.        *)

Given(item) == opt.man.given /\ opt.man[item]
Switch(item) ==
    IF opt.man.given /\ opt.man[item] # "unset" THEN opt.man[item] = "on" ELSE opt[item]

\* The manifest's prompt and cli-config go before the options', the
\* options' MCP files before the manifest's.
PromptFrom ==
    IF Given("prompt") THEN "manifest" ELSE IF opt.prompt THEN "option" ELSE "none"
CliFrom ==
    IF Given("cli") THEN "manifest" ELSE IF opt.cli THEN "option"
    ELSE IF Switch("seed") THEN "builtin" ELSE "none"
McpFrom ==
    IF opt.mcp THEN "option" ELSE IF Given("mcp") THEN "manifest" ELSE "none"

\* A manifest that does not say brings the runtime along with any harness or
\* prompt.
WantRuntime ==
    \/ Switch("runtime")
    \/ /\ opt.man.given /\ opt.man.runtime = "unset"
       /\ Given("harness") \/ opt.harness \/ PromptFrom # "none"

-----------------------------------------------------------------------------
(* The steps: what each writes and from where.                             *)

\* Slip: the manifest's payload is copied over the built-in files.
StageSteps_PayloadLast ==
    <<"builtin", "skills", "seeds", "options", "runtime", "cli", "prompt",
      "payload", "agents">>

StageSteps ==
    <<"builtin", "skills", "payload", "seeds", "options", "runtime", "cli",
      "prompt", "agents">>

After(s) ==
    LET i == CHOOSE k \in DOMAIN StageSteps : StageSteps[k] = s
    IN  IF i = Len(StageSteps) THEN "return" ELSE StageSteps[i + 1]

From == [builtin |-> "builtin", skills |-> "manifest", payload |-> "manifest",
         seeds |-> "manifest", options |-> "option", runtime |-> "builtin",
         cli |-> CliFrom, agents |-> "builtin",
         prompt |-> IF PromptFrom = "none" THEN "builtin" ELSE PromptFrom]

When(b, S) == IF b THEN S ELSE {}

Writes ==
    [builtin |-> When(opt.builtin, {"advisor"}),
     skills  |-> When(opt.man.given, opt.man.skills),
     payload |-> When(opt.man.given, opt.man.payload),
     seeds   |-> {},
     options |-> opt.skills,
     runtime |-> When(WantRuntime, {"runtime"}),
     cli     |-> When(CliFrom # "none", {"cli"}),
     prompt  |-> When(PromptFrom # "none" \/ WantRuntime, {"prompt"}),
     agents  |-> When(Switch("agents"), {"agents"})]

\* New files that a step makes read-only: its own choice, or the mode of
\* what it copies.
Seals(s) ==
    IF s \in {"builtin", "prompt", "agents"} THEN {Writes[s]}
    ELSE IF s \in {"skills", "payload", "options"} THEN {Writes[s], {}} ELSE {{}}

StageBegin ==
    /\ at = "begin"
    /\ at' = "builtin" /\ dir' = "there"
    /\ UNCHANGED <<opt, tree, sealed, staged>>

\* A file that is there already keeps its mode and can be rewritten only if
\* that allows it: the same skill from two sources may end the staging.
StageStep ==
    /\ at \in DOMAIN Writes
    /\ AsRoot \/ Writes[at] \cap sealed = {}
    /\ ~(at = "seeds" /\ opt.man.given /\ opt.man.seeds = "bad")
    /\ tree' = [f \in Files |-> IF f \in Writes[at] THEN From[at] ELSE tree[f]]
    /\ \E S \in Seals(at) :
        sealed' = sealed \cup {f \in S : tree[f] = "none"}
    /\ at' = After(at)
    /\ UNCHANGED <<opt, dir, staged>>

\* Any error.  The deferred clean-up removes the whole tree, but its own
\* error is dropped: some of what was written may stay behind.
StageFails ==
    /\ at \in {"begin"} \cup DOMAIN Writes
    /\ at' = "failed"
    /\ \E left \in SUBSET {f \in Files : tree[f] # "none"} :
        /\ tree' = [f \in Files |-> IF f \in left THEN tree[f] ELSE "none"]
        /\ sealed' = sealed \cap left
        /\ dir' \in IF at = "begin" THEN {"none"}
                   ELSE {"there"} \cup When(left = {}, {"gone"})
    /\ UNCHANGED <<opt, staged>>

HasPayload == \E f \in Payload : tree[f] # "none"

StageReturns ==
    /\ at = "return"
    /\ at' = "staged"
    /\ staged' = {"etc"} \cup When(HasPayload, {"payload"})
                  \cup When(CliFrom # "none", {"cli"})
                  \cup When(McpFrom # "none", {"mcp"})
                  \cup When(opt.man.given /\ opt.man.seeds = "good", {"seeds"})
                  \cup When(Switch("agents"), {"agents"})
    /\ UNCHANGED <<opt, dir, tree, sealed>>

\* The process dies; nobody removes the tree.
StageDies ==
    /\ at \in DOMAIN Writes
    /\ at' = "died"
    /\ UNCHANGED <<opt, dir, tree, sealed, staged>>

StageNext == StageBegin \/ StageStep \/ StageFails \/ StageReturns \/ StageDies

StageSpec == (\E o \in Options : StageInit(o)) /\ [][StageNext]_stageVars

-----------------------------------------------------------------------------
\* The variables have the types the code gives them.
StageTypeOK ==
    /\ opt \in Options
    /\ at \in {"begin", "return", "staged", "failed", "died"} \cup DOMAIN Writes
    /\ dir \in {"none", "there", "gone"}
    /\ tree \in [Files -> Origins] /\ sealed \subseteq Files
    /\ staged \subseteq {"etc", "payload", "cli", "mcp", "seeds", "agents"}

\* The first source, in order of precedence, that is in use.
FirstOf(sources) ==
    LET used == {i \in DOMAIN sources : sources[i][1]}
    IN  IF used = {} THEN "none"
        ELSE sources[CHOOSE i \in used : \A j \in used : i <= j][2]

InPayload(f) == opt.man.given /\ f \in opt.man.payload

\* Who a file should come from: for skills the options before the manifest
\* before the built-in one, for the files of the payload whatever is named
\* for the purpose before what the manifest's payload happens to bring.
Expected(f) ==
    CASE f \in Skills -> FirstOf(<< <<f \in opt.skills, "option">>,
            <<opt.man.given /\ f \in opt.man.skills, "manifest">>,
            <<f = "advisor" /\ opt.builtin, "builtin">> >>)
      [] f = "extra" -> FirstOf(<< <<InPayload(f), "manifest">> >>)
      [] f = "runtime" -> FirstOf(<< <<WantRuntime, "builtin">>, <<InPayload(f), "manifest">> >>)
      [] f = "cli" -> FirstOf(<< <<CliFrom # "none", CliFrom>>, <<InPayload(f), "manifest">> >>)
      [] f = "prompt" -> FirstOf(<< <<PromptFrom # "none", PromptFrom>>,
            <<WantRuntime, "builtin">>, <<InPayload(f), "manifest">> >>)
      [] f = "agents" -> FirstOf(<< <<Switch("agents"), "builtin">> >>)

\* What Stage returns is the tree of the precedence above, whole, with a
\* pointer to AGENTS.md and to the payload exactly if they are there, to a
\* CLI config only if it is the one asked for, and a prompt wherever there is
\* a runtime, without which the supervisor would not start.
StagedAsAsked ==
    at = "staged" =>
        /\ dir = "there" /\ \A f \in Files : tree[f] = Expected(f)
        /\ "agents" \in staged <=> tree["agents"] # "none"
        /\ "payload" \in staged <=> HasPayload
        /\ "cli" \in staged => tree["cli"] = CliFrom
        /\ WantRuntime => tree["prompt"] # "none"
=============================================================================
