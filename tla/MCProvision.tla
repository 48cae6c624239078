---------------------------- MODULE MCProvision ----------------------------
(***************************************************************************)
(* TLC instance of Provision.  Options, the init's configuration and the   *)
(* number of callers vary one at a time.                                   *)
(***************************************************************************)
EXTENDS Provision

CONSTANTS c1, c2, n1

NoManifest ==
    [given |-> FALSE, skills |-> {}, payload |-> {}, seeds |-> "none",
     agents |-> "unset", runtime |-> "unset", seed |-> "unset",
     harness |-> FALSE, prompt |-> FALSE, cli |-> FALSE, mcp |-> FALSE]
Manifest == [NoManifest EXCEPT !.given = TRUE]

\* DefaultOptions, and what options and manifests may add to it.
Default ==
    [builtin |-> TRUE, skills |-> {}, agents |-> TRUE, runtime |-> TRUE,
     seed |-> TRUE, harness |-> TRUE, prompt |-> FALSE, cli |-> FALSE,
     mcp |-> FALSE, man |-> NoManifest]

SkillCases ==
    {[Default EXCEPT !.builtin = b, !.skills = s, !.man = [Manifest EXCEPT !.skills = t]] :
        b \in BOOLEAN, s \in SUBSET Skills, t \in SUBSET Skills}
PayloadCases ==
    {[Default EXCEPT !.runtime = r, !.seed = s, !.prompt = p, !.harness = h,
        !.man = [Manifest EXCEPT !.payload = l, !.runtime = t, !.prompt = q]] :
        r \in BOOLEAN, s \in BOOLEAN, p \in BOOLEAN, h \in BOOLEAN,
        l \in SUBSET Payload, t \in Tri, q \in BOOLEAN}
RestCases ==
    {[Default EXCEPT !.mcp = o, !.cli = c, !.agents = a,
        !.man = [Manifest EXCEPT !.mcp = m, !.cli = d, !.agents = t, !.seeds = s]] :
        o \in BOOLEAN, c \in BOOLEAN, a \in BOOLEAN, m \in BOOLEAN, d \in BOOLEAN,
        t \in Tri, s \in {"none", "good", "bad"}}

\* What makes a difference to Install.
InstallCases ==
    {[Default EXCEPT !.mcp = c, !.seed = c, !.runtime = ~c, !.harness = FALSE,
        !.agents = c, !.man = [Manifest EXCEPT !.seeds = "good"]] : c \in BOOLEAN}

Plain ==
    [flag |-> "", policy |-> "required", asks |-> TRUE, noDrop |-> FALSE,
     root |-> TRUE, uidEnv |-> Unset, gidEnv |-> Unset, kernel |-> "v5"]
ModeCases ==
    {[Plain EXCEPT !.flag = f, !.policy = p, !.kernel = k, !.asks = a, !.noDrop = n] :
        f \in {"", "best_effort", "required", "other"},
        p \in {"none", "invalid", "best_effort", "required"},
        k \in {"none", "old", "v5"}, a \in BOOLEAN, n \in BOOLEAN}
IdCases ==
    {[Plain EXCEPT !.policy = p, !.root = r, !.uidEnv = u, !.gidEnv = g] :
        p \in {"best_effort", "required"}, r \in BOOLEAN,
        u \in {Unset, Garbled, -2, -1, 0, 5, IdSpan, IdSpan + 1},
        g \in {Unset, Garbled, -2, -1, 0, 7, IdSpan, IdSpan + 1}}

Situation(os, cs, who, b, own) ==
    [opt : os, conf : cs, callers : {who}, installs : {b}, own : own]

MCSituations ==
    \* staging alone; booting alone; two callers of the manager; installing
    Situation(SkillCases \cup PayloadCases \cup RestCases, {Plain}, {}, FALSE, {{}})
    \cup Situation({Default}, ModeCases \cup IdCases, {c1}, FALSE, {{}})
    \cup Situation({Default}, {Plain}, {c1, c2}, FALSE, {{}})
    \cup Situation({Default}, {Plain}, {c1}, TRUE, SUBSET (Places \cup {"cli"}))
    \cup Situation(InstallCases, {Plain}, {c1}, TRUE, {{}})
=============================================================================
