# A verification development of osg-runtime

TLA+ models of the runtime components of whaleshell (`whaleshell-sshd`,
`whaleshell-agent`, `whaleshell-init`, the relay client, the identity and the
secrets packages, agent configuration and the sandbox manager), the TLC instances that check them, and TLAPS proofs of their
main safety properties. Every definition is translated from the source (Go, and two shell scripts);
`PROJECT.json` ties each one to the lines it stands for.

## 1. Inventory

The repository is a library and three small programs that run in or beside a
sandbox. There is no process of its own that ties them together: the gateway,
the sandbox driver, the egress proxy, `relayproto` and the policy package live in
other repositories and are environment here.

| Component | State it keeps | Operations | Talks to |
|---|---|---|---|
| SSH session (`sshserver/server.go`, `process_linux.go`) | per channel: `pty`, `proc`; per process: `copies`, `exited`, the child | `handle` (pty-req, shell, exec, signal, window-change, env ...), `start`, `wait`, `signal`, `hangup` | the peer over an SSH channel; the kernel (process group, pipes, terminal) |
| direct-tcpip (`handleDirectTCPIP`) | one target connection, one channel, two copies | check, dial, accept, copy, half-close, close | SSH client, a loopback service |
| SSH connection (`ServeConn`, `handleGlobal`, `Serve`) | the connection, its deadline | handshake with a deadline, dispatch of channels | x/crypto/ssh |
| sshd start/stop (`internal/app/sshd/run.go`, `ListenUnix`) | the socket path, its directory's mode, the listener | probe, mkdir, chmod, lstat, remove, bind, chmod, close at a signal | other sshd processes through the path |
| Relay client (`relayclient`) | backoff, one control stream, openers | `Run`, `session`, `openChannel` | gateway; the sshd socket |
| Secret store (`secrets/local.go`, `kek.go`) | plaintext map, AEAD, `secrets.kek`, `secrets.enc.json` and `.tmp` | `OpenLocal`, `Get`, `Put`, `Delete`, `DeletePrefix`, `PutProviderCredentials` | file system, environment |
| OIDC validation (`idp/oidc.go`, `jwt_verify.go`) | `keys`, `fetched`, `jwksURI`, a mutex | `Validate`, `ensureKeys`, `Discover` | issuer |
| PKCE login (`idp/pkce.go`) | a listener, an HTTP server, a result channel | `BrowserPKCE`, `exchangeCode`, `RefreshTokens` | browser, issuer |
| Job agent (`internal/app/agent/run.go`) | the job in hand, `cappedBuffer` | poll, run, post | gateway |
| Supervisor scripts (`agentconfig/runtime`) | cycle number, the shell's errexit | one harness cycle after another | harness |
| Agent configuration (`agentconfig/stage.go`, `install.go`) | the staged tree; the guest's files | stage; copy and run commands in a guest | file system, sandbox driver, the guest's own programs |
| Hardening and init (`internal/harden`, `internal/app/wsinit`) | the process's rule set, ids, no_new_privs | Landlock, drop, exec | kernel |
| Sandbox manager (`sandbox`) | in the driver and the proxy: sandboxes, policy | create, remove; list, exec | driver, proxy |
| Identity adapter, read-only stores, refresh, inference, audit, logging, config | none | lookups, formatting, output | - |

What is hard in it, and what makes it correct:

- **SSH session.** Three goroutine families per channel (the request loop, up
  to two output copies, the waiter) meet a peer that may close at any instant
  and a child that may leave descendants. Correct means: the exit status is the
  last word; one child; no child outlives its channel unsignalled; everything ends.
- **direct-tcpip.** Half-closes in either direction. Correct means: nothing
  a peer sent is cut, nothing is left open, and one end's end ends the other.
- **sshd start/stop.** Several system calls on one shared path, with crashes
  between them. Correct means: the socket is never exposed, a crash never blocks
  the next start, a running server keeps its path.
- **Relay client.** A stream that can die silently, a token that can be
  rejected, cancellation at any point. Correct means: reconnect, back off, stop,
  and release every connection.
- **Secret store.** Crashes and failures between system calls, a key
  that comes from a file or from the environment. Correct means: secrets are never
  locked away, except in the one way that section 5 describes, and the file is always one of the maps that callers asked for.
- **OIDC.** Concurrent calls race over a cache while keys rotate. Correct
  means: withdrawn keys stop being accepted, published ones are found.
- **PKCE.** Tabs of several attempts, timeouts and reloads against one
  port and a channel of capacity one. Correct means: codes never cross, the login
  ends, tabs are answered.
- **SSH connection.** Clients that never speak or vanish, and a process that
  may end under its connections. Correct means: no connection stays half way, none
  outlives its process.
- **Sandbox manager, agent configuration, init.** Sequences of calls into
  other systems, each of which may fail, with other callers and the guest's programs in
  between. Correct means: no sandbox is lost or deleted by mistake, the tree is the one
  asked for, an install that reports success is complete, and a command runs
  hardened as its mode demands.
- **Supervisor.** A shell option that is in force where nobody expects it.
  Correct means: watch mode goes on until the harness is done.
- **Agent.** A buffer at its limit and a gateway that loses requests. Correct
  means: a job's result is its own, and the loop never stops.

`PROJECT.json` lists the individual hazards, each at its line, with the
properties that cover it or the reason why none does.

## 2. Modules

Each component is one module with its constants (and their named assumptions),
variables, `Init`, one action per operation or per goroutine step, `Next`, `Spec`,
`FairSpec` where liveness is claimed, and its properties with a comment each. A
definition named `X_Slip` directly before `X` is a plausible programming error in
the lines that `X` models; it is not part of any specification. It documents,
for one property, what the property protects against, and substituting it makes
TLC find a violation. `MCX` modules give constants their values.

### SessionPromise, SshSession (`MCSshSession`, `SshSession_proofs`)
`SessionPromise` is what the client of a session channel may rely on: one command; its
output, each unit at most once; one report of its exit, sent when all of that has arrived and
nobody can write any more, or lost with the channel; then a close. `Promise` is the refinement
mapping: the command's phase is read off the child and the holders of its streams.

`hd` is the program counter of `handleSession` (with `handle` and `start`
inlined), `cop[s]` of the copy of stream `s` in `startProcess`, `wt` of the
waiter that `start` spawns. A test of `exited` and the `kill` that follows are two
steps, because `wait` runs in between. `process.wait` is three steps: all
`copies` received, `cmd.Wait`, `exited.Store`. Output is counted per stream: what
was `sent` into the pipe, `taken` by the copier, `got` by the peer; a copy blocks
on a full SSH window while the channel is open and fails when it is not. The
child's family (`leader`, `helper`) writes, forks, leaves the process group,
exits, and dies of SIGHUP unless its `habits` say otherwise. With pipes and with a terminal
alike a stream ends only when its last holder has ended (`WriteEndOpen`): when the leader of a
terminal's session ends the kernel may send SIGHUP to the group, but a descendant that ignores
it or has left keeps the terminal open and goes on writing. It can write until `cmd.Wait` closes the
reading ends of pipes, or `wait` the terminal's master (`ReadEndOpen`). A process group
id can be recycled when the leader is reaped and the group empty. Requests that
touch no process are one kind, "other".

### DurableMap, LocalStore, ProviderStore (`MCLocalStore`, `LocalStore_proofs`)
`DurableMap` is what callers may rely on: a map in memory and a durable one that
changes as a whole or not at all. `LocalStore` has a step per system call that
matters: the KEK file is truncated, then filled; the temporary file is truncated, filled,
renamed; any of them may fail if `Faults` says so, and the process may
die between any two. The KEK is the environment's (`UsePinned`), that of a complete file (`ReadKek`),
or a new one, for a file that is missing or short (`GenerateKek`) and for a complete one whose
read failed (`ReplaceUnreadKek`; `replaced` remembers it). A file's content is a KEK and the map encrypted under it
(ideal encryption; `DeriveKEK` hashes the environment value, so the pinned KEK is
never a file's). A store without entries opens under any KEK, as `loadLocked`
decrypts entry by entry. `Durable` is the refinement mapping: `mem` is the cache,
`disk` the renamed file. `ProviderStore` extends it by one call of
`PutProviderCredentials`, which is a loop of `Put`s without the lock between them:
`todo` is what the loop has left (a Go map, so any order), other goroutines may change the
store between two puts (`touched` remembers what they changed), and the call ends at the
first error.

### RelayClient (`RelayClient_proofs`)
`run` is the program counter of `Run` and `session`, `link` what the control
stream has become (up, silently dead, closed), `op[i]` the state of the i-th
`openChannel` goroutine. `aged` is the clock that decides about the backoff:
more than two keepalive timeouts have passed since the dial. `Cancel` includes the
`context.AfterFunc` that closes the stream of a running session; `DialSucceeds`
includes the immediate run of it when the context ended during the dial.

### OidcValidator (`MCOidcValidator`, `OidcValidator_proofs`)
`ensureKeys` keeps `mu` across discovery and the JWKS request, so these are several
steps with `mu` held; the lookup and the reset of `fetched` are each one
critical section. What follows the lookup (signature, issuer, audience, expiry)
touches nothing shared and is part of the lookup's step: `VerifyRS256` is ideal, the
claims are a free choice between accepted and refused. `published` is a
history variable: the token's kid was published all through the call.

### PkceLogin (`MCPkceLogin`, `PkceLogin_proofs`)
Attempts share the registered port; whoever listens gets the callbacks, whichever
attempt's tab sent them. A handler's send to the channel of capacity one and the
select's receive are separate steps; `GiveUp` is the context or the timer;
`Close` is the deferred `Shutdown` (bounded by two seconds, so blocked handlers
are left behind) and `ln.Close`.

### JobPromise, AgentLoop (`MCAgentLoop`, `AgentLoop_proofs`)
`JobPromise` is what the gateway may rely on: a job is handed out, runs alone, ends, and is
reported, each at most once; it or its report may be lost. `Fate` maps the agent's program
counter and the job in hand to it.

`Written` is `cappedBuffer.Write` on a buffer that is counted, `Output` one call
of it, `Begin` the start of `runJob`, `Finish` the end of `cmd.Run`, `CannotRun`
an empty argv or a start that fails, `Post` the single attempt of `postResult`.
`ran` is a history of what each command wrote and how it exited.

### DirectForward (`Sshd_proofs`)
One channel from the payload checks to `wg.Wait` and the two closes. A direction
is a source, a copy and a destination; `told` is the `CloseWrite` after a copy.
The peers send, half-close, leave, or (the target) reset.

### SshdSocket
Processes that run `sshd.Run` on one path, one system call a step: the probe by
`DialTimeout`, `MkdirAll`+`Chmod`, `Lstat`, `Remove`, `Listen`, `Chmod`, then serving
until SIGTERM, or until `Accept` fails, which ends `Serve` and with it the process. The
path leads to nothing, to a file that is no socket, or to the socket some process
bound. Closing a Unix listener unlinks its path, whatever it leads to by then, as Go's
`UnixListener` does. `clashed` is a history variable: the processes whose latest run clashed with
another's. Two runs clash when both are starting at a time, or when one's probe of the other,
alive and listening, fails all the same; a run begun while a clashed one is alive is counted with it,
and a run begun after they have ended is not.

### Sshd (`MCSshd`, `Sshd_proofs`)
The composition: `SshdSocket` and `DirectForward` with one client connection between
them. `Connect` reaches whatever process the path leads to; `AcceptConn` is the loop of
`Serve`, `HandshakeSucceeds` and `HandshakeFails` the two outcomes of `NewServerConn` under
its deadline, `OpenChannel` the dispatch of `ServeConn`. `Ends` ties the parts
together: a process that stops, crashes or fails takes its connection and its
channel with it (`Cut`). `ServeConnEnds` leaves the channel's handler alone, as
the code does.

### SandboxManager, GuestInit, AgentStage, AgentInstall, Provision (`MCProvision`, `Provision_proofs`)
- `SandboxManager`: several callers of `Create` and `Remove`, a driver call a step.
  Any call may fail, also for a context that has ended, the clean-up's included. A name is unique among
  the sandboxes that exist, a handle is never used again. `given`, `condemned` and `leaked` are history.
- `GuestInit`: from flags, policy and environment through Landlock and the drop
  to `exec`. The kernel has no Landlock, an old version (rules that are not strict are cut
  down to it) or the full one; setgid and setuid are two steps, and a failure after
  the first leaves it done. `AsId` is what these calls do to a 64-bit id: they take its lower 32 bits
  (`IdSpan` ids) and refuse all ones; an id of -2 is a large one, one of 2^32 is root's. Only the user and the
  primary group are modelled: the code does not touch the supplementary groups, so that after a drop the
  command still has root's.
- `AgentStage`: the groups of files that `Stage` writes, in its order, each file known by
  who it comes from (built-in, manifest, option). A file that was made read-only
  cannot be written again unless the process is root (`AsRoot`). The
  deferred clean-up is part of `StageFails`; its error is dropped in the code, so any part of the tree may
  stay behind.
- `AgentInstall`: a call of the guest a step; `CopyTo` works on any sandbox, `ExecRaw` on a
  running one. A probe for AGENTS.md that fails for whatever reason means "missing"; between the probe and
  the copy the guest may write the file. In both cases the copy replaces it.
- `Provision` composes them: the tree is staged, then sandboxes are created and
  removed; in the first of them `whaleshell-init` runs while `Install` works on it.

### Supervisor
`supervisor.sh` with the shell's `errexit` as a variable: `run_cycle` is called
under `set +e`, sets `-e` itself, and a return with another status than 0 is then
a failing command. `Outcomes` is what the adapters of the repository can
report (`Shipped`), or whatever the protocol allows.

## 3. What the runs check

All runs explore the complete state space of their instance (sizes from a
run with two workers).

| Run | Distinct states | What it shows |
|---|---|---|
| `ssh_session` | 408,808 | types, `ExitStatusIsLast`, `NoChildEscapes`; `SessionEnds`, `ExitIsReported`; refinement of `SessionPromise` |
| `local_store` | 1,501,745 | types, `Recoverable`, `ServedIsDurable`, `CredentialsDurable`, refinement of `DurableMap` |
| `relay_client` | 47,686 | types, `ConnectionsReleased`; `Reconnects`, `StopsOnCancel`, `OpenersSettle` |
| `oidc_validator` | 4,059,694 (up to symmetry) | types, `WithdrawnKeysExpire`, `UnknownOnlyIfUnpublished` |
| `pkce_login` | 121,234 | types, `CodesStayHome`; `LoginEnds`, `TabsAnswered` |
| `agent_loop` | 4,850 | types; `KeepsPolling`; refinement of `JobPromise` |
| `sshd` | 408,248 | types, `SocketPrivate`, `ServerReachable`, `FailsForCause`, `NothingLost`, `TargetReleased`; `ForwardEnds`, `ConnectionsSettle` |
| `provision` | 861,800 | types, `Accounted`, `RunsHardened`, `StagedAsAsked`, `InstalledAsStaged` |

Four more runs end in a counterexample (section 5). `OneChild` and `ResultsFaithful` are implied by the two
promises and therefore have no run of their own; they are proved.

**Bounds, and why they are enough.**
- `ssh_session`: three requests (a pty-req, a start and a signal, or two starts);
  one unit per stream can be in the pipe, in the copier's hands or waiting
  for window when the channel closes; children may ignore SIGHUP or leave the group.
- `local_store`: two keys, both of one provider (a prefix), two values; a call with both
  credentials, or with one key given twice (names that differ in blanks); two generated KEKs (one in use,
  one after a torn file, or written over the first), failing reads and writes of the KEK and failing writes of the
  store.
- `relay_client`: backoff 1, 2, 3 (the cap is not a power of two, so that
  doubling overshoots it); two messages in flight, two openers.
- `oidc_validator`: three keys, two callers, three calls, one rotation from any
  set to any set, cache lifetime and request latency of one time unit each.
- `pkce_login`: two attempts; three callbacks, since the third is the first
  that can find the channel full after the login is over.
- `agent_loop`: a cap of three, writes of one or two, five written in all: the
  buffer can be filled exactly, overrun by a part of a write, and written to when full.
- `sshd`: two processes and three starts (a server, a start that finds it or clashes
  with it, and one that recovers from a crash or begins after a clash is over); one connection, one channel, one unit per
  direction, enough for a copy that still has something to pass on when the other side
  ends, breaks or is cut.
- `provision`: the options, the init's configuration, the callers of the manager and
  the install vary one at a time (`Situations`), since the parts meet only in the staged tree, in the
  sandbox that runs, and in its end. Staging: every combination of
  skills, of payload with what can collide with it, and of the other parts. Init: every combination of flag,
  policy, kernel and wish to drop, and of ids that are missing, garbled, negative, zero,
  ordinary or too large; 65536 ids stand for 2^32, since TLC's integers have 32 bits. Manager: two callers of one name, three calls, three sandboxes; install: two attempts, with a
  `Remove` beside them. The staging process is not root, which is the case with more errors.

**Fairness.** `FairSpec` assumes that the program's own goroutines run and its
timers fire, action by action, and the following of the environment:
- `SshSession`: a peer that has not closed keeps reading (`PeerReads`) and answers
  a close; SIGHUP kills who does not ignore it. Nothing makes a child exit or a
  peer close: `SessionEnds` starts from a closed channel and is claimed for
  families that neither ignore SIGHUP nor leave the group, since the code
  sends nothing stronger.
- `RelayClient`: nothing; `Reconnects` has its premise (the gateway
  stays up, the network stops breaking streams) in the formula.
- `PkceLogin`: nothing of the browser.
- `AgentLoop`: every command ends, because `cmd.Run` has no timeout. A
  command that does not end stops the agent for ever; that is what the code does.
- `Sshd`: goroutines run, the handshake's and the dial's deadlines pass, a process that listens
  goes on to its chmod, the peers read, and a peer that is told of the other's end ends its
  own stream. Nothing makes a client connect, speak or leave, nor a process start or end.

The modules of `provision` and `Supervisor` claim no liveness.

`CHECK_DEADLOCK FALSE` stands where the component may really stop: a finished
session or forward, an installed or failed sandbox, a store, a socket or a cache whose bounds are used up, a
returned `Run`, logins that are over. The agent never stops, and its runs check
for deadlock.

## 4. What is proved

The proofs hold for every value of the constants that satisfies the named
assumptions, so for any number of requests, keys, jobs, processes and bytes.

- **`SshSession_proofs`** (types, `ExitStatusIsLast`, `OneChild`,
  `NoChildEscapes`, `KeepsPromise`). None of these is inductive. `IInv` adds
  `ChildInv` (what `proc` and the waiter's counter say about the child),
  `HandlerInv` (past the loop the channel is gone, and a child that runs has been
  hung up), `CopyInv` (a unit read is delivered before the next is read; a copy
  that ended on an open channel delivered everything and its write end is closed)
  and `StatusInv`. The lemma everything rests on is `WriteEndStaysClosed`: once nobody
  holds the write end, nobody gets it again, because only the running leader forks.
  `PromiseStep` takes the actions one by one: a delivery finds no report out because a copy in
  progress holds the waiter back, a close by the handler finds the channel gone (`HandlerInv`), one by
  the waiter finds the report sent or the channel closed, and `WriteEndStaysClosed` is why a command that
  is over stays over.
- **`LocalStore_proofs`** (types, `Recoverable`, `ServedIsDurable`, `KekStable`,
  `ImplementsDurableMap`, `CredentialsDurable`), with failing reads of the KEK file like any other failure.
  `Recoverable` then says that the key is lost in one way only, and `KekStable` that nothing else ever
  changes a complete KEK file; the refinement speaks of what the file holds, and whether it
  can be decrypted is left to `Recoverable`. `StepInv` says what each program counter knows: the AEAD in use is always the
  one in the KEK file or the pinned one, and the temporary file is complete before it
  is renamed. `Refinement` maps initial states to initial states, and each step to
  a step of `DurableMap` or a stutter; its fairness-free form is all `DurableMap` has.
  `CallsAreStoreSteps` shows that `ProviderStore` only takes steps of `LocalStore`, so that all of
  this holds for it too; `CredentialsAreDurable` rests on `PutInv`: a credential that was put and not
  touched since is in memory while the process lives, and on the disk unless its put is under way.
- **`AgentLoop_proofs`** (types with the cap, `ResultsFaithful`, `KeepsPromise`). The lemma
  `WrittenHolds` is the correctness of `cappedBuffer.Write` for every
  cap and every size of write; `RunInv` adds that a job handed out is never
  queued again, so that the history of a recorded job no longer changes, and
  that no job is in hand between two polls, which makes each step one of `JobPromise`.
- **`Sshd_proofs`**. Of `SockSpec`: types, `SocketPrivate`, `ServerReachable`,
  `FailsForCause`. Of one forward: types, `NothingLost`, `TargetReleased`; `CopyInv`: a
  copy ends for a reason that lasts, since a source that has ended sends no
  more and a peer that is gone stays gone (`PeersStayGone`). `SocketPrivate` rests on `StepInv`: whoever got past `MakeDir`
  made the directory private and nothing undoes it. The other two rest on `Alone`: a process
  that has not clashed is the only one past its probe, while it starts nobody else does and no clashed process is
  alive, and what it bound it has still. `Confined` says so of each such process, whatever the others did.
  `Composition` shows that every step of the whole program is a step of each part or leaves it
  alone, so that `ServersReachableByAll` and `ForwardsOfAll` hold for it; `ConnectionsHosted`
  is what the composition adds: no connection or channel without its process.
- **`RelayClient_proofs`** (types with the upper limit of the backoff, `ConnectionsReleased`). `LinkInv`: no stream outside a session. `OpenerInv`: an
  opener holds at each step exactly what its next failure will close.
- **`OidcValidator_proofs`** (types, `WithdrawnKeysExpire`,
  `UnknownOnlyIfUnpublished`). `AgeInv` dates everything: a key set under way was current
  when it was served, at most `Latency` ago; the cache was current at most `Latency`
  before `fetched`; so a call that finds the cache fresh, or stores a set, began less than
  `TTL + Latency` after the withdrawal of any key it will look up, and stays so when
  another call stores a newer set. `FoundInv` says that after a forced refresh every
  set stored since holds the kid: a reset takes the mutex, hence no older set
  is still to be stored (`MutexInv`).
- **`PkceLogin_proofs`** (types with the channel's capacity, `CodesStayHome`).
  `ResultInv`: what is in a channel was sent by a handler of that channel's own attempt,
  and a callback does not change once it is sent.
- **`Provision_proofs`**: the safety properties of the `provision` run, each part first under its own
  specification.
  - `RunsHardened`: `RulesInv` and `DropInv` say what each step of the init knows: in mode
    required it gets past Landlock only with rules, to the calls of setgid and setuid only with readable
    ids, and past setgid only without root's group, so that a drop that fails half way ends the init. What it
    says of ids excepts a configured id that wraps to 0 (`Wraps`), and does not speak of supplementary groups.
  - `Accounted`: `HandleInv`. A call between the driver's create and its end owns a handle that
    no other call has and nobody was given, and handles are never used again; therefore a
    clean-up deletes its own sandbox, whatever `Create` and `Remove` do to the same name meanwhile.
  - `StagedAsAsked`: `LastWriter`. After the steps taken so far a file comes from the last of
    them that writes it, in the order of `Rank`, and every file is there that one of them wrote. At the end this is the
    declarative precedence of `Expected`.
  - `InstalledAsStaged`: `OrderInv` ties the installation to the others (it begins only after the
    staging has succeeded, and the staged tree then no longer changes), `GuestInv` says which
    parts each step finds in the guest already, for the attempt under way, and `AgentsInv` the same of AGENTS.md.
  - `ProvisionParts` shows that the composition behaves as each part's specification says, so that
    `PartsOfAll` carries the first three over, and `ProvisionTypes` the types.

Three theorems mark off a finding of section 5: under a hypothesis on the environment that excludes
its cause, the violated property holds, for every value of the constants.
`OnlyTheRaceGoesAstray`: no process id is used again within the two windows named there (`WindowInv`: a
test after the store to `exited` sends nothing). `PinnedFromStart`: the KEK was pinned from the first
run on, or never. `OnlySingleKeysMislead`: the issuer never publishes one key alone.

**Only model-checked**: every liveness property, since fairness and `ENABLED` are beyond the
prover. All safety properties and refinements of the passing runs are also proved. No recursion over
data occurs.

## 5. Where code and documents disagree

Each is a run whose one property is violated.

1. `ssh_signal_race` / `SignalsReachOwnGroup`. `signal` and `hangup` test `exited`
   and then call `kill(-pid)`; the waiter reaps the child (which frees the id)
   before it stores `exited`, and can do both between test and kill. The comment of
   `hangup` says the signal goes to the child's process group. It
   needs the id to be reused within that window.
2. `local_store_pin` / `PinnedStillDecrypts`. The hint in `kek.go:86` advises to set
   `WHALESHELL_SECRETS_KEK` so that the volume "still decrypts" without the
   key file. The pinned key is a hash of the value and never the file's
   key, so an existing store no longer opens. Unsetting the variable repairs it, which
   is why `Recoverable` holds all the same.
3. `oidc_rotation` / `UnknownKidIsRefreshed`. With exactly one cached key, a token
   that names another kid is verified with that one and rejected, and the
   refresh "once for unknown kid" is not reached.
4. `supervisor_watch` / `WatchRetries`. `run_cycle` sets `-e` again (`supervisor.sh:48`)
   although its caller cleared it to read the status; a cycle that returns another status than
   0 ends the shell there, and the sleep and retry that the message in line 92
   announces are not reached. With the adapters of the repository this happens when HOME cannot be
   prepared or the agent is missing; with any adapter that reports `waiting`, after every first cycle.

Three more disagreements have no run: each is due to one step that stands in the model, and a
counterexample would only repeat it. They are therefore exceptions named in the property that holds apart from them, or no
property claims the contrary:
- `loadOrCreateKEK` takes any error of reading `secrets.kek` for a file that is missing (`local.go:72`) and writes
  a new KEK over it, under which the store no longer opens; `kek.go:32` says that a file-backed KEK is lost
  if the volume is deleted. This is `ReplaceUnreadKek`; `Recoverable` shows that there is no other way to lose it.
- `WHALESHELL_UID=4294967296` is not 0 and so is not filled in, but setuid takes its lower 32 bits, 0, and
  succeeds (`drop_linux.go:28`, whose comment in line 15 says that it switches to the configured ids): in mode required
  the command runs as root. This is `AsId`; `RunsHardened` shows that multiples of 2^32 are the only ids that do so.
- A probe for AGENTS.md that cannot be run counts as a file that is missing (`install.go:139`), and the copy replaces
  somebody else's, although `doc.go:12`, `embed.go:17` and the comments in `install.go:137` and `:144` say "when
  missing". This is the second disjunct of `Probe`; nothing here claims that such a file is kept.

Behaviours found on the way that no document contradicts stay hazards: two overlapping starts
of sshd, or one whose probe of a live server fails, can leave a server without its path (`ServerReachable` excepts the
processes concerned); in the PKCE flow a stale tab of an older attempt ends the newer one with an error;
agent output that fills the buffer exactly is cut without the marker; with `--mode required` and a
policy of best effort the command may run under a reduced set of Landlock rules; after a drop the command keeps
root's supplementary groups; a staging that fails may leave files behind.

## 6. Assumptions and limits

- Cryptography is ideal; JSON, base64, HTTP and SSH framing are not modelled.
- `LocalStore`: two processes on one directory, and losses by power
  failure (the code calls no `fsync`), are outside the model.
- `SshSession` does not bind the two directions of `stdin`; a child that
  blocks on input simply does not exit.
- `GuestInit`: supplementary groups, user namespaces and capabilities are not modelled.
- `SshdSocket`: the disk, permissions and the host key are in order.
- `PkceLogin`: what the page says is not modelled, only that it arrives.
- `Sshd` follows one connection and one direct-tcpip channel; the sessions of a process that
  ends get no hangup from the code, and what becomes of their children is up to the kernel.
- `Provision`: contents of files, permissions inside the guest, the driver and the proxy are
  external; `Stage` is assumed to have the temporary directory for itself. The MCP and
  seed files that a manifest names are read only by `Install`, by their path on the host.
- `Supervisor`: the harness's output is reduced to its last line and its exit status.
- Not modelled: other channel types and global requests, answered without state; the Landlock path
  list, `--probe`, and the `prepare-home.sh` merge's contents; read-only
  stores, the identity adapter, refresh, inference, audit, logging and configuration (no state);
  images and build files.

## 7. Plan

Done, in this order: SshSession, LocalStore over DurableMap, RelayClient, OidcValidator,
PkceLogin, AgentLoop, DirectForward, SshdSocket; then ProviderStore, Sshd, SandboxManager,
GuestInit, AgentStage, AgentInstall, Provision, Supervisor; then SessionPromise and JobPromise, with
proofs of all safety properties that the passing runs check.

To extend the model: `RelayClient` composed with `Sshd`, so that an opener's dial meets the
socket's real life cycle.

To prove: an abstract two-way stream that `DirectForward` implements (data in order, the end of
a stream after it, a cut at any point), and the calls of the sandbox manager as an atomic
create and remove.
