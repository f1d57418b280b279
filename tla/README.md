# flexkb in TLA+

flexkb generates keyboard layouts from small modules (physical shell,
transformation, additions, substitutions), edits them in a browser through a
local server, and ships an input-method daemon, `flexkb-imed`, that types with
them.  This directory holds TLA+ models of the parts of it where behaviour is
hard to see from the code or from a unit test, the TLC configurations that
check them on small instances, and TLAPS proofs of the properties that matter
most.  Paths below are relative to the repository.

Contents: [the system](#the-system), [modules](#modules-and-how-they-follow-the-code),
[runs](#runs), [fairness](#fairness), [findings](#findings), [proofs](#proofs),
[what is only model-checked](#only-model-checked), [what is not
modelled](#not-modelled), [plan](#plan).

## The system

### The daemon, `flexkb-imed`

A process on the session bus and on Wayland sockets.  A keystroke of an
application comes in over one of two transports and passes up to three tiers:

    application --ibus D-Bus--> ibus.InputContext --1--> imv2bridge.Bridge --> v2 client (an IME)
                                       |          --2--> ibushost.Host     --> ibus engine process
                                       |          --3--> imsession.Session (in-process)
    compositor --input-method-v2--> cmd/flexkb-imed run() --> imsession.Session

| component | state | operations | goroutines |
|---|---|---|---|
| `internal/imv2bridge` Bridge | active input method, focused context, pending commit/preedit, key serial, under `mu` | callbacks of the v2 server objects; `NotifyFocusIn/Out`, `NotifyContentType`, `NotifySurroundingText`, `RouteKey`, `HasActiveGrab` | dispatcher of each v2 connection, one goroutine per D-Bus call |
| `internal/wlim/server.go` | manager's current input method, an input method's grab, handler tables | requests of the protocol, events | the connection's dispatcher; sends from any goroutine |
| `internal/wlserver` | listening socket, active connections, table of objects per connection | accept, dispatch, `wl_display`/`wl_registry` bootstrap, close | one accept loop, one `Run` per connection, whoever calls `Close` |
| `internal/ibus` InputContext, Server | focus flag, engine name, session; table of contexts; the bus name | `ProcessKeyEvent`, `FocusIn/Out`, `SetEngine`, `Reset`, `Destroy`; signals; `Start` | one goroutine per D-Bus call |
| `internal/ibushost` Host | `engines` (by name), `routes` (by context), processes | `SelectEngine`, `ReleaseEngine`, `EngineFor`, `RegisterComponent`; the reaper | D-Bus calls, one reaper per process |
| `internal/ibushost/signals.go` | which context each engine name serves | focus notifications, dispatch of engine signals | one dispatch goroutine, D-Bus calls |
| `internal/imsession`, `internal/inputmethod`, `internal/runtime` | modifiers, keymap window, state machine, buffer | `HandleKey`, `HandleModifiers`, `Feed` | called under the context's lock or from the Wayland loop |
| `internal/wlclient`, `internal/wlim/im.go`, `internal/wlwire` | the client's object table, bytes and descriptors read and not yet handed out | create an object, send, read, dispatch | `run()` and the dispatch loop share the table |
| `cmd/flexkb-imed` | socket files, bus name, which backends started | `main`, `dryRunChecks`, `runMulti`, `run` | main, one goroutine per backend |

What makes it hard: every component drops its lock before it sends, so two
goroutines may send in the other order than they decided; two tables in two
processes describe the same focus; a v2 client or an engine may crash, hang or
reply after its deadline; objects are replaced while events for the old ones
are under way; socket files outlive the process; the compositor may withdraw,
refuse or hang up at every step of start-up.

What would make it correct: text a user composed reaches one application, the
one it was meant for, once and in order; a keystroke is acted on by one tier
and comes back; the tables of host, contexts and bridge agree when nothing is
under way; a client's round trip shows it what there is; closing and losing a
connection end what served it; no daemon is left that serves nothing.

### The layout tools, `flexkb`

| component | state | operations |
|---|---|---|
| `internal/compose` | the table of levels and the table of sources, while one recipe is composed | five stages, three merge rules, locale fill |
| `internal/coverage`, `internal/validate` | none | which letters of a locale a layout can type |
| `internal/model` | the data tree: user directory over system directory | lookups in search-path order |
| `cmd/flexkb/serve.go` | the files of the user's directory | HTTP handlers that read, merge, rewrite, rename and remove them; one goroutine each, no lock |
| `generate`, `build`, `dropin-check`, `activate` (`cmd/flexkb/main.go`) with `xkbparser`, `rulespatch`, `bulkconvert`, `dropincheck` | an output tree, `~/.xkb`, `~/.XCompose` and its backups | copy the upstream tree, write symbols files, patch the registry, write Compose files, compare; every file in place, on top of what is there |
| imports, reports | none | sequential conversions |

Composition is sequential, but it ranges over Go maps, moves values between
levels with their provenance, and lets modules compete for the same level: it
must not credit a module with a symbol it did not give, not lose a value while
there is room, and not call a letter missing that can be typed.  The editor
server is concurrent on a file system: each save must happen once or not at all, and a
reader must see some state that was.  The tree commands run one at a time, but
any of them may stop half way through a file and the next works on what is
left: a finished tree must not depend on that, the check must say what is
missing, and no text of the user's may be lost.

## Modules and how they follow the code

**TextChannel** is the abstract specification of committed text in the v2
tier: numbered chunks are received in one buffer, a lane takes the whole buffer
or it is discarded whole, and a lane emits what it took once.  No step copies a
chunk or puts one back.

**V2Bridge** is the v2 tier in detail: `Bridge`, the server objects that call
it, and the dispatcher of each connection.  `h[c]` is what is left of the
request that connection *c*'s dispatcher is inside of and `call[g]` what is
left of D-Bus call *g*; one step is what happens between two acquisitions of
`Bridge.mu`, or one send.  So `flushPending`, which takes the batch under the
lock and emits after it, is `Commit` followed by `EmitText`/`EmitPreedit`;
`NotifyFocusOut` clears the batch and `FocusOutSendsDeactivate` sends;
`RouteKey` reads the input method, then its grab, then draws a serial, sends
the modifiers, draws another and sends the key.  A commit string is a set of
chunks with arrival numbers, because concatenation is in arrival order.
`HangUp` and `RunReturns` tell nobody, as in the code.

**Listener** is what a v2 client meets first: `wlserver.Listener` with its
accept loop and its `Close`, one `Run` per connection, and the objects of the
bootstrap.  A turn of the accept loop is one step, as is the copy `Close` takes
of the active set: what becomes of a connection depends only on which is first.
A handler's answers wait in `out[c]` and each `Send` is a step, since a full
socket blocks it.  Requests of an unknown object are dropped, a number that is
taken fails the handler and with it `Run`, and only `Close` closes the socket.
Clients are external: a *careful* one keeps to the protocol (it waits for
`delete_id` before it uses a number again and binds what it was told of), any
other may ask for anything.

**EngineRouting** is the ibus tier.  An `Engine` value is a *handle*, numbered
in the order of creation, because the code's problem is whether two tables
mean the same value.  `ReadRoute` is `EngineFor` with the `Connected()` test of
its four callers; the 100 ms deadline of a key is `EngineCallFails`, possible
whenever the engine has the key, and the engine may still act on it afterwards
(`EngineHandlesKey`).  `FocusIn`/`FocusOut` calls to an engine have no deadline
and may wait forever.  `HandleSignal` is the part of `handle` under the lock, a
snapshot of every hook whichever engine sent the signal, and each `EmitSignal`
one emission after it.  `late` is history: how many signals have reached a
context since it lost the focus and no FocusOut of it was under way.

**KeySession** is tier 3 on both transports: resolver, compiled state machine
(`FromCompose` from a chain, or a hand-written method), `Feed`, `Apply`,
`Translate`, and what the transport does with the resulting actions: the
compositor double-buffers until a commit request, ibus emits signals.  The
order inside `Apply` is the code's (append, pop, lookup, emit, clear, move,
on_enter).  A sequence or template is a sequence of symbols, a match class the
set of its members.

**WaylandClient** is the Wayland backend, `run()`, with the goroutine that
dispatches events: both use one object table.  Objects are named by what they
are for, since `NewID` never gives a number twice.  `Create` is two steps, `Register`
and then `Send`, between which the dispatch loop and the compositor may act; a
send that fails takes the handler back where the code does.  `Fill` is one `recvmsg`,
which returns all messages up to the end of a flush that carries descriptors
and the descriptors with them; `Deliver` is `ReadMessage` with the handler of
one event.  The compositor is external and may answer, lack or withdraw a
global, refuse the seat, or hang up.

**Daemon** extends it with the process around: `main`, `dryRunChecks` and
`runMulti` step by step, the control socket, the socket of the rebroadcast, the
claim of the bus name.  Files and the bus outlive a process; `Killed` is
possible at every step, and the next `Start` finds what was left.  A `Listen`
that fails leaves no file, whether or not the removal before it succeeded.

**LayoutFiles**, **LayoutStore**, **UserStore**: the first holds what a layout
file is and how the user's layer shadows the others; the second is what the
editor promises its clients, a map that each write changes once or not at all;
the third is `serve.go` and `internal/model`, one system call a step.
`temp[f]` is the file under `<f>.yaml.tmp`, `live[f]` the one under its name,
and `at[r]` says where the file a writer has open is by now, because a rename
moves it and another unlinks it under the writer.  The refinement maps the file
under the name to the store; a reader whose paths lack the user's directory was
answered when they were looked up.

**LayoutCompose** is `compose.Compose`: one step per module applied to the
table (all keys at once where keys are independent), a choice where Go's map
order decides between two writes to one key, and one step per character of the
locale fill.  Levels are padded with `""` where the code trims slices; the
merge rules compute levels and provenance together except for `Claim`, where
the code computes provenance after the fact from the old table.  Symbol
decoding, encoding and case mapping are constants; a named keysym and a
`Uxxxx` escape are different tokens that decode to a character.  `Analyze`,
`CollectChars`, `handleCoverage` and `ValidateVariant` are what the editor and
`flexkb validate` report of the result.

**XkbTree** is the tree commands, one write a step.  A symbols file is a
sequence of blocks, each with a name and whose text it is, in a comment or not;
`Parse` keeps the code's two views of it, the names found without comments and
the source found with them.  A file cut after a commented block and before the
end of its comment is `open`: nothing strips that comment, and the parser takes
the block for a live one (`Seen`).  `linked` says of an upstream tree that its
root is a symlink, which `CopyTree` follows and dropin-check's walk does not.
A chain file is known by its `Path`, under which two variants may meet.  `Plan` lists a command's writes in the code's
order; each may be cut anywhere (`Cut`, `PartsXML`, `PartsLst`) and ends the
command, as a recipe that does not compose or a chain that is wrong does.
Between commands the user edits his layouts and writes `~/.XCompose`.
`finished` and `owed` are history: what last ran to its end over a tree with
the data unchanged since, and what the user wrote and did not replace himself.

**V2BridgeProofs**, **EngineRoutingProofs**, **ListenerProofs**,
**DaemonProofs** (with those of the Wayland client), **KeySessionProofs**,
**UserStoreProofs**, **LayoutComposeProofs** and **XkbTreeProofs** hold the
proofs (below).  **MC…** modules give constants
their values.  A definition whose comment begins with *Mutant* is a
deliberately broken variant of the one after it, kept to show that the
properties notice; no specification uses one.

The modules compose where the code's parts share state: `Daemon` with
`WaylandClient` over one process; V2Bridge with the server objects, the
dispatchers and the context's calls over `Bridge.mu`; EngineRouting with
contexts, host and signal bridge over their four locks; KeySession with the
engine and both transports.  Between V2Bridge and Listener the interface is
`Run`: Listener shows which connections have one and that it ends, V2Bridge
what a running one does to the bridge.

## Runs

| run | question | distinct states |
|---|---|---|
| interleaved | two v2 clients against focus changes: is the bridge a `TextChannel`, so that text passes at most once, and does a focus reach the client that reads? | 718,202 |
| oneclient | one client that replaces its input method while two contexts trade focus: text order, text context, activation | 276,166 |
| keys | two keys routed at once while grabs and input methods are replaced, released, destroyed | 2,124,222 |
| routing | two contexts select, focus and destroy while an engine is spawned, registers, sends signals, crashes, is reaped | 1,058,006 |
| keys_engine | keystrokes through the tiers with an engine that answers, declines, is late, dies or hangs | 342,159 |
| session | every compose chain of up to two sequences over two letters, and the engine tests' methods | 762,075 |
| layout | 1752 recipes, composed and reported on | 39,204 |
| store | three requests of any kind to the editor server, killed at any step: is it a `LayoutStore`? | 519,870 |
| daemon | two starts of the daemon, killed at any step, against a compositor that answers, lacks, withdraws, refuses or hangs up | 662,872 |
| listener | a careful client beside one that asks for anything, never reads or hangs up, with `Close` at any moment | 277,993 |
| tree | `generate`, `build`, `dropin-check` and `activate` in sequence, stopped anywhere: is a finished tree drop-in, is the check's answer true, is what the user wrote kept? | 977,891 |
| fdorder | shows a statement of the repository that the code does not keep (see Findings) | stops at the counterexample |

Bounds, and why they are enough:

* *interleaved*: two connections with one input method each, one context, one
  call, two chunks.  The question is about two lanes and one buffer; the proof
  covers any number.  `Bracketed = FALSE`: focus calls come in any order.
  `Reading = {c1}`: one client reads its socket, of the other nothing is
  assumed, so that a send to it may never return.
* *oneclient*: one connection, two input methods (replacement needs two), two
  contexts (a switch needs two), one call in flight, two chunks (order needs
  two).  `Bracketed = TRUE` says an application sends FocusOut before the next
  FocusIn; without it the activation properties do not hold (see hazards).
* *keys*: two input methods, two grabs each (a replaced grab and its
  successor); two calls in flight, so that keystrokes interleave and a handler
  may act between any two steps of either.  Calls are symmetric.  `MaxSerial =
  1` cuts off keystrokes once the serial passed it.
* *routing*: two contexts (one loses what the other uses), one engine the
  catalogue has and one it has not, two `Engine` values (a crash and a
  respawn), two calls.  Contexts are symmetric.  `MidFocus = FALSE`:
  clients change the engine of a context while it is not focused.
* *keys_engine*: one context, two keystrokes, two calls: a late answer of the
  first may race the second.
* *session*: four symbols fed, which is one more than the longest sequence, so
  a chain is completed or cut and started again; one `HidePreedit` under way.
  State ids are made as `stateID` makes them (`Underscored`).  Two chains more are
  not `WellNamed`, so `ComposesAsWritten` says nothing of them; it fails there (see
  Findings), and the other properties do not.
* *layout*: two physical keys and one that overlays mention but the shell has
  not; four bases (full, half empty, five levels, and all blank, this one with
  one addition at most); each list of up to two of six additions that between
  them use every mode, rank and fallback; a chain of two substitutions, after at
  most one addition; two fillers with letters; one locale and two in a row,
  with letters in both cases.  Merging acts on one key at a time and letters
  couple keys only through the index, so two keys show what more would.
  `Depth = 5` is one more than `maxOverlayLevels`, so that truncation happens.
* *store*: one file, which the package ships too (shadowing shows), two
  variants, two recipes; every interleaving of three requests out of
  `EditorJobs` (save with and without merge, whole-file put, deletion of either
  variant, lookup, raw read, list); one kill.  Requests are symmetric.  Three
  requests give a writer, a writer after it that finds what a killed one left,
  and a reader across both.  `Overlap = FALSE`: no two writes of one file are
  in flight; with `TRUE` the refinement fails (see hazards).  The proof covers
  any number of files, requests and kills.
* *daemon*: two starts (one finds what the other left), one withdrawn global,
  four command lines from `docs/SAFE-TESTING.md` which between them take every
  branch of `runMulti`.
* *listener*: two clients, ids 2 to 4 (a registry, a sync, a bind), three
  requests among both, a socket with room for one message, so that a send
  blocks at the second.  Three is what a round trip with a reused number takes.
* *tree*: three symbols files, of which upstream has two; eight upstream trees:
  six texts of one file (tidy, one more variant in a comment, an older copy of
  a block in either kind of comment, odd spacing, one the parser rejects and no
  `.lst`), a tidy tree under a symlink, and one with an older copy in a file
  that build copies; four data trees (replaced, passed-through and new
  variants, chains that are there, missing or wrong, two variants' chains on
  one path, a recipe that does not compose), which the user may exchange between
  commands; two texts for `~/.XCompose`, written before an activation.  Scripts
  of three commands: two that fill a tree and a check, or three activations
  (one for the user's file, one that stops half way, one
  that finds what it left).  Each command has a process id of its own.
* *fdorder*: the packaged service's command line, one start.

`CHECK_DEADLOCK FALSE` everywhere: clients may stop calling, connections may
end, a process may be down for good, the counters are bounded and a composition
returns.

What the properties say is in the comments above them.  The type invariants of
Listener, Daemon and EngineRouting and `AtMostOnce` are proved and in no run.
Each property of a run has, in `PROJECT.json`, a mutation of the code that breaks it in its own run.

## Fairness

* V2Bridge: weak fairness of the steps `FocusReachesIm` rests on, and only of
  those.  `OnInputMethodCreated` blocks on a mutex held for a few assignments,
  and Go runs a runnable goroutine.  `RunReturns` is fair after a hang-up,
  because a read on a closed socket returns.  The sends that follow a creation
  and the one that follows a focus are fair only for the clients in `Reading`:
  `WriteMsgUnix` has no deadline, and a client that does not read blocks it for
  ever.  A goroutine stuck in such a send stays there, and with it its D-Bus
  call or its connection; the property says that nobody else waits for it, which
  is so because no send is made under `Bridge.mu`.  No client owes a request.
* EngineRouting: weak fairness of `KeyStep(g)` except inside the v2 router,
  whose sends have no deadline.  It contains the engine's deadline
  (`EngineCallFails`), so nothing is asked of the engine: `KeyReturns` holds
  because of `context.WithTimeout`, and the mutant that waits for the engine
  breaks it.  Focus calls are not fair; a hung engine holds them up.
* Listener: weak fairness of the accept loop, of a `Close` that has begun and
  of each `Run(c)`, all goroutines of the daemon; and of `ReadEvent(c)` for
  the clients in `Readers` only, which stay and read.  Nobody has to ask
  anything, and nobody has to call `Close`.  `CloseEndsRuns` asks nothing of
  any client: a send stuck on one that does not read ends because `Close` closes
  the socket.
* Daemon: weak fairness of the process and the answering compositor as a whole
  (`Main`, `Run`, `DispatchLoop`, `AnswerRequest`, `RefuseBind`), not of hanging
  up, withdrawing, signals or kills.  The compositor's answers are in it because
  `run()` has no timeout: against one that accepts the connection and never
  answers, start-up does not end.  One condition for the union is enough, since
  every step of it moves towards the end of a bounded start-up.
* KeySession, LayoutCompose, UserStore and XkbTree have no liveness property.

## Findings

A run that TLC ends with a counterexample:

* **fdorder** – `wlwire/conn.go:88` says descriptors go to "the next message
  that consumes them"; `ReadMessage` gives them to the next message it returns.
  When the keymap is read in one go with an event before it, that event takes
  the descriptor, the keymap has none, and the daemon ends.

Met while modelling and without a run; most are in the models, and hazards of
`PROJECT.json` name them where they bite.

* v2 tier: `wlim/server.go:61` says OnInputMethodDestroyed also fires on
  connection teardown, and nothing calls it then; `bridge.go:397` says text
  cannot leak into the next focused context, and text that arrives between the
  focus-out's critical section and its deactivate event does; serials of
  concurrent keystrokes leave out of order, or after a reset (`bridge.go:195`);
  deactivate may follow the next activate when focus calls are not bracketed.
* side socket: `SendError` (`display.go:88`) is never called, so a client whose
  request failed is neither told nor disconnected; a short write is dropped
  (`conn.go:188`).  No send has a deadline (`wlserver/objects.go:154`), so that
  an application's FocusIn or keystroke hangs with an IME that does not read.
* ibus: `context.go:308` says a failed bind leaves the context on the in-process
  session, and it leaves it on the engine it had; `context.go:165` says pending
  preedit is cancelled on FocusOut, and the session keeps its buffer and commits
  it after the next FocusIn; there too the client "should expect no more
  commits", and one signal whose hook was read before FocusOut dropped it may
  still arrive (`OneLateSignal`); `signals.go:197` says "this loop runs once",
  and a signal of any engine goes to every hooked context; a key the engine has absorbed
  (`inputmethod/engine.go:85`) is handed back to the application, which types
  it too (`context.go:110`); a hook may be lost when another context's focus-out
  clears it.
* compose chains: `inputmethod/compose.go:10` says "one state per distinct
  prefix", and the states of `[c_h]` and `[c, h]` (Breton has such symbols) share
  the id `prefix_c_h` (`compose.go:89`), so that of `[c_h, c]` and `[c, h, h]` the
  first cannot be composed and `c_h h` gives the second's output; a `*` in an
  input, which `model/model.go:187` accepts as a "literal character", becomes a
  transition that takes any symbol (`compose.go:119`, `engine.go:121`).
* daemon: `main.go:212` says "Each backend is independent", and the first that
  ends takes the daemon down, the ibus backend of
  `docs/SAFE-TESTING.md:134-142` with it; a lost bus name is not noticed; a dry
  run ("Safe to run on a live session",
  `main.go:138`) removes a live daemon's control socket, as a second daemon
  does; `--wayland=false --ibus=off`, documented as control socket only
  (`docs/SAFE-TESTING.md:28-30`), ends with "no backends started"; on
  `unavailable` "the daemon should log and tear down" (`wlim/im.go:136-138`),
  and it only logs (`main.go:556`), so that it may be left serving nothing.
* editor: `merge` is documented as true by default (`serve.go:530-531,539`) and
  is false when absent from the JSON; the source label of a listed layout may
  be of another file than the one read (`serve.go:201`); `daemonSocketPath`
  (`serve.go:1198`) says the two binaries do not drift and lacks the daemon's
  `/tmp` fallback; concurrent saves of one file lose one or mix both.
* xkb tree: `docs/DESIGN.md:163` says dropin-check fails if any upstream block
  is missing, and a text the parser rejects, on either side, counts as having
  none (`dropincheck.go:113-120`), as has one the check cannot read (`:79-83`);
  of an upstream root that is a symlink, as `bulkconvert/copy.go:21-27` says
  one may be, `dropincheck.go:46` compares no file, so that an output directory
  that lacks every file is "OK: a strict superset"; a file cut inside a block
  comment parses, with the older copy in it as the block (`parser.go:42`); the
  chains of variant b-c of a and of variant c of a-b go to one file
  (`main.go:328`); the `.lst` look-up never knows a variant and
  lists all again, although `rulespatch.go:11` says "we don't duplicate"; an
  older copy of a block in a comment is passed through live, or the block is
  dropped (`parser.go:86`); backups of `~/.XCompose` are "timestamped"
  (`main.go:751`) by the process id, and the first write of the file has no
  marker yet; `gui --data` edits one data tree and activates another, because
  `flexkb activate` is started without it (`serve.go:664`).
* composer and reports: letter overlays of one addition applied in map order;
  the lost source of a chained claim (`compose.go:56` says "Always populated");
  the parity rule of `runeFoldLower` (`localefill.go:303`) outside the range
  where it holds; the layers suggested for a missing letter ("WOULD supply it
  if added", `validate.go:33-35`) need not close the gap once ranks and free
  levels are taken into account, and a locale counts as complete when each
  letter can be typed in one of its cases.

## Proofs

Checked by tlapm for every value of the constants that satisfies the named
assumptions (`BridgeAssumption`, `RoutingAssumption`, `ListenerAssumption`,
`ClientAssumption`, `DaemonAssumption`, `SessionAssumption`,
`LayoutAssumption`, `LayersAssumption`, `UserStoreAssumption`,
`FilesAssumption`, `UpstreamAssumption`, `TreeAssumption`, `ScriptAssumption`,
`HandAssumption`): the constants are sets and numbers of the right kind and the
nil values are not members; no set is assumed finite but that of the symbols
files' names, which `CopyTree` lists.  `FilesAssumption` says besides that no
name is another one with a colon after it, and `TreeAssumption` that two
layout files are for different symbols files.  `SessionAssumption` says besides what `Load` and `FromCompose`
accept (every goto names a state, a chain has sequences);
`LayoutAssumption` that a slug names one file, that `EncodeRune` never fails and
that `Decode` reads back what it writes, and that a locale is found by its
code.  Where a theorem assumes more, it is in
its statement and named below.

* **V2BridgeProofs / ChannelAtMostOnce**: the abstract channel emits a chunk at
  most once.  `AtMostOnce` alone is not inductive: it needs that a chunk is in
  one place only (`OnePlace`): in the buffer, or with one lane, or emitted.
* **V2BridgeProofs / TypeCorrect**: the types, one lemma per kind of step.
* **V2BridgeProofs / BridgeImplementsChannel**: every step of the bridge is
  a channel step or leaves the channel alone.  The mapping takes
  `pendingCommit` for the buffer and the batch each dispatcher holds for its
  lane.  It needs `TextHeld`, that only a dispatcher about to emit holds text:
  otherwise `Commit` would overwrite a lane that is not empty.
  **BridgeAtMostOnce** follows from the channel's theorem through the mapping,
  with no further invariant over the bridge.
* **V2BridgeProofs / BridgeEmitsInOrder** (one connection): text leaves in the
  order in which it was sent.  It is proved of the channel with one lane
  (`NewestLast`: what was emitted is older than what the lane holds, and that is
  older than the buffer) and carried over by the refinement.  With two
  connections a dispatcher may overtake one that took an older batch, so the
  hypothesis is needed.
* **V2BridgeProofs / GrabsAreUsable** needs `GrabNumbersCount`, that a grab's
  number never exceeds those created, so a new grab is not a released one;
  **ActiveImIsCurrent** needs `AdoptsItsCurrent`, what a dispatcher between its
  two steps of get_input_method may assume.
* **V2BridgeProofs / TextStaysInContext** (`Bracketed = TRUE`): adds
  `PendingIsOfFocus`, that the batch only holds text received for the context
  that has the focus now, or for none: `NotifyFocusOut` clears it in the
  critical section in which it clears the focus.
* **V2BridgeProofs / FocusedImsAreActive** (`Bracketed = TRUE`, one focus call
  in flight): the property speaks of quiet states only.  The invariant
  (`FocusInv`) says who still owes the activation in the others: the active
  input method of a focused context has been told, or its own dispatcher is
  about to (`Activating`), or the focus call is; and a focus-out that has yet
  to deactivate leaves no context focused.
* **EngineRoutingProofs / RoutingTypeCorrect, RoutesStayLive,
  EnginesHaveOneProcess**: the tables of the host.  `RoutesAreLive` speaks of
  routes only; the reaper deletes an entry by name, so the invariant
  (`TablesAgree`) must add that an entry holds a handle of its own name that is
  not reaped, and that a handle with a process *is* the entry of its name.
  Then what the reaper deletes is always its own, and two processes of one
  name would be one handle.  The types need `CallsAreAbout`: a call beyond its
  first step names a context, and a keystroke in a tier has been counted.
* **EngineRoutingProofs / KeysAreActedOnOnce**: `KeyInv` follows a key along
  its call: before the engine is asked nothing has acted; while the call waits
  a declined key is untouched; the session gets a key only if nothing else acts
  on it any more or the call was given up; and two calls carry different keys.
* **EngineRoutingProofs / SignalsAreTakenForFocus** (`MidFocus = FALSE`):
  `HookInv` says that two calls on one context do not overlap, that a call that
  focuses finds the context focused under the name it read, and that a hooked
  context which is not focused any more has its focus-out under way.  Of the
  engine that sent the signal it says nothing, for `handle` does not look.
* **EngineRoutingProofs / FocusOutLetsOneThrough** (`MidFocus = FALSE`): of the
  emissions, which leave after `handle` has unlocked.  A context that is not
  focused and has no FocusOut under way is hooked under no name, so that no new
  snapshot has it; the one under way has it once, because it was hooked under
  one name, and is not snapshotted again until it has left (`LateOnce`).
* **DaemonProofs / DaemonTypeCorrect, SocketFilesFollow**: the types need that
  what a registry announces are globals (`ClientInv`) and how many backends can
  have started at each stage (`StartedInv`); the socket files need `SocketInv`,
  which stage may have which listener, and that no file is of a later process.
* **DaemonProofs / EventsAreRouted**: an event finds the handler of its object.
  `Routes` follows each object from its registration: whatever is on the way to
  the daemon (`OnWire`, read or not) is of an object in the table, or of a
  callback whose `done` comes first, and `Create` registers before it sends.
* **ListenerProofs / ListenerTypeCorrect, RoundTripsSeeGlobals**: a careful
  client that has the reply to a sync has been told of the manager by each
  registry it asked for before.  The invariant follows the global along the
  way: `Ahead` says that, wherever the sync or its reply is (request, answer
  not yet sent, event), the global of each such registry is with the client or
  ahead of it, or its registry's request is; `Once` and `Awaited`, that there
  is one sync of a number under way and the client waits for it; `Table`, that
  the display alone is under number 1 while the connection is served.
* **UserStoreProofs / StoreTypeCorrect**: for overlapping writes too.
  **EditorImplementsStore** (`Overlap = FALSE`): the rename is the abstract
  write, everything before it a stutter.  `Undisturbed` says that writers of one
  file never meet (`Exclusive`), that no file under a name is torn (`OnDisk`),
  that a writer has its temporary file to itself and that what it is about to
  rename is what its request makes of the file *as it is now* (`Pen`, `Due`),
  and what a reader has still to be told (`Heard`).
* **XkbTreeProofs / TypesHold**: of what the commands read and write again.
  It needs `TodoOK`, that what is left of a command is of its own kind of steps,
  about layouts, files and variants that there are, and that each operator
  (`Parse`, `Generated`, `PatchXML`, `PatchLst`) makes texts and listings of
  texts and listings, commented, torn or unparsable ones included.
* **XkbTreeProofs / FinishedTreeHolds**: that a finished tree is a drop-in
  replacement, for any data and upstream tree, and whatever was killed over it
  before.  `FinishedTreeIsDropIn` speaks of the end of a command; `MadeInv`
  says of each step in between that what the plan has no longer to do has been
  done and stays (`SymbolsMade`, `CopiesMade`, `RulesMade`, `ChainsMade`).  It
  rests on the order of the plan (`Orderly`: the registry is copied before
  anything else, and each file of it patched once, after that), because a
  patch of a patched registry would list again.  That what was done is then
  what the property asks for is a matter of counting: `Once` and `Never` say
  of a sequence how often it has a member of a set, with a lemma for each way
  the model builds one (`FlattenOnce`, `FlattenNever`, `ConcatOnce`), so that
  a composed variant, a passed-through one and one the layout does not name
  are each in the file once.
  Of a tidy text extractRaw finds the block itself (`TidyParse`).
* **XkbTreeProofs / ReportHolds**: `ReportInv` says what a report says of the
  tree as it is: "clean" that the check found nothing (`Clean`, with or without
  an output directory), no report while the tree is written, and no "missing" of
  a finished build of a tidy upstream tree, which is `MadeInv` once more.  What
  a clean check is worth is a matter of the parser: the blocks it sees in a text
  that parses and is not `open` are the live ones (`LiveNamesAre`).  The
  theorem does not say that every file is there: of an upstream root that is a
  symlink the check compares none (Findings), and the statement exempts it.
* **XkbTreeProofs / HandWrittenSurvives**: for any data trees and scripts, and
  wherever an activation stops.  `HandWrittenIsKept` alone does not survive the
  two writes of an activation: `LookedFirst` adds that one which is about to
  write `~/.XCompose` has looked at it and leaves nothing of the user's under
  the name, and `NamesAreFresh` that a backup's name is of no later command, so
  that moving the file away overwrites no earlier backup.

* **KeySessionProofs / SessionTypes**: the engine is only ever in a state its
  method has.  For a chain that is a fact about `FromCompose`: the states are
  the paths of the sequences, and every arc leads to one (`ChainIsMethod`).
* **KeySessionProofs / BatchesAreClosed**: after every keystroke the compositor
  holds nothing back.  `Closed` says that what `Translate` returns is either
  without effect or ends with the only commit request; `SessionInv` adds it to
  the types.
* **KeySessionProofs / TheBufferIsShown**: after a keystroke with an effect the
  preedit displayed on the Wayland transport is the buffer.  That is a question of how methods
  are written, so the theorem assumes `ShowsItsBuffer` of each hand-written
  one: nothing is said on entering a state, a transition shows the buffer or
  nothing, does not clear what it shows, and clears what it commits without
  showing.  Compose chains need no assumption: `ChainInv`, that their buffer is
  always empty, makes every transition of theirs agree with it.
* **KeySessionProofs / ChainsComposeAsWritten**: the text is what cutting the
  symbols typed at the chain's sequences gives (`Composed`), for every chain that
  is `WellNamed`: its inputs are keysym names, of which `*` is none, and no two of
  its states share an id; without either it is false (Findings).  The property speaks of what has been typed and is not
  inductive.  `ComposeInv` speaks of what may follow: for any symbols `u` typed
  from now on, the cut of `fed \o u` is the text so far and then the cut of
  `state \o u`, the state being the symbols of an unfinished sequence, none of
  whose beginnings is a sequence itself (`Waits`).  That needs what `parse`
  computes from a position on not to depend on what comes before it
  (`ParseShift`, an induction over the rest), and that the machine takes the one
  arc the symbol names (`ChainTakes`).
* **LayoutComposeProofs / LayoutTypes, CreditIsDue**: `Credited` says of one cell
  that a level with a source holds something the source could have written; the
  lemmas show that `Force`, `Nudge` and `Claim` (its displacements by induction over
  the levels), `Replace` and the fills keep it for any function from sources to
  symbols, and `Credits` takes what the recipe's modules offer for that
  function.  `Steps` says that what the step counter points at is there.
* **LayoutComposeProofs / FillsAdd, PoliteKeeps**: action properties from the
  same lemmas, each step looked at per key.
* **LayoutComposeProofs / HighestRankWins**: `InOrder` says that every overlay
  applied so far is ahead of every one to come (`Ahead`), and that the rank a
  key has been claimed with is the highest that reached it (`Ranked`); so the
  overlay that should win, once it has been applied, stays.
* **LayoutComposeProofs / CategoryOrderCounts**: `FilledBy(m)` is `Credited` once more,
  for the fillers up to number m; `Settled(m)`, that each of them set what it
  offers or found it set, and not by a later one.  It needs that expanding the
  list of categories and choosing the fillers keep their order (`Extends`).
* **LayoutComposeProofs / GapsHaveReasons**: `Serving` says of every locale done
  so far that what it needs can be typed, or waits, or that no level is free.
  The reports lower-case what they look for and what they find, so the theorem
  assumes that a letter has one lower case (`OneLowerCase`), as every letter of
  `data/locales.yaml` has but the Turkish dotless i.

* **LayoutComposeProofs / AnchoredFirst**: `Anchored` is the property for
  characters in hand, those placed or found without room; a locale that has not
  begun has placed nothing, because no earlier stage writes in its name
  (`Unplaced`).  While it runs, what waits is sorted (`HomedFirst`), and as long
  as a character with a key of its own waits everything placed has one; where it
  is placed, the nearest key was chosen.  The second turn of a locale that is
  named twice places nothing (`SecondTurn`), by `Serving`.

Some of this is induction over data.  The library's induction theorems take an
operator, which the provers here cannot be given, but a set can be: the
modules on sessions, composition and trees begin with `SetInduction`, from the well-foundedness of the naturals
(`WFMin`), and with the intermediate results of a fold, one per element
(`FoldExists`; `FlattenSteps` for trees).  Each fold then has a lemma of its own, with the operator it
folds named (`Sifted`, `Picked`, `Added`, `Expanded` in the composer).

## Only model-checked

Liveness (`FocusReachesIm`, `KeyReturns`, `RoundTripsReturn`, `CloseEndsRuns`,
`StartupEnds`, `NoIdleDaemon`), because it rests on fairness and
ENABLED.

Every safety property of a run is proved.

## Not modelled

The text inside an xkb, Compose or registry entry, the m17n import, the report
texts, the command line, desktop integration and tracing are sequential
conversions or I/O. Within the modelled parts: GVariant and Wayland argument encoding, name
ownership on the bus beyond its claim and loss, surface and popup requests
(the code refuses them), requests the daemon never makes, the answers of the
read-only control socket, two daemons at once, two tree commands at
once (`handleActivate` runs `flexkb activate` in a process of its own), the
commands that only print, what `setxkbmap` and `xkbcomp` load, the second
registry file of a kind (`base.*`, treated as `evdev.*`), the suggestions for a missing letter, log output, warnings and xkb include lines
of a composition. Messages are written whole or not at all. `EncodeRune`'s
unlocked table (`coverage/keysyms.go:178`) is a data race on a Go map, whose
outcome is a crash or a missed lookup; composition is modelled as one
handler's.

## Plan

What is left, in this order:

1. Composition of EngineRouting with V2Bridge for tier 1, so that one focus
   change reaches both tables and a key declined by the bridge is the one the
   engine is asked about.
2. Two processes of the daemon at once, or a daemon and a dry run, over the
   same socket files; the control socket's answers.
3. Two activations at once from the editor server, and the suggestion index of
   `internal/validate`.
4. With each of these, its invariants and their proofs; liveness stays with
   TLC.
