# A verification model of go-docker-testsuite

go-docker-testsuite runs real services in docker containers for the length of
a Go test. Its promise to a test is short: when a call returns nil the service
is there, and when Close returns nil nothing is left. Between the two are a
daemon, a network, deadlines and other tests. This directory models the
library against all of them in TLA+ and checks it with TLC. With TLAPS it proves
every safety and action property of it that TLC checks, for any number of
containers, callers, ports, lines or packages, and that a handle implements an
abstract specification of the promise. Liveness is left to TLC.

## The system

| component | source | state | operations |
| --- | --- | --- | --- |
| container handle | `container.go` | `containerID`, `networkID` | `Run`, `Close`, `AwaitOutput`, `NetworkAttach`, `GetOutput`, `URL`, `Ping` |
| image resolution | `container.go` `pullImage` | none; reads and fills the daemon's image store | list, pull |
| group and hooks | `group.go`, `group_hooks.go`, `application.go` | `networkID`, the applications in order | `Run`, `Close`, `runHooks` |
| application constructors | `applications/*/*.go` | one handle each | `New`/`NewWithImage`, `Close`, helpers |
| k3s kubeconfig file | `applications/k3s/k3s.go` | `kubeconfigPath`, a file on disk | `rewriteKubeconfig`, `Close` |
| port bindings | `ports.go`, `node.go`, `container_info.go` | `portBindings`, `portAliases` | `PortDNAT`, `RandomPort`, `OneToOneRandomPort`, `URL`, `GetExternalPortMapping` |
| CI splitter | `tools/cmd/split_test_groups` | none | `main`, `collapse`, `commonParent` |
| matchers | `matcher.go` | none | predicates on a line of a log |
| service helpers | `applications/{mysql,postgres,scylladb,rabbitmq,vault}` | a session (ScyllaDB) | `CreateDB`, `DropDB`, `CreateKeyspace`, `DropKeyspace`, `CreateVHost`, `CreateUser`, `SetPermissions`, `CreateEngine`, `RemoveEngine`, `GetRootToken` |
| environment, host options, images, random, ptr, version suites | the other files | none | pure functions, constants and tests |

How they interact. An application's constructor makes a port binding (which
asks the kernel for a port), a handle, and calls `Run`, `AwaitOutput` and, if
it fails, `Close` on it. A group calls `NetworkAttach`, `Run` and `Close` on
the handles of its applications, and hooks call the handle too. A handle talks
to the daemon, one request after another, each under the context of the call.
The daemon, the registry, the host's ports and the programs in the containers
are shared with everybody else.

What is hard here:

- every call is several requests, and its context may end between any two, or
  during one, in which case the request may have taken effect;
- a failure in the middle leaves something behind, and `Close` has to cope
  with whatever that is, perhaps under a context that has expired;
- `Run` and `Close` may be repeated, after a success or a failure;
- the output of a program races with its exit and with the deadline;
- a port is chosen long before it is bound, and its number outlives the
  container;
- the log is two streams in frames, and the scanner takes frames for text;
- the stop timeout is the rest of a deadline, in whole seconds;
- helpers are called by several tests at once, and their answers get lost;
- retry loops end in a success or in a failure, and a ping or a copy without a
  timeout may not end at all;
- a matcher may have wildcards, which stand for anything in a line of the
  scanner.

What makes each component correct:

- handle: a nil of `Close` leaves nothing, a nil of `Run` means running on
  the right network, a nil of `AwaitOutput` is final, calls come back, and a
  running program is stopped before it is removed;
- images: a fixed tag is pulled only if missing, a pull brings what the
  registry has;
- group: in order, in reverse, everything tried, every error kept, nothing
  left, nothing ever off the network;
- constructors: success has a container that was started and heard, failure
  leaves none, the loops stop soon after their context, and they come back,
  unless the container freezes where the code has no timeout;
- k3s: a Close with nil has removed the file and the container;
- ports: the address of a port leads to the service behind it;
- matchers: a line that was written is seen, and the text a matcher asks for
  was written;
- helpers: nil means done, in one's own service, under the very name, and for
  one caller only; they come back;
- splitter: every package is tested once.

## The modules

| module | models | composes |
| --- | --- | --- |
| `Container` | handle and image resolution against the daemon | |
| `ContainerProofs` | theorems about `Container` | extends it |
| `Lease` | the promise of a handle, abstractly | `Container` instantiates it |
| `ContainerImplements` | the proof that `Container` implements `Lease` | extends `ContainerProofs` |
| `LogStream` | the log, its readers, the matchers | |
| `LogStreamProofs` | theorems about `LogStream` | extends it |
| `StopWindow` | the time `Close` has and gives | |
| `StopWindowProofs` | theorems about `StopWindow` | extends it |
| `Group` | group and hooks | extends `Container`: its steps are steps of the handles |
| `GroupProofs` | theorems about `Group` | extends it and `ContainerImplements` |
| `Application` | the ten constructors | extends `Container` |
| `K3s` | Close of an application, and the file of k3s | extends `Application` |
| `ApplicationProofs` | theorems about `Application` and `K3s` | extends `K3s` and `ContainerImplements` |
| `Ports` | bindings, allocators, other users of the ports | |
| `Services` | the helpers and the services behind them | extends `Ports`: an address is a port somebody holds |
| `ServicesProofs` | theorems about `Ports` and `Services` | extends `Services` |
| `SplitGroups` | the splitter | |
| `SplitGroupsProofs` | theorems about `SplitGroups` | extends it |
| `MC*` | the instances TLC checks | |

### Container

The fields of a handle are the functions `containerID` and `networkID`. A
running call is `op`, the request it makes next `pc`, the context it was given
`arg`, and its result `err`. Each request to the daemon is an action:

| action | code |
| --- | --- |
| `NetworkAttach` | `NetworkAttach` |
| `RunCall`, `ListImages`, `PullImage`, `Create`, `Connect`, `Start` | `Run`, with `pullImage` and `isImagePulled` |
| `CloseCall`, `Stop`, `Remove` | `Close` |
| `AwaitCall`, `OpenLogs`, `AwaitOutput`, `LogSevered` | `AwaitOutput` |

A request has three ends: it takes effect and is answered, it fails without
effect, or it takes effect and the answer is lost. The last two are possible
once the context of the call is done, and always when `Faults` has `"refused"`
or `"lost"`. `"inband"` lets a registry report an error inside the stream of a
pull, `"severed"` lets the connection of a log break or a line exceed the
buffer of the scanner.

A context has a deadline (none, ahead, past) and may be cancelled. `grace` is
the deadline of the fresh context `Close` takes when the caller's has expired.

The daemon is external: `inst` (an instance is absent, created, running,
exited, removed), `attached`, `net`, `store` (an image is absent, what the
registry has, or older) and `ready` (the log has a line the awaited matcher
accepts). It behaves as the calls rely on: a created instance starts if its
network exists; a stop of one that does not run is no error; a removal takes
anything that exists; a network with a running instance on it is not removed.

Abstracted: an image reference is a model value, of which the constants say
whether it ends in `:latest`, and whether the daemon lists it in the very
words it was asked for (`Verbatim`); the log is `ready`; one matcher is
awaited. A broken log (`LogSevered`) is an error, or a nil if the rest of a line
that the scanner hands out first matches; `NetworkAttach` stores any ID, of a
network that exists or not. The history variables `lost` and `superseded` name
the two ways a handle can lose an instance it made.

### Lease, and how Container implements it

`Lease` says what a test relies on, in a page: a holder acquires a resource,
makes it serve, and releases it; it releases only what does not serve; it says
"serving" only in the step that makes it so and "released" only in the step
that releases; and a resource it loses track of has leaked, which happens when
it never hears of it (`Leak`) or acquires another (`Acquire`). There are no
requests, contexts or failures in it.

`Container` implements it under this mapping (`Promise`, `ImplementsLease`):

| lease | handle and daemon |
| --- | --- |
| `own[h]` | `containerID` |
| `phase[r]` | `inst`: created is held, running is serving, exited is finished, removed is released |
| `told[h]` | `err` is nil and no call runs: serving after `Run`, released after `Close` |
| `leaked` | what `lost` and `superseded` name, as long as the daemon holds it |

A request that fails is a stutter; one that is lost is the same step of the
lease as one that succeeds, without the report.

### LogStream

A container without a terminal has its log sent as frames of two streams, a
header of eight bytes before each. `Write` appends one frame: a line, or as
much of it as a frame takes, so lines of `stdout` and `stderr` interleave.
The last byte of a header is the length of the frame, and the header of a
frame of ten bytes ends in a newline, so `Header` splits there. The readers scan
from the start: `ScanAwait` is the loop of `AwaitOutput`, which follows the log,
`ScanGet` that of `GetOutput`, which gets what there is when it asks, `Stop`
the ends of the scanner. `GetOutput` is called with two matchers, one that
accepts every line and the one of `AwaitOutput`, and collects a line once for
each that accepts it (`Accepting`, `Copies`). Text is a sequence of symbols:
of `Pieces`, which programs write, of newlines, and of headers. The awaited
text is two pieces in the runs, so that it can be cut in two. A regular
expression `p` with neither anchor nor wildcard behaves as `"substring"`;
`"prefix"` is `^p`, `"suffix"` `p$`, `"capture"` `p(.+)$`, the form of the
expression for the root token of vault, and `"gap"` `p.*q`. A wildcard takes
any symbol but a newline, headers too. `Break` is a connection that breaks:
`bufio.Scanner` hands out what has come of a line before it tells of the error,
and `AwaitOutput` returns nil if that matches. The history variables `frames`,
`said`, `hit` and `ends` record what was written, and where the lines that were
accepted lie.

`Container` abstracts this module to `ready`, `Matched`, `Ended`,
`Interrupted` and `LogSevered`: the ways a scan ends here are those there.

### StopWindow

Time is counted in ticks, `Second` to a second. `CloseCall` is the first look
at the clock, `SetTimeout` the second, `Signal`, `Ends` and `Kill` what the
daemon and the program do, `StopAnswers`, `Remove` and `Fail` the rest of
`Close`. `Fail` has three reasons, which `why` records: the deadline passed or
the caller cancelled (`Interrupted`), or the daemon refused the stop or the
removal (`Refused`). The fresh context Close takes for an expired one is
cancelled by nobody (`Cancel`). Each step of the daemon, and of the scheduler,
takes at most `Lag`: `Tick` does not let the clock run past what is due. The kill waits for its
timeout, and the program for its `work`; a context that ends stops the
request, not the daemon, which finishes a stop it began though Close has failed.

### Group

`gpc` is where the group's call is, `idx` the application it works on, `hook`
how many of its hooks ran. `Run` is `CreateNetwork`, then for each application
`AttachApp`, BeforeRun hooks, `RunApp`, `AppRan`, AfterRun hooks; the first
error ends it. `Close` is, from the last application to the first, BeforeClose
hooks, `CloseApp`, `AppClosed`, AfterClose hooks, and then `RemoveNetwork`;
errors are collected in `failed`. A hook succeeds or fails; one of AfterRun
awaits the output of its container, as the examples of the repository do.
The name of a network is drawn once for a group, so a second network is
refused while the first exists.

### Application and K3s

The constructors are one procedure: `New` (Run), `Ran`, `Awaited`, `Probe`,
and on any error `Fail`, the deferred function that closes the handle under a
context of its own with 30 seconds. They differ in what the record of their
kind says: memcache does not await a line, and the probe is one of these.

| probe | steps (`at`) | how it ends |
| --- | --- | --- |
| none | | succeeds |
| `Ping` (memcache) | address, then select, waiting, attempt | the 30th failure is a failure |
| `Connects` (PostgreSQL) | address, then attempt, select, waiting | the 30th failure is a success |
| `DBPing` (MySQL) | address, then attempt | the 30th failure is a success; a ping has neither context nor timeout |
| `OpenSession` (ScyllaDB) | address, attempt | one session, with a timeout |
| `ReadFile`, `Rewrite` (k3s) | exec, attach, copy, inspect, address, mkdir, write | each may fail; the copy ends when the command does |

The select between the context and a timer is three actions: `Select` finds the
context done already, `WaitCut` has it end while the timer runs, and the
actions at `waiting` are the timer, which may win when both are ready. `late`
counts the attempts that were begun after the context had ended. `accepting`
says which services would answer; an attempt may fail all the same. A `frozen`
container runs and neither answers nor ends anything (`Hangs`).

`K3s` adds the file. Its constructor makes a directory and then writes the
file, and may fail before, between and in the writing; what is then on disk has
no path and is removed by nobody, which is what the code does. Close removes the file
first and keeps the path. The other applications have no file and their Close
is that of the handle, which is what Close of k3s does with an empty path.

### Ports

`PortDNAT` takes any port nobody holds and holds it no longer; `OtherTakes`
may take it; `StartPorts` binds all or refuses. `URL` and
`GetExternalPortMapping` are functions of the bindings. A UDP port always
panics (`PortDNATUDP`), since `net.Listen` knows no UDP. A container that stops,
by itself or by `Close`, lets go of its ports (`StopPorts`); the bindings keep
the numbers.

### Services

`HelperCall` checks the name and looks up the address; then, by application,
`Connect` (the ping of `database/sql`, the connect of `pgx`) or `Token` (vault
reads its log) and `Request`. `Behind` is whoever holds the port by then: the
service, nobody, or somebody else's service of the same kind, which knows the
default passwords but not the token of vault. A request is executed and
answered, executed and its answer lost, or not executed. `HeedsCtx` says which
requests have a context: the ping of MySQL and everything of ScyllaDB have
none. `CloseSession` is the first half of `Close` of ScyllaDB. A name is the
length of it, in bytes, since one longer than the service takes is cut to one
it has. The services are external: a database is created once, `PUT` is
repeatable, permissions need their user and virtual host (`Refused`). They may
also refuse for reasons of their own (`Declines`): PostgreSQL drops no database
with open sessions, Vault makes no engine of a type it does not know. A helper
passes either on as an error, `"refused"` here.

### SplitGroups

A directory is the sequence of its `Elements`. One step computes the matrix, a
set of groups, each a name and the patterns of its packages: `coreGroup`, and
an `appGroup` for each application that has packages. The program's lists are
sorted, and sets here; two groups may have one name. `Matches` is go test's
reading of a pattern, which is external.

## The runs

| run | instance | shows |
| --- | --- | --- |
| `container` | one handle, two instances, two contexts, one network, all faults, image `:latest` | safety of the handle; `Lease` is implemented; the inductive invariant |
| `group` | two applications, a hook each, daemon faults, fair | order, reverse order, everything tried; the calls of the group and of the handles come back; a fixed tag keeps its image |
| `group_again` | one application, two instances, two networks | a group that is run and closed repeatedly: what a nil of Close leaves, and that nothing runs off the network |
| `applications` | one application of each of the ten kinds, all faults, fair | what a constructor leaves or has, how long its loop goes on (`OneLateAttempt`), where it may hang, and what Close leaves |
| `logstream` | four lines on two streams, three frames, five matchers, a connection that may break, fair | what the readers see and miss |
| `stop_window` | deadlines from none to 16 ticks, programs of seven lengths, six ticks to a second, a caller that may cancel, a daemon that may refuse, fair | when Close runs out of time, when it kills, that it comes back |
| `ports` | three host ports, two ports asked for, three calls of `PortDNAT`, both allocators | addresses lead to the service |
| `services` | two callers, five applications, one port, refusals of every kind, fair | what a nil of a helper means, and that helpers come back |
| `split` | every subset of thirteen directories | no package twice, in a regular layout every one once |

The bounds and why they are enough:

- `Instances` bounds how often a handle runs. Two reach everything that
  depends on an earlier instance: a superseded ID, a stale result, a Run
  after a Close, and after a lost create. `superseded` and `lost` treat a
  third instance as they treat a second.
- `Networks` bounds how often a group runs, for the same reason.
- `Ctxs`: a context per call is enough to tell a call's own from an earlier
  one; two let one expire while the other does not.
- `MaxTries` bounds the rounds of the retry loops (30 in the code). The loops
  tell only first, further and last round apart, and a loop that ignored its
  context would begin a second late attempt in a third round: 3 has them all.
- `MaxCalls` bounds `PortDNAT`: three calls ask for two ports and for one of
  them again. In `services` one call makes the one port.
- `MaxFrames`, `Chunk`, `MaxToken`: three frames of four symbols make a line
  of two frames with a frame of the other stream between them, and a line of
  the scanner of two frames that is longer than its eight symbols. The buffer
  of the scanner is 64 KiB and a frame is up to 16 KiB: what matters is that a
  line can take several frames, and frames without an end more than a buffer.
  One of the lines ends its first frame with the awaited text, so that a
  wildcard behind it takes a header.
- `Second`, `DefaultStop`, `Lag`, `MaxNow`: six ticks to a second leave more
  than four steps of `Lag` in some truncated deadlines and less in others;
  the default is two seconds instead of sixty, the longest deadline nearly
  three, and the clock stops after everything is over. The theorems have no
  such bounds.
- The names of `services` are empty, at the service's limit and one byte
  beyond, which are the cases the checks of names can get wrong; two callers
  are what it takes to create at the same time. The real limits are used.
- `Dirs` has for each clause of the splitter a directory that meets it and one
  that does not.

With one handle its instances and its contexts are interchangeable, and so are
the networks of a group, which `container`, `group_again` and `ports` use as
symmetry; the runs with liveness use none.

Deadlock is checked in the runs of handles and groups. A constructor that
failed, a log that was read to its end, a Close that came back, an application
whose callers have no more names to ask for and the splitter have ended, so
their configurations switch the check off.

### Fairness

- `WF(ApiStep(c))`: the daemon answers every request, or the client gives up
  on it, which it does when the context of the request ends. For a call under
  no deadline this is an assumption about the daemon: the library sets no
  timeout of its own but the one of Close. It is never assumed that an answer
  is a success, nor that a log ends.
- `WF(DeadlinePasses(x))`: time passes.
- `WF(GroupStep)`, `WF(K3sConstructor(c))`, `WF(ReaderStep(r))`,
  `WF(HelperStep(k))`: the library's own code runs on; the sleeps of its loops
  end. A helper whose service hangs, and a constructor at a ping or a copy
  without a timeout whose container is frozen, have no step to take unless
  their context or a timeout ends, so nothing is assumed of a service.
- `WF(CloseStep \/ DaemonStep \/ Tick)` in `StopWindow`: the clock runs and
  what is due happens. Nobody has to cancel or to refuse.

Nothing else is fair. No program need exit or write its line, none need freeze,
no connection need break, no registry need publish, no caller need call, no
window need end. This is why `GroupReturns` asks for a deadline, and
`CallsReturn` for one where a line is awaited. `ConstructorReturns` asks for a
deadline or a cancelled context, and excepts the two places where the code
waits for the container alone (`WaitsOnContainer`): the ping of MySQL
(`mysql.go:119`) and the copy of k3s (`k3s.go:234`). `HelperReturns` excepts the
ping of `CreateDB` and `DropDB` for the same reason.

### Where the code does not do what a text says

Each of these runs ends in a violation of what a comment states.

| run | text | what happens |
| --- | --- | --- |
| `await_nil` | `container.go:124` | a program that exits without the line ends `AwaitOutput` with nil: the end of the log is no error of the scanner |
| `exact` | `matcher.go:29` | the line `AwaitOutput` hands to an exact matcher begins with the header of its frame, so the line the program wrote is not exactly matched and is read past; so for a regular expression anchored with `^`. Only a frame of ten bytes, whose header ends in a newline, leaves its line alone |
| `k3s_retry` | `k3s.go:135` | a second Close fails on the file the first one removed, and the container runs on |

Met while modelling and not given a run, most because no interleaving is
needed to see them:

- `Close` replaces a context only if its deadline has passed at the call; one
  that passes before the removal prevents it, where `container.go:270` says a
  test timeout does not. `EnoughTimeRemoves` bounds when that may happen. A
  context that is cancelled, with a deadline or without, is never replaced.
- The daemon lists `index.docker.io/library/redis:x` as `redis:x`, so the
  listing never has the references of `images.go`, and every `Run` pulls
  (`SPEC.md:69`: fixed tags are only pulled if missing). `Verbatim` is the set
  of references that are listed as they are written.
- After 30 failed attempts the constructors of PostgreSQL and MySQL succeed
  (`postgres.go:110`).
- The constructor, `CreateDB` and `DropDB` of MySQL ping without the context
  they are given, and the copy in `execInContainer` does not heed it.
- A root token that a frame of the other stream cuts in two is returned with
  that frame in it (`vault.go:17`): the wildcard of an expression takes it.
- `PortDNAT` panics for `ProtoUDP` (`node.go:55`).
- BeforeRun hooks run before the container is created (`group.go:109`, where
  `SPEC.md:74-80` has them after).
- An error inside the stream of a pull is discarded with it
  (`container.go:319`); the create then uses what image there is, or fails.
- `collapse` replaces deep directories that are no version packages by a
  pattern that does not match them (`main.go:183`).
- The temporary directory of the kubeconfig is never removed (`k3s.go:190`), nor
  what a failed write leaves in it.

## The proofs

Every safety property and every action property of a passing run is a theorem,
for every value of the constants that the assumption of its module allows. The
assumptions are named where the constants are declared, and TLC evaluates them
on the instances. Apart from liveness nothing that a passing run checks rests
on its bounds.

Each inductive invariant is written in the module it is about, as a conjunction
of named parts, and TLC checked it on the instance of the module's run before
it was proved; `IInv` is also a property of a run.

### Container

`ContainerProofs` proves, for any sets of handles, instances, networks, images
and contexts and any faults, from `ContainerAssumption` alone (the empty IDs
are none of the others, the functions have their types, the faults are known):

| theorem | states |
| --- | --- |
| `TypeCorrect` | `Spec => []TypeOK` |
| `Inductive` | `Spec => []IInv` |
| `CloseIsComplete` | `Spec => []CloseLeavesNothing` |
| `AwaitIsFinal` | `Spec => []AwaitNilIsFinal` |
| `ExpiredCloseWindow` | `Spec => []ExpiredCloseHasWindow` |
| `RunServes` | `Spec => RunNilServes` |
| `RemovalIsGraceful` | `Spec => GracefulRemoval` |
| `Implements` (in `ContainerImplements`) | `Spec => ImplementsLease` |

`CloseLeavesNothing` is not inductive: it says nothing of the time before
Close returns. `IInv` adds what the code relies on between two requests.

- `OwnID`: the ID of a handle names an instance made for it. Without it a
  `Remove` could take another handle's instance.
- `NothingUntracked`: what the daemon holds is a handle's ID, or was lost, or
  superseded. It is what makes `CloseLeavesNothing` follow, with `Outcome`,
  which says that after a Close with nil the instance of the ID is gone.
- `Program`: a request belongs to its call. `Progress`: what earlier requests
  of a call have achieved, for example that the instance is created and on the
  handle's network when it is started, and does not run when it is removed.
- `Fresh`: an instance that does not exist has no network, so one that is
  started without a connect is on none.

One lemma per action shows that it keeps `IInv`; `StepKeeps` joins them. The
two action properties follow from `IInv` before the step.
No run checks `GracefulRemoval` or, by itself, `SInv`: the first is what
`ImplementsLease` asks of a release, which the run `container` does check, and
the second has the two properties of `stop_window` as parts.

`Implements` is proved action by action under `IInv`. `ToldStays` and
`ToldChanges` follow what a call has told, `PhaseChanges` what a request does
to the one instance it names. The step that matters in each action: the ID a
`Create` overwrites leaks exactly what `superseded` gains; a `Start` makes a
held instance serve, since `Progress` says it was created; a `Remove` releases
what does not serve, since `Progress` says a stop came before; a nil of `Close`
without an ID releases nothing.

### StopWindow

`StopWindowProofs` proves, for any length of a second, default, delay and
clock, with any deadlines and programs, from `StopWindowAssumption` alone:

| theorem | states |
| --- | --- |
| `StopWindowTypes` | `Spec => []StopWindowTypeOK` |
| `StopWindowInductive` | `Spec => []SInv` |
| `EnoughTimeIsEnough` | `Spec => []EnoughTimeRemoves` |
| `KilledIsLate` | `Spec => []KilledOnlyAtTheEnd` |

`SInv` adds to the two properties the order of the requests, what the
truncation leaves out (`Truncated`, with `WholeSecondsBounds`), that a killed
program had its timeout (`KilledLate`), and `Punctual`: the clock is never
further past a step than the delay allows, step after step, which adds up to
the four delays of `EnoughTimeRemoves`. The theorem is about a Close that fails
for want of time; one that was cancelled, or whose stop or removal the daemon
refused, may fail at any moment.

### Group

`GroupProofs` proves, for any number of applications with any number of hooks
each, from `GroupAssumption` (the applications are different handles) and
`ContainerAssumption`:

| theorem | states |
| --- | --- |
| `GroupTypeCorrect` | `GroupSpec => []GroupTypeOK` |
| `GroupKeepsLeases` | `GroupSpec => ImplementsLease` |
| `GroupInductive` | `GroupSpec => []Known` |
| `GroupStartsInOrder` | `GroupSpec => []StartsInOrder` |
| `GroupClosesAll` | `GroupSpec => []ClosesAllInReverse` |
| `GroupRunsAttached` | `GroupSpec => []NeverRunsDetached` |
| `GroupCloseIsComplete` | `GroupSpec => []GroupCloseLeavesNothing` |
| `GroupKeepsFixedTags` | `GroupSpec => FixedTagStable` |

The lemma `GroupUsesContainers`, `GroupSpec => Spec`, brings in the theorems of
a handle; it says no more than that `Group` is written as a composition of
`Container`. `Known` is their invariant and `GInv`, which adds what the
group relies on:

- `Stage`: where the group is agrees with its call, and a Close that has not
  failed has not forgotten an error. `Driven`: only the handle it works on is
  busy, with the call it was given, and a handle outside the group never has
  an instance.
- `Networked`: the daemon has no network but the one the group knows and those
  it never heard of, and what is started was told the one it knows. With
  `Progress` of `IInv` this gives `NeverRunsDetached`: a removal of the network
  under a running instance is refused, and one that succeeds finds none.
- `RunsUp`, `ClosesDown`: what Run or Close has done for the application it
  works on. Without them the two orders are not inductive: they speak of the
  applications before and after it.
- `PullsMissing`: an image about to be pulled is missing. Only one handle works
  at a time, so nothing comes between the listing and the pull. Handles that
  were run side by side could pull an image twice, which is why
  `FixedTagStable` is a theorem about a group and not about `Container`. It is
  about the tags the daemon lists as they are written (`Verbatim \ Latest`).

`GroupCloseLeavesNothing` follows from `ClosesAllInReverse`, `NothingUntracked`
and `Networked`: every handle was closed with nil, what the daemon has is a
handle's, lost or superseded, and the one network the group knows is removed.
It excepts superseded instances, since they do occur: a start fails, the stop
of the Close after it is refused, and a Run after that makes a new instance
with a new ID; the Close after that knows nothing of the first.

### Application and K3s

`ApplicationProofs` proves, for any number of applications of any kinds, any
number of attempts and any faults, from `ApplicationAssumption` (each clean-up
has a context of its own) and `ContainerAssumption`:

| theorem | states |
| --- | --- |
| `ApplicationTypeCorrect` | `ApplicationSpec => []ApplicationTypeOK` |
| `ApplicationKeepsLease` | `ApplicationSpec => ImplementsLease` |
| `ApplicationInductive` | `ApplicationSpec => []Known` |
| `FailureIsClean` | `ApplicationSpec => []FailedLeavesNothing` |
| `SuccessIsStarted` | `ApplicationSpec => []BuiltHoldsContainer` |
| `AtMostOneLate` | `ApplicationSpec => []OneLateAttempt` |
| `K3sIsApplication` | `K3sSpec => ApplicationSpec` |
| `K3sTypeCorrect` | `K3sSpec => []K3sTypeOK` |
| `K3sCloseIsComplete` | `K3sSpec => []K3sCloseLeavesNothing` |

`ApplicationUsesContainers` again brings in the theorems of a handle, and
`K3sIsApplication` those of an application for k3s. `AInv` adds:

- `Duty`: where a constructor is agrees with the call its handle runs or ran.
- `RunOnce`: a constructor runs its handle once, so that nothing is ever
  superseded, and what is left after a failure can only be a lost create.
- `Keeps`: an instance the constructor knows of stays in the daemon, and is
  what Run and AwaitOutput said of it.
- `OwnWindow`: nobody cancels the context of the clean-up, and its time begins
  with the clean-up. So a clean-up fails only when that time is over, or in the
  daemon (`CleanedUpWell`), whatever became of the caller's context.

`OneLateAttempt` rests on an invariant of its own, `LateInv`: a loop that still
waits, or has yet to find its address, has made no late attempt, and one that
has made one has a context that is done, which its next select finds.

For k3s, `KInv` says that a constructor that is done has written the file
(`FileWritten`), and that a Close that got past the file waits for, or passed
on, the result of the container's (`FileFirst`).

### Ports and Services

`ServicesProofs` proves, for any host ports, ports of containers and calls of
`PortDNAT`, and any number of callers, from `PortsAssumption` (the numbers of
the host and of the container are told apart) and `ServicesAssumption` (the
service has a port):

| theorem | states |
| --- | --- |
| `PortsTypeCorrect` | `Spec => []PortsTypeOK` |
| `PortsInductive` | `Spec => []PortsInv` |
| `PortsReachable` | `Spec => []StartedPortsReachable` |
| `ServicesUsePorts` | `ServicesSpec => Spec`, with the allocator `RandomPort` |
| `ServicesTypeCorrect` | `ServicesSpec => []ServicesTypeOK` |
| `ServicesInductive` | `ServicesSpec => []ServicesInv` |
| `CreatesOnce` | `ServicesSpec => []CreatedOnce` |
| `NilFromOwnService` | `ServicesSpec => NilIsOwn` |
| `ServicesTellTheTruth` | `ServicesSpec => AnswersAreTrue` |

- `PortsInv` says what the tables know of the calls: under `RandomPort` a port
  has a binding under its own number for each call (`KeyedByPort`); under
  `OneToOneRandomPort` a binding leads from a host port to itself, and two
  aliases to one host port mean two bindings of it (`KeyedByHost`). Then a
  start that binds every host port (`BoundOnce`) shows that no two ports have
  one address. It is the start that makes it so: until then two calls may well
  have been given the same port.
- `NilIsOwn` is `PortsReachable` seen by a caller: while the container runs,
  whoever answers at its address is its own service.
- `ServicesInv`: `Vetted` says that a call at a request still has the name that
  was validated, `Grounded` that permissions have their user and virtual host,
  and `MadeIsThere` that the object one caller was told it made is there. That
  is why a second create of it is refused, and `CreatedOnce` inductive.
- `AnswersAreTrue` says that a nil from the own service is true. Of a refusal
  it says only that it is never for the length of a name: services refuse for
  reasons of their own, and a refusal tells nothing of what they hold.

### LogStream

`LogStreamProofs` proves, for any lines, any text to await, any length of a
frame and of the scanner's buffer and any number of frames, from
`LogStreamAssumption` (a line ends in its only newline; headers and newlines
are no text; the awaited text has neither):

| theorem | states |
| --- | --- |
| `LogTypeCorrect` | `Spec => []LogTypeOK` |
| `LogInductive` | `Spec => []LogInv` |
| `SubstringIsSeen` | `Spec => []SubstringNeverMissed` |
| `AcceptedWasSaid` | `Spec => []MatchedWasSaid` |
| `AwaitedFirst` | `Spec => []AwaitedIsFirst` |

`Framed` is the shape of the log: each frame's text is a piece of one line and
lies behind a header, and between two texts there is nothing but headers.
`Between` and `Begins` say that a reader stands at the end of a line, and where
the line it takes next begins.

- `MatchedWasSaid`: whatever a matcher accepts has its literal texts
  (`Literals`) in the line, or the rest of a line, it was given. Such a text has
  no header in it, and the texts of two frames always have one between them, so
  it lies in one frame, which is a piece of one line. Of what a wildcard stands
  for nothing is claimed: it may be of two streams.
- `SubstringNeverMissed` is inductive together with `LogInv`: only the last
  symbol of a frame can be a newline, so a frame whose end is in a line of the
  scanner lies in that line with all the text it has but the newline, whatever
  the line begins with.
- `AwaitedIsFirst`: the log of `GetOutput` begins with the log `AwaitOutput`
  has read. `Awaited` says that no line before the accepted one was acceptable,
  and `Got` that the lines collected are the lines of the log, each of them, in
  order. A line is determined by where it ends (`BeginsOnce`), so the two
  readers mean the same one.

### SplitGroups

`SplitGroupsProofs` proves, for any layouts of any size, from `LayoutAssumption`
(a layout is a finite set of directories):

| theorem | states |
| --- | --- |
| `SplitRunsOnce` | `Spec => []RegularRunsOnce` |
| `SplitRunsNoneTwice` | `Spec => []NoneRunsTwice` |

The argument says which group is a directory's own (`Home`), and that a pattern
of a group matches no directory of another: what a collapsed bucket matches
begins with the two elements its deep directories share, and these name the
application. In a regular layout what the wildcard replaces is what it matches.

### What is only model-checked

- Liveness under fairness is out of the prover's reach: `CallsReturn`,
  `GroupReturns`, `ConstructorReturns`, `WrittenIsSeen`, `StopEnds` and
  `HelperReturns`.
- The three runs that end in a violation have nothing to prove: a
  counterexample is a fact of one instance.
- What is external, the daemon, the registry, the services and the programs, is
  assumed in the proofs as it is modelled.

## Not modelled

- Environment, host options, images, random names, the version suites: pure
  functions, constants or tests. The one callback of an environment that
  matters, the port kafka listens on, is `ListensOn` in `Ports`. `Ping` changes
  nothing.
- What a caller does with a client it is given (`GetRootClient`,
  `ClusterConfig`), and the certificates and temporary directory of k3s.
- The address of the docker host: one value, so that a port is free on the
  host the daemon binds it on. Under a remote `DOCKER_HOST` `RandomPort` asks
  the wrong host, which is then as if `OtherTakes` had come between.
- The characters of a name: a name outside the allowed ones is refused like
  one of a wrong length, before any request.

## Plan

Done, in this order because the handle carries everything else: `Container`
and its proofs, `Group`, `Application`, `K3s`, `Ports`, `SplitGroups`; then
`Lease` and its implementation, `LogStream`, `StopWindow` with its proofs, and
`Services`.

Then, for every safety and action property, its proof: `ContainerProofs` and
`ContainerImplements`, `StopWindowProofs`, `GroupProofs`, `ApplicationProofs`,
`ServicesProofs`, `SplitGroupsProofs`, `LogStreamProofs`.

Next:

1. An abstract specification of what a group promises, and that `Group`
   implements it; so far the group's promise is four properties.
2. That the scan of `LogStream` implements the outcomes `Container` abstracts
   it to (`ready`, `Matched`, `Ended`, `Interrupted`), now argued in words.
3. What is said of `Lease` alone, from its own specification, so that a reader
   can use it without reading `Container`.
