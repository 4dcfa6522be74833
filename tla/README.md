# A TLA+ verification of dawos-agent

dawos-agent is a FastAPI process on a PPPoE router (BNG).  It edits the
configuration of accel-ppp, drives the daemon with `accel-cmd` and `systemctl`,
drives the kernel with `nft`, `ip` and `sysctl`, and keeps some state of its own
in memory.  It is **one asyncio process**: the code between two `await`s is
atomic, and every `await` (a child process, a sleep, a send) lets any other
handler or task run.  What is hard to test here is almost always of that shape:
state read before an `await` and used after it, several commands of which one
fails, a task that outlives the request that made it.

Line numbers below are those of `src/dawos_agent/`.

## 1. Inventory

| component | state | operations | hard behaviour | what makes it correct |
|---|---|---|---|---|
| guarded apply (`services/config_manager.py`, `routers/checkpoint.py`, `routers/config_router.py`) | `accel-ppp.conf`, the backup directory, `_checkpoint_path`, `_rollback_task`, `apply_lock` | apply, confirm, rollback, PUT, the rollback task | only apply takes the lock; the timer, confirm, rollback and PUT do not; reload is awaited; names have one-second granularity; a kill loses the timer | applies exclude each other; a confirmed text is never rolled back by an old task; an unconfirmed one is; success means the daemon runs it; no configuration is lost |
| playbooks (`services/playbooks.py`) | none of its own; sets the checkpoint | backup-config, safe-restart, health-check | writes the guarded apply's globals without its lock | as above |
| section editors (`ip_pool`, `pppoe`, `pppoe_config`, `pado_delay`, `connection_limits`) | lines of one section of the file | add, remove, set | success reported when the section is absent; duplicated sections | the other sections are untouched; what was set is read back |
| job scheduler (`services/scheduler.py`) | `_jobs`, `_running_tasks` | add, remove, run, the loops | a job removed, and its name reused, while it executes | no orphan loop; enabled jobs recur; executions count for their own job |
| event bus, WebSocket (`events.py`, `routers/ws.py`) | queues per channel; `subscribed`, two tasks per client | subscribe, unsubscribe, publish, push, clean up | full queues; a task ending while the other runs | an ordered feed without duplicates; no dead queue stays |
| event hooks (`services/event_handler.py`) | hooks, bounded log | add, remove, fire | awaits a command per hook over a snapshot of the hooks | an event runs each hook that listened as it began exactly once, in order |
| egress NAT (`services/nat.py`) | kernel table `accelnat`, `/etc/accel-nat-egress.nft` | set, clear, on, off | chains of commands interleave; exit codes ignored | one SNAT rule; the file restores the table, but for what the code does not prevent |
| firewall, zones, groups, conntrack (`services/firewall.py`, `firewall_groups.py`, `zone_firewall.py`, `conntrack.py`) | kernel tables, sysctls, their files | masquerade, sysctl, save, profiles | partial failure in the middle of a chain; exit codes passed over | what success can be relied on for; what was cut short can be repeated; files follow the kernel |
| network, routes, DNS (`services/network.py`, `dns_forwarding.py`) | links, addresses, resolver files | configure, VLANs, routes, forwarders | partial failure; `set_dns` blocks the loop | as above |
| other daemons (`dhcp.py`, `vrrp.py`, `flow_accounting.py`, `monitoring.py`) | dnsmasq, keepalived, pmacctd, exporters | restart, fail over, enable | reported and unreported failures | as above |
| accel-cmd and sessions (`services/accel.py`, `retry.py`, `session_control.py`, `traffic.py`) | the daemon's sessions | terminate, shape, drop by MAC, reload, with retries | a command that timed out may have worked; interface names change hands | the right subscriber is affected; counts are true |
| service control (`routers/service.py`) | daemon state | soft and hard shutdown, cancel, restart | order of commands | a cancelled shutdown does not happen |
| middleware, audit, metrics, webhooks (`middleware.py`, `app.py`, `webhooks.py`) | ring buffer, counters, pending deliveries | per request | the order of the layers; exceptions that pass them by | changes leave a trace; what was served is in both records; the buffer is the latest of the trail |
| keys and roles (`auth.py`, `rbac.py`), endpoints (`routers/`) | keys file, primary key; a role for each endpoint | resolve, check | 171 endpoints, each with its own role and exceptions | nothing is changed below operator, or by a GET |
| session history (`services/session_history.py`) | SQLite table | snapshot, query, purge | time stamps taken before an `await`; pages that shift | a snapshot is whole or absent; purges are final in the order of the stamps; paging misses nothing |
| the rest (diagnostics, logs, LLDP, NTP, RADIUS, routing, CSV, schemas) | none | one command, parsed | none over time | who may call them (`Endpoints`) |

Interactions: the section editors, PUT, rollback, the playbooks and the guarded
apply all write the same file; the guarded apply, the playbooks and service
control all reload or restart the same daemon; the hooks and the scheduler run
arbitrary commands; the WebSocket handler is the only client of the bus, and
nothing in the source calls `bus.publish` yet.

## 2. Plan

Order of work, the most important behaviour first (stages marked + are done):

1. + `GuardedApply`: configuration, lock, timer, all writers, crashes.  Proofs.
2. + `Scheduler`: jobs as identities, names as references.  Proofs.
3. + `EventFeed` (abstract) and `EventBus`, which implements it.
4. + `NatEgress`: interleaved command chains, persistence, reboots.  Proofs.
5. + `SessionControl`: the daemon's sessions, `with_retry` around commands that may
   have taken effect, terminate, restart, shape, drop by MAC, bulk forms.  Proofs.
   (The shutdown of the daemon and its cancellation are left for stage 7.)
6. + `Endpoints` and `RequestPipeline`: every endpoint with its role and its
   exceptions, and a request through limiter, audit, metrics, authentication and
   handler.  Proofs.
7. + `CommandChains` and `HostServices`: the services that change the host, as chains
   of commands against what their answer promises.  Proofs about any services.
8. + `SectionEditors`: the line editors as folds over the lines.
9. + `EventHooks` and `SessionHistory`.
10. + Proofs of the event bus (with the refinement of `EventFeed`) and of
    `SavedUnlessDrifted`.
11. + Proofs of the event hooks, the session history, the audit buffer, of `FilesFollow`, and
    of the services of `HostServices` being thorough.

12. + Proofs of the section editors and of `RetryHeals`, both of which are inductions over
    a sequence.

Every invariant and action property that a passing run checks is also stated by a theorem;
the liveness properties stay with TLC (see section 5).

Compositions: `GuardedApply` composes the file with every writer of it,
`SectionEditors` says what some of these write; `EventBus` composes the bus with
the handler and refines `EventFeed`; `HostServices` instantiates the constants of
`CommandChains` and runs any two services side by side; `RequestPipeline` takes its
endpoints from `Endpoints`.  `MC_Agent` runs five parts that share no state, each
by itself, in one run.

## 3. The modules and the code

**GuardedApply.** One action per stretch of code between two awaits.
`POST /apply` is `ApplyArrives` (joins the FIFO queue of the lock),
`ApplyWrites` (checkpoint, backup, write, up to the reload) or `ApplyRefused`
(`write_config` raises), `ApplyReloads` (the daemon reads the file; it may do so
more than once, as `with_retry` may repeat the command), and `ApplySucceeds`
(`start_guarded_timer`) or `ApplyFails`.  A configuration text is a model value;
`Malformed` stands for what `write_config` refuses.  A backup is a function from
(kind, second) to a text, so that two copies of one kind in one second really
do share a name.  `_rollback_task` is a reference and the tasks have a state of their
own, so a task that nobody refers to can exist in the model.  `Confirm`, `Rollback`,
`PutConfig`, `Playbook`, the task's `TimerRestores`/`TimerLapses` never look
at the lock.  `StrayReload` is the `accel-cmd` process that remains when a
task is cancelled inside its reload.  `Crash` loses everything in memory, and may
leave the file truncated.  History variables (not in the code): `promise`, the text
that a task was armed to restore, and `superseded`, the applies whose file another
handler has overwritten.

**Scheduler.** A job is an identity, like the Python dictionary it models;
`jobs` maps names to identities and `held` is the local variable of each
`_execute`, which keeps the identity across the await.  `CancelLoop` is
`_stop_loop`; an identity is reused only when nothing refers to it.  `run_count`
is capped at `MaxCount`, where it stays.

**EventBus / EventFeed.** `subscribers` is the bus, `subscribed` the handler's
copy of it.  `sending` is the event between `queue.get()` and the end of
`send_json`.  When one task of a connection is over, the other goes on until
`Cleanup`, the handler's `finally`.  `EventFeed` says what a client may rely on:
events of the channels it asked for, in order, each at most once.  The mapping takes
`wants` from the bus and `feed` from what was received, is being sent and is
queued.  `publish` does not await, so its loop over the subscribers is one step.

**NatEgress.** Each handler has a program counter over the commands of
`_ensure_egress_table`, the element command and `_persist`; every command may
fail, with an error where the code checks the exit code and silently where it does
not.  `tee` truncates the file first, so one that fails or is killed may leave it cut off
(`Torn`), and nothing is restored from that.  `Killed` is the agent dying at any point of a request, with systemd
starting it again: the table stays, and nobody knows what was not yet saved; `Reboot` is the host.
`drift` is a history variable: the latest reason why file and table may differ.

**SessionControl.** A request is a list of items (one, unless it is a bulk
operation) and the answers given so far; each item is a chain of `accel-cmd`
commands, a lookup first for restart, drop and rate limits.  One command is
one call of `run_cmd`: `sent`, `executed` (accel-ppp has done as told, the agent
does not know yet), `backoff` between two attempts.  `TimesOut` is an
error that `is_transient` recognises and may come before or after the
execution; `Refused` is any other.  `Raises` is what the caller makes
of the exception: an error answer for the item, or, for one target of
`drop_by_mac`, nothing.  Interfaces are reused, so `owner` at the time of a command
need not be `owner` at the time of the lookup.  `Matches` is what the
pattern `^name$` matches: user names may contain dots, and a dot matches any
byte, so it is a relation and not the identity, and `ifname_of` may find the
session of another subscriber.  `Named`, which the properties use, has nothing to do with it: the
sessions of the subscriber, the station or the interface that the request names.  Which speed a shaper is set to is left out: it is set or it is not.
`held`, the sessions an item is about that have not ended since it looked, and
`failed` are history variables.

**CommandChains / HostServices.** The host is a set of facts `<<kind, value>>`.  A
command needs some, clashes with some, and clears, drops or adds some; the record also
says what the service does with a zero and with a non-zero exit code: go on, raise,
report `success: False`, skip the next command or be done.  These are the differences
between `_run`, `_run_ok` and the `if rc != 0` of each service, and
`HostServices` has one definition per service.  What a service is to bring about (`holds`, `gone`) is
what its name, its docstrings and its router say, and not what it checks; the goals whose failure it would
not notice are named with it (`Hoping`, `unsure`): the file of `set_sysctl` and of `setup_masquerade`, the
three chains of `create_zone`, the value and the file of `set_conntrack`, what the resolver runs with after
`set_dns`, the file and the running forwarders of `set_forwarders`.  The list is neither longer nor
shorter than the code makes it: `Thorough` says that every other goal is the work of a command whose exit
code is looked at, `Candid` that no goal on the list is.  A request takes one action per
command (`Succeeds`, `Fails`; `LosesAnswer` where `accel-cmd` may take effect and
still be reported as failed), and answers with the last.  `Replay` runs a whole chain in
thought, by a fold of `ReplayStep`, to say what the request would come to on a given host.  `Crash` kills the agent
between or inside commands; `HostMoves` is accel-ppp exiting at the end of a soft shutdown.
`set_dns` waits with `subprocess.run`, so nobody else moves meanwhile (`Turn`).  History
variables: `touched`, what others did to the goals of a request; `alone`, the request
that met nobody; `could`, the requests that would have succeeded undisturbed; `calm`, of the settings that several
commands make together (`Settings`: a kernel or daemon and the files that tell it), those of which no command has
failed, was cut short or came between two of another request.
Seen on the way, and modelled as they are: `save_ruleset` passes `-f` to `tee`, so it never succeeds;
errors of `nft` and `ip` are on stderr, which is not read, so that the texts that should become
404 or 409 never match; the masquerade switches IPv6 forwarding off, since that
is the default of `set_sysctl`; `nf_conntrack_max` is kept in two files by two
services; a reload of dnsmasq is a SIGHUP, which
empties its cache without reading the new forwarders (the router speaks of a restart).

**Endpoints.** One record per handler: method, least role, the exceptions it
turns into a status, the statuses it raises itself, whether it changes anything, and
whether it is exempt from the limiter.  One set per router (or part of a long one).

**RequestPipeline.** `RateLimited` is the outermost layer, `Malformed` the body parser,
`Denied`/`Admitted` the role dependency, `Invalid` the validation, `Changes` the first
change that the handler makes, `Returns` and `Escapes` its end; the layers that wait for
the response, `Counts` and `Audits`, finish in either order.  An exception that
no clause names, and no `except Exception`, passes both of them by and is
answered by the handler of `app.py`.  `Resolve` asks the keys file first, so a
primary key that is listed there has the role listed there.  What follows from the order of
the layers: a 429 is neither audited nor counted, so `RATE_LIMIT_HITS_TOTAL` stays at
zero; a change whose handler ends in an unnamed exception has no trace.

**EventHooks.** `FireBegins` takes the snapshot of `_hooks` (`todo`, the hooks it has still to run);
`HookEnds` is the end of one action, good or bad, and takes the least of `todo`: the hooks are numbered in the
order they were added, which is the order of the dictionary.  They are identities under
names, as in `Scheduler`.

**SessionHistory.** An instant stands for its stamp, and the stamps, all UTC `isoformat`, sort as the instants
do; the cutoff of a purge is a text that nobody parses, so it is any place in their order (`Cutoffs`).
`SnapshotBegins` takes the time, `SnapshotListed` is the answer of
`accel-cmd`, `SnapshotInserted` the one transaction (`executemany` and commit).  The client of
`PagingBegins`/`NextPage` is external: it follows `offset` until a page is short.  (A client that
stops at `total` may miss rows, since the count and the page are two SELECTs.)

**SectionEditors.** A file is a sequence of `<<key, value>>` lines, a header being `<<"[", section>>`.
Each edit is the loop of its service as a fold: the output so far, whether the line is in
the section, and which keys it has got; what is done with one line is an operator of its own
(`AddPoolStep`, `RemovePoolStep`, `RebuildStep`, `SetKeysStep`, `MissingStep`).  A file is read the same
way: `PlacedStep` puts each line into its section, `EntriesStep` collects the values of a key, and
`OthersStep` the lines that an edit is not about.  The edits never await, so one step is one edit.
`set_limits` and `set_pado_delay` start afresh in each section of the name,
`set_pppoe_runtime_config` does not; all of them answer success when the section is missing, and
then nothing has been added.

`MC_*` modules add symmetry sets, the values of constants, the start of a
run and, in `MC_Agent`, the choice of the part that runs.  The definitions named `X_Something` next
to a definition `X` are deliberate faults, used to show that a property can fail.

## 4. The runs

| run | shows |
|---|---|
| `guarded_apply` | 2 applies, 2 tasks, 1 restarter, 2 texts, 2 seconds, 1 crash: safety under every interleaving |
| `guarded_apply_live` | 2 applies, 2 tasks, 1 crash, under fairness: every apply is answered, every task ends |
| `guarded_apply_revert` | **violated**: the documented automatic rollback does not happen |
| `scheduler` | 2 names, 3 jobs, 3 loops, 1 manual run: safety, and that enabled jobs recur |
| `nat_egress` | 2 handlers, 1 customer, 2 addresses, 1 reboot, 1 failed look, an agent killed at any time: how many rules there may be, and the four causes why the file may not restore the table |
| `nat_egress_rule` | **violated**: two overlapping requests leave two SNAT rules |
| `sessions` | 2 requests, 2 subscribers, 2 interfaces, 1 retry, single items: what success means, and who is touched |
| `sessions_live` | 1 request, batches of 2 items, 1 retry, under fairness: every item is answered |
| `sessions_drop` | **violated**: a refused termination is reported as a dropped session |
| `sessions_stranger` | **violated**: a rate limit for one user name shapes the session of another |
| `host_services` | 2 requests to any service that changes the host, with any of its arguments, on a bare or a furnished host: what success can be relied on for, what may be repeated, when files and what they tell may part |
| `agent` | requests: 2 callers, every class of endpoint, 4 keys, a buffer of 1; hooks: 2 names, 2 events, 2 fires, 3 hooks, a log of 1; bus: 2 clients, 2 channels, queues of 2, 3 events, the refinement of `EventFeed`; history: 2 snapshots, 2 users, pages of 1, 3 instants; editors: 5 files, 2 edits |

*The bounds.*  Two applies are enough for one to hold the lock and one to wait, and
two tasks for a new one to replace an old one; an identity that is done is
reused.  Two texts tell "mine" from "somebody else's".  Two seconds let copies
collide and not collide.  Three jobs and loops let a name be reused while the old
job is still held by a manual run and the other name is in use.  Queues of two
with three events overflow.  One crash or reboot at any point covers recovery, since
nothing survives a crash but the disk.  Two interfaces and two
subscribers let a session end and its interface go to the other, or one subscriber
have two sessions; one retry separates the first, the repeated and the last attempt;
a batch of two has an item after a failed one.  In `host_services` two requests are a pair of an overtaker and an overtaken; the constraint `Related` leaves
out the pairs whose commands have no kind of fact in common, which cannot tell of each other.
In `agent`, `Class` forgets what the way of a request does not depend on (name, refused
statuses, which mutating method), so a class stands for all endpoints like it (`ApiAssumption` has TLC evaluate the assumption on endpoints for every endpoint as it is); a buffer and a
log of one overflow with the second entry; three hooks let a name be reused while an event
holds the old hook; two snapshots of up to two rows let one be inserted, or purged, in the
middle of the pages of the other, and three instants put a purge before, between and after them; the five files have the section first, last, twice, empty and absent.  `MaxHooks`, `MaxTime`, `MaxEdits`,
`MaxSecond`, `MaxCrashes`, `MaxCount`,
`MaxEvents`, `MaxBoots` and `MaxBlind` are bounds of the models and of nothing in the code.

*Fairness.*  Weak fairness on a handler or task that is ready: the event loop runs
everything that is ready.  Sleeps end.  Child processes exit: `accel-cmd` does,
or is reported as failed (`_run_cmd_once` waits without a timeout, so a process that
hangs would hang its request, and `EveryItemAnswered` says nothing of it); for the commands of jobs it is an assumption, since
`_run` has no timeout.  Nothing is assumed of clients: that a request arrives, that a
confirm comes, or that a WebSocket client reads.  `guarded_apply_live` uses no
symmetry.

*What the violations show.*
- `start_guarded_timer` calls `cancel_guarded_timer` first, and that clears
  `_checkpoint_path` (config_manager.py:375, 392).  The task created next wakes
  at the deadline, finds no checkpoint and ends.  The header of
  `routers/checkpoint.py` promises an automatic rollback to the checkpoint.  (A
  checkpoint is only there at the deadline if something else set it since: a failed
  second apply, one under way, or a playbook; and then it is that text that is restored.)
- `_ensure_egress_table` looks for the rule and adds it in two commands
  (nat.py:117-120); the comment above says the rule is never duplicated.
- `drop_by_mac` passes over failed terminations and reports the number of
  sessions it listed (session_control.py:131-141); `DropByMacResponse` documents
  `dropped` as the number of sessions that were terminated.
- `ifname_of` puts the user name into a regular expression without escaping it (accel.py:602), and a user
  name may hold a dot; `change_ratelimit` documents `username` as the user to rate-limit.

*What passes, and what it does not say.*  Some of what the repository says is left out of the properties
because the code does not do it; each case is under "findings" in `PROJECT.json`, with the sentence it
departs from.
- `SavedUnlessDrifted` has four exemptions, and all of them happen: the table is switched off, which leaves the file; a
  command failed, of which `_persist` ignores its own; a listing is overtaken by a newer one before it is
  written; the agent is killed in the middle of a request.  It says that there is no fifth.
- `ServedAreRecorded` is about what was let in and answered.  What the limiter refuses and what an unnamed
  exception ends is in neither record, though `middleware.py` speaks of every mutating request and of every 429.
- `PurgeIsFinal` holds in the order of the stamps as texts.  That a cutoff with another offset removes what is older
  than its instant is not so.  Rows of a snapshot that a purge overtook are older than the purge and stay.
- `OthersByReuseOrPattern` allows the two ways in which a stranger is hit; `sessions_stranger` shows the second.
- `SuccessHolds` and `RetryHeals` are about the goals a service is sure of.  For those of `Hoping`, "success"
  may be answered after a failure; the docstrings of the routers promise more.
- `FilesFollow` is about a setting at rest of which no command failed, was cut short or came between two of another request;
  what happens to the rest of the host, before and after, does not matter.  Without these conditions it is false: the code
  rolls nothing back.  Of the two files with the conntrack limit, at least one has the value in force;
  the other keeps what it had, and at a boot the later name wins (`91-dawos-conntrack.conf`), so a limit
  set by `PUT /firewall/conntrack` may not come back.  `routers/firewall.py:204` says of the
  forwarding switches that they are not persisted; they are.

## 5. The proofs

All are for every value of the constants; each `*_proofs` module proves its inductive
invariant `IInv` (`Init => IInv`, one step per action, `Invariance`) and derives
the theorems from it.

- `GuardedApply_proofs`.  `OneApplyAtATime` and `NoForgottenTask` are inductive
  given the types.  `LoadedMeansRunning` is not: that the daemon loads the right
  text rests on what the file holds while an apply is under way
  (`WrittenMeansOnDisk`).  `NothingVanishes` proves the action property
  `StoredIsKept` from the types, by two lemmas on what a copy touches.
- `Scheduler_proofs`.  What the code relies on without saying so is that
  `_running_tasks` and `_jobs` stay in step: `RunningMatches`, the missing half
  of `NoOrphanLoop`.  `CreditStays` follows from the actions and the types.
- `NatEgress_proofs`.  `RulesBounded` counts the rules together with the
  handlers about to add one.  To survive a reboot the same bound must hold of the
  file and of every listing on its way to it.
- `SessionControl_proofs`.  `Sound` says of every handler where it is in its
  request, that what it holds belongs to subscribers it may touch (`Holds`), and
  what its command is aimed at and has left undone (`Aimed`).  The others are
  touched only through the ends of sessions or the pattern (`OthersLeftAlone`, `LeftAlone`).
  `SuccessIsTrue` then has two cases: a termination that executed, after which the item
  holds nothing, and the last target of a drop, when all that is held has failed.

- `NatEgress_proofs`, second theorem: `FileFollowsTable`.  `Settling`: as long as
  the two differ and no cause is recorded in `drift`, some handler has its listing of the
  table still ahead of it.  A kill takes the handlers away, and records itself.
- `EventBus_proofs`.  The invariant is the types, `ChannelsAgree` and that a connection that is
  over has left nothing behind (`Gone`), without which the next one would start with the
  events of the last.  `BusImplementsFeed` is the refinement of `EventFeed`, one step per
  action: publishing, joining, leaving and the end of a connection map to theirs, sending
  stutters.
- `HostServices_proofs`.  Of `CommandChains`, with the services as a parameter: `SuccessIsTrue` holds of any that are
  `Thorough`, that is, where every goal is the work of a command whose failure is noticed,
  which is always run, and which no later command undoes.  The invariant follows each goal from
  the command that reaches it to the answer (`Followed`).  `ServicesAreThorough` shows that
  the services of `HostServices` are, for any settings, links and interface parts: a single command
  (`ThoroughOne`), a look before it (`ThoroughLast`), two chains one after the other where the second
  spares the goals of the first (`ThoroughJoin`); and that what they are unsure of is indeed the work of no
  command that is looked at (`HopingCandid`).  Of four services the model asks for nothing: `save_ruleset` and an
  unknown timeout, which never succeed, `flow_restart`, which restarts whichever daemon it finds, and a reload
  of accel-ppp, whose file is the business of `GuardedApply`.
  `FilesTellWhatRuns` proves `FilesFollow` for any number of requests to the services of the agent, in any
  order, failing, overlapping and dying.  All but five services leave the files and what they tell alone (`Quiet`,
  shown of each service in turn, and `OnlyWriters`); those five have one of three shapes (`Forwards`, `Resolves`,
  `Tracks`).  The invariant `FilesIInv` keeps every calm setting `Steady`: it agrees with its files (`Agree`), or exactly
  one request is midway through it, and then the host is at the `Stage` its next command starts from.  A step
  that bears on the setting takes it from stage to stage (`BearingStep`) or ends the calm of it; one that does
  not leaves it as it is (`FilesSpared`).
  `RetriesHeal` proves `RetryHeals`.  The invariant `RetryIInv` says of a request that met nobody and could
  have succeeded: while it is under way it is `Ready` to be started over from the host as it is, and once it was
  cut short the host is `Healed`, as asked already or after one more run.  A service can be `Resumable` in three ways:
  it promises nothing; its last command does it all (`InOneStep`); or it is `Repeatable`, that is, what a command needs
  has either been made by a command before it or is touched by none, and what stands in its way is touched by none.
  What a chain comes to when it is run again is followed a command at a time (`ReplayTrace`, `RunsStocked`,
  `StockedRuns`).  `ServicesResume` shows that all services of `HostServices` are resumable but those of
  `RefusesOver`; the three forms are conditions on the chains alone, not on the host.
- `Agent_proofs`, on the parts of `MC_Agent` other than the bus, which share no state.

  `RequestPipeline`.  The properties are of one request at a time; the invariant says for each phase what
  is known of key, role, status and records.  `KindsAssumption` (what changes anything is not
  a GET and asks for at least operator, only a GET is exempt, nobody else answers 429) is evaluated
  by TLC on all the endpoints in `Endpoints` and on their classes.  `ServedLeaveRecords` follows from what is known of
  an answered request.  `BufferHoldsLatest`: the buffer is the
  end of the trail whatever its size, by a lemma on what appending to a full ring keeps.

  `EventHooks` and `SessionHistory`.  `EventReachesHooks` is an invariant of finished
  events only; `InOrder` says the same of those under way: what has run and what is to do are
  together what was there at the beginning, and the first all come before the second.  `Counted` keeps the counters equal
  to the numbers of events that have run a hook, though several are under way at once.
  `SnapshotsAreWhole` and `PurgesAreFinal` rest on numbers that are never given twice (`NumbersDiffer`), on
  no snapshot or row being of the future (`InThePast`), and on the snapshots under way that are older than
  the last purge being among the overtaken (`Overtakes`).  `PagesMissNothing` rests on `StillToCome`: a row that was
  there all along and has not been seen has a rank at or behind the offset of the next page.  New rows
  may stand before it, which moves it further back; rows that a purge removes are older than all that stay, so
  they never stand before it.

  `SectionEditors`.  `StrangersStay` and `EditsShow` hold of every file, since the invariant (`EditorsIInv`) only says that
  the file is the last edit of the one before it: the substance is in what an edit does to any sequence of lines
  (`EditsPromise`).  Every pass is taken a line at a time (`PassByLine`), and for each edit an invariant of its loop
  relates what has been written to what has been read: `PoolAdding`, `PoolRemoving`, `Rebuilding`,
  `KeysBeingSet`.  All of them say that the other lines are the same (`Alike`), and then what the output lists so far, which depends
  on whether the loop is in the section now or has been there before.
- `FoldLemmas`, used by the last two.  The induction theorems of the library take a predicate as a parameter,
  which the provers cannot instantiate; induction is therefore said of sets (`SetInduction`, from the
  well-foundedness of the naturals, and `SeqInduction`), and a property is a set of numbers or of
  sequences.  For the same reason nothing can be said of a fold with any step; `FoldExists` shows that the function by which
  the community modules define folds exists, for a step that is a function, and each module applies it
  to its own steps, which have a name (`Step` in `Agent_proofs`, `ReplayStep` in `CommandChains`).

Assumptions: the named `ASSUME`s of the modules (distinct model values, finite
sets of handlers and users, bounds that are naturals, services that are thorough and candid, endpoints as above; in `HostServices`
that the requests are those of the agent, that nothing moves by itself but accel-ppp at the end of a soft
shutdown, that the files agree with what runs on the host as it is found, and that nothing is expected of the
requests in `RefusesOver` when they are repeated, `FragileAssumption`; in `SectionEditors` that a file is a sequence
of lines, `FilesAssumption`, and `MaxEditsAssumption`), which TLC evaluates in the runs.

*Only model-checked:* the liveness properties (`AppliesAnswered`, `TasksEnd`,
`Recurs`, `EveryItemAnswered`), which need fairness, and the four violations, which are
counterexamples.

## 6. Not modelled

What only reads: the parsers of command output, listings, statistics, probes, streams, CSV, the
configuration validator, RADIUS, routing, LLDP, NTP and logs: they have no behaviour over
time, and only who may call them and how they fail is in `Endpoints`.  The schemas (what a body
may hold) are a choice of the models; the settings are constants.  The text of configurations
beyond their lines, and beyond "accepted or refused" in `GuardedApply`.  Webhooks
(`fire_webhook`): fire and forget, nothing in the agent depends on a delivery.  The gauges of
`metrics.py`.  `run_command`, which passes on one whitelisted `accel-cmd` command.  What a hook or a
job does.  The retries of `with_retry` outside `SessionControl` and `GuardedApply`; in
`CommandChains` they are one command whose answer may get lost.

Two repairs after a failure are outside `RetryHeals` (`RefusesOver`): `configure_interface` and
`create_vlan` cannot be repeated when cut short, since what their first command made is in the way of
the same command.

The cancellation of a handler by a disconnecting HTTP client, and the
child processes of cancelled jobs (they run on, but nothing refers to them).
`accel-ppp`, `nft`, `systemd` and the kernel are environment, modelled from how the code
uses them and marked external in the map.
