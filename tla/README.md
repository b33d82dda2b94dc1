# lisptc in TLA+

lisptc is a Lisp interpreter that serves as the deterministic half of an AI
agent: a language model writes Lisp, a REPL evaluates it, and what the REPL
holds and prints steers the model back.  Around the interpreter the repository
has a supervisor of agents that talk to each other, a hosted backend that keeps
chats and REPL images, an approval mechanism for dangerous calls, and several
front ends.

This directory models the parts of it in which something runs concurrently,
fails half way or outlives a process.  TLC checks each module on a small
instance, and TLAPS proves the results listed under *Proofs* for every instance.
Nothing in the code or the specs directory states these properties (the code
carries no comments, and `specs/*/spec.md` are empty): they are read off the
code and off the names of its tests, which the comments quote.

Everything on the server runs on one JavaScript event loop, so the atomic step
of every module is the code between two awaits; a mutation of the database
(convex) is one transaction, so one step as well.

## Inventory

| Part | State | Operations | What is hard, and what makes it correct |
| --- | --- | --- | --- |
| **Thread and mailbox** `packages/ai/src/{thread,mailbox}.ts` | mailbox, promises of the posts, `running`, `posted`, `held`, `halting`; per drive: what it took, its signals | post, withdraw, cancel, busy; the loop `drive()` and its turns, which steer (empty the mailbox between two steps) | posts, cancels and withdrawals land between any two awaits of the drive, ports reject, deadlines fire.  One drive at a time; every post in exactly one hand and settled once; no lost wake-up; transcripts in order |
| **Supervisor** `packages/ai/src/threads.ts`, `packages/backend/src/agent-threads.ts` | jobs with state, outcome, waiter, return address; `asking`, `returns`; the live threads | ask, answer, wait, give up, cancel, stop, settle, deliver, evict | a job waits in a mailbox, in a turn, in a promise or on a human, and each of cancel, stop, hold and time-out races its outcome.  Outcomes are final and heard once; no job is lost; a stop is silent to those it stops |
| **Budgets** `packages/ai/src/budget.ts`, `billed()` in `thread.ts` | an account for each thread, under its parent's | open, remaining, charge | turns of parent and child run at once and are capped at what was left when they began.  Accounts add up; overspending is bounded |
| **REPL images** `packages/repl/src/{repl,image-store,image-layer}.ts`, `packages/backend/src/image-store.ts`, `convex/{repls,messages,chats}.ts` | the REPL's image, the cursor of the store, rows of layers, heads, layers of messages | checkpoint, record, append, fork, drop, purge, resume, evict | saves run in the background, fail or are recorded unheard; purges run page by page; forks share layers.  What a chat stands on can be restored; nothing else is kept |
| **Held steps** `packages/repl/src/repl.ts`, `packages/permissions/src/{permissions,approvals}.ts`, `packages/interpreter/src/drive.ts` | the queue of jobs, parked runs, holds, open requests, grants, requests kept in the image | evaluate, hold, approve, deny, carry on, recover, resume | a call stops half way through a step and carries on inside another job; rules are saved late; processes end between answer and checkpoint.  One approval lets one call through; no run waits for an answer that cannot come |
| **Permissions config** `packages/permissions/src/{rules,permissions}.ts`, `packages/backend/src/permissions-store.ts` | forms of a config, each thread's text of it, changes awaiting approval, saves under way | decide, apply, approve, deny, save | the ruling on a change and the text it is computed from may be stale.  Applied changes stay; nothing loosens what another rule decides |
| **Turns, streams, watchers** `packages/ai/src/{turn,stream,agent}.ts`, `apps/app/src/lib/{watch,timeline}.ts` | the steps and the verdict of a turn; the wire, what of it is flushed and appended; the buffer for new watchers; the transcript | model call, evaluate, steer, settle, flush, place, attach | placed messages come while a wire opens or is sealed; batches land late or fail; watchers come and go.  The transcript is the wire, in order and once; everyone is shown the same; a message taken is heard |
| **Chats** `convex/{chats,threads,messages}.ts`, `convex/lib/waiting.ts`, `apps/app/src/lib/chat.tsx` | status, lease, scheduled expiries; the transcript it derives "waiting" from | start, settle, expire, place, answer, record, fork, drop | the server dies in a turn; the client announces a turn apart from its message; asks and answers come from steps, users and children in any order.  What the row says of turn and user is true; no chat streams for ever |
| **MCP servers** `packages/mcp/src/{mcp,mcp-client,local-host}.ts` | the session's entry for a server; loads under way; connections; the process | load, unload, call, reconnect, cancel, shut down, restore | loads are promises that are cancelled, that outlive a session, or that an image resumes; closing is asynchronous.  Each connection is someone's to close; the process stops with the server |
| **Promises** `packages/interpreter/src/{async,promise,recovery}.ts`, `packages/promises` | pending work of a session | spawn, await, cancel, restore | cancelling races settling; what a restored image resumes.  Modelled as far as loads of servers use it (Mcp) |
| **Desktop bridge** `apps/app/server/desktop`, `apps/desktop/src/{bridge,local-server}.ts`, `packages/backend/src/desktop-bridge.ts`, `convex/desktops.ts` | sockets, the machine's connection, requests, channels; processes on the desktop; the machine's row | dial, authenticate, attach, open, close, exit, sweep | either end learns late that a socket is gone; sockets replace each other; requests time out and are answered all the same.  What waits goes with its socket; a channel has its process; the row follows the socket attached |
| **Session server** `packages/repl/src/session-server.ts`, `apps/{cli,mcp}` | editors over one REPL | evaluate, reset | its queue is that of HeldSteps; the protocol is not modelled yet |
| **Interpreter** `packages/interpreter/src/{lisp,compile,reader,arith,...}.ts` | environments, macros | read, expand, compile, evaluate | a sequential program over unbounded data, served better by its tests |
| **The rest** | | | compaction, language service, semantic search, models, memory, secrets, preferences, prose, diagnostics, UI, evaluations: pure functions, I/O or one stored value each; not modelled |

How they interact: clients post to a *thread*; its drive asks the *budget* for
what is left, tells the *chat* that it streams, gets its *REPL* (building it
from the image store), and runs a *turn*, which evaluates steps in the REPL; a
step's forms call the *supervisor* (ask, wait, cancel another agent) and the
*permissions* guard, which may hold the step; the thread's outcome goes back to
the supervisor, which replies to the thread that asked; every step ends in a
checkpoint that the *image store* saves in the background while the transcript
is appended.  A *turn* writes its messages to a wire, which is shown to
watchers as it grows and flushed to the transcript behind them; the *chat*'s
row says all the while that it streams, under a lease that ends even when the
server does.  Forms of a step load *MCP servers* in the background, on the
server or, over the *desktop bridge*, on the user's machine.

## Modules

| Module | Models | Extends or uses |
| --- | --- | --- |
| `Thread` | one agent thread over its mailbox, await by await | `Delivery` (refinement) |
| `Delivery` | what a thread promises to whoever posts: the abstract queue | |
| `Jobs` | the supervisor of a tree of threads; a thread is as Delivery describes it | |
| `Budget` | accounts of a tree of threads whose turns run at once | |
| `ReplLayers` | images saved as layers, shared by forks, collected by purges | |
| `ImageLayers` | the algorithm beneath: difference, stacking, the cursor | |
| `HeldSteps` | steps held for approval, parked runs, requests over restarts | |
| `PermissionRules` | what a config, a session's asks and its bounds decide | |
| `PermissionsConfig` | changes of the config, their approval and their saves | `PermissionRules` |
| `Chats` | the row of a chat: its turn, its leases, and what waits for the user | |
| `Turns` | the loop of a turn, its wire, the transcript and a watcher | |
| `Mcp` | one server of a session: loads, connection, process, images | |
| `Desktop` | sockets, requests, channels and processes of a user's machine | |
| `ThreadProofs`, `ChatsProofs`, `McpProofs`, `JobsProofs`, `DesktopProofs` | theorems | the module each names |
| `TurnProofs` | theorems | `Budget`, `Turns` |
| `LayerProofs` | theorems | `ReplLayers`, `ImageLayers` |
| `ApprovalProofs` | theorems | `HeldSteps`, `PermissionRules`, `PermissionsConfig` |

`MC*` modules give the constants their instances.  Of the `MC*.cfg`, those of
the table under *Runs* are the checks proper; `MCThreadLive` and `MCJobsLive`
check liveness (*Fairness*), and the others show what the code does not stand up
to (*Disagreements*).
Operators whose comment says "Mutation of" are not part of the model: each is a
plausible bug in the operator it names, put in its place to see that the property it is meant
for notices.

### Thread

The variables `mailbox`, `tracked`, `running`, `posted`, `held`, `halting` are
the fields of `Thread` and `MemoryMailbox` of the same name.  A post, a cancel
and a withdrawal are two steps each, before and after their await (`Post` and
`Posted`, `Cancel` and `Cancelled`, `Withdraw` and `Withdrawn`).  Each run of `drive()` is a slot
with a program counter `pc` that names the await it is suspended at, and its
local variables (`seen`, `taken`, `consumed`, `signal`, ...).  MemoryMailbox
answers at once, so what a `take()` returned is out of the mailbox while
nobody but a local variable holds it; most of what could go wrong, does so
there.  Ports reject where the code tells apart that they do: `prepare` (any of
start, setup, REPL, transcript) and `settle`.  What the model does with a turn
is `Inbox`/`InboxTaken`/`Steer` (reading the mailbox between steps, taking a steered
message in) and `Finish` with any outcome.

Named simplifications: the ids of envelopes are unique; `relay`, `place` and the watchers are left
out; the messages of a turn are the envelopes it has spoken.

### Jobs

`state`, `replyTo`, `outcome`, `slot` are the fields of a job; `ended` and
`stage` say where the continuation of its promise is (not yet run, in
`surface()`, in `deliver()`).  `asking`, `returns` and `live` are the maps of `Threads`.
A thread is a mailbox and a turn that consumes from its front,
and its promises resolve together when the turn ends: this is what `Delivery`
says and `Thread` is checked and proved to implement.  What `get()` may evict is
what `Thread.busy` does not count, and `busy` counts the turn, what is held and the watchers,
not the mail: `posting` are the threads whose `post()` awaits its mailbox, which are
at rest for `busy` and about to drive.  One of these that is evicted is `doubled`:
its object drives all the same, beside the one that is built next, out of the same
mailbox.  `Consume`, `TurnEnds`, the stops and the evictions of a doubled thread
leave open which of the two objects does what, and which of them knows of what is held.
`Halt`, `Conclude` and `Disowned` are helpers
that `Stop`, `CancelJob`, `CancelThread` and `Settle` use as the code does.
The tree is a constant; which answer of a human resumes what in the widget is
left open.

### Budget

`Open` grants a child the tighter of what was asked and what is left all the
way up; `Begin` admits a turn and caps it; `Step` charges each account of the
chain; a turn out of tokens ends.  `own` is a history variable.  Sums over the
threads of a tree are `SumOver`, a recursive function on the subsets of a set, and
`Promised` is what each turn may still take; `CostAssumption` says that what a step
costs is a natural number.  Deadlines are never charged and are left out.

### ReplLayers and ImageLayers

In `ReplLayers` an image is the sequence of the steps whose effects it holds.
`Step` evaluates and puts a save in the queue of the store (`checkpoint`),
`Record` is the mutation `repls.record` followed by its answer, `FailSave` a
save that failed before or after the mutation, `AppendRows` the mutation that
appends the messages of a step; they come in any order.  `Fork`, `Drop`,
`PurgeRepl` and `PurgeMessages` are the mutations of the same names; a purge
is taken page by page (one layer at a time in the model, and any number of messages
from the front: a batch is 256).  `Evict` and `Boot` are the supervisor letting a
thread go and building it again, `Recover` a REPL built anew from the store after a crash of
the code, `Restart` the end of the process.  Both build it with `Load`, which may
fail: a store that does not answer or an image that does not load leave an empty
REPL while the head stays in its row.  A chat is `astray` once that happened, or
once a REPL was built while a store of one before still had images of it to save;
and it is `crossed` once a step ran while another one's image or rows were on
their way along another path.  Both are histories, which name exactly where a
property ends, and guard nothing.

`ImageLayers` models what a layer is: the operators are the functions of
`image-layer.ts` (`Splice`, `Patch`, `LayerOver`, `Stack`), over an image of a
list and a record, and the machine saves any image over any, and restores.

### HeldSteps

The job that runs is a step of the agent or an answer of the user.  `CallHeld`
is a call that has to wait: the request is opened, kept in the image's state,
and the run of its step is parked; `CallGranted` is a call an approval lets
through.  After a job that was not held itself, the runs whose holds are
decided carry on one by one (`CarryOn`, `Resume`), in the job of another step,
and may be held again.  `Answer` is the user's, with a scope; for `always` the
rule is saved, and the hold released, later (`Saved`).  `Crash`, `Recover` and
`Restart` are an error that is not Lisp's, `recover()` after it, and the end of
the process; what is kept of the requests is in the image that was saved last.
`Picked` is `Array.filter()`, by the places that are kept: the library's
`SelectSeq` is nothing the provers can look into.

### PermissionRules, PermissionsConfig

A config is a sequence of forms whose globs are given as the sets of names they
match.  `Apply` is a form the agent evaluates: the ruling on it denies it,
commits it, or has it wait for the user; `ApproveChange` rules again and commits, and
`Remember` is the rule of a call that is let through always.  No commit waits for
a save but that of the step that made one: a change is made of the text the store has
then, and its save goes to the end of the store's line.  `Land` and `Return` are the
mutation of the save at the head of the line and its answer, `Fail` one that is
not made, or made and its answer lost.  `Reopen` is the thread's REPL built
again, and a store opened; a store whose thread was let go of goes on saving, and is one
of the others.  `knows`, `standing`, `overruled` and `overlapped` are histories.

### Chats

A chat's row is `status`, `since` (`streamingSince`) and the `leases`
scheduled; each mutation is one step.  `Begin`, `Prepare`, `Steer`, `Settle`
are the turn at its mutations, `Refuse` the turn a spent budget does not admit, `Unsettled` a
settling whose mutation is lost, `Crash` the end of the server.  `Submit` is the client's, and
`Mark` its `chats.start`, which lands whenever it does.  `Place` puts asks in
the transcript, of a step or of a child; `Answer` and then `Record` (in the chat
itself) or `FollowUp` (as the child that asked) answer one; a child is told of the
answer only if there is something to tell and no error, and of an approval that
expired there is not (`silent`).  `Expire` is the
scheduled mutation of a lease, which knows its lease by the time it was taken
at, as in the code.  `Tick` lets time pass, and nothing bounds how much of it a turn takes:
the deadline is made when the turn is prepared, the preparation (the REPL
built, the user's forms evaluated) has none, and what a turn past its deadline awaits lets it
end when it does.  The transcript is kept as the messages that open
turns, ask, or answer.

### Turns

`at` says where `runAgentTurn` is, between its yields; `steps`, `drained`,
`ending` and `calling` are its locals.  `wire`, `carried`, `flushed`,
`recorded` and `pending` are the fields of `TurnWire`; `Flush` cuts a batch and
chains it behind those before, `Land` and `LandFails` are its append.  `Relays`
and `Shows` (publishing) write both the buffer for later watchers and the
client that is connected.  `Place` is `Thread.place()`, which takes the wire if
one is open and otherwise appends first and relays then (`Placed`).  `Abort` is
a stop, the deadline or the budget; the stream then writes no more, and
`Leave` is the turn noticing.  A message is a number, and the result of the
step of a reply has the reply's plus `MaxMessages`, so that both are told apart.
The cap is looked at after a step, so that a turn capped at 0 takes one step.

### Mcp

`entry` is the session's record of the server, `load` the promises that load
it, in the phases of `connect()`: reaching the process (`Ensure`), opening the
connection (`Connect`), installing what came (`Arrive`), or failing (`Fail`).
`loading` and `reconnecting` are the variables of `registerMcp` of these
names, `open` and `closing` the client's connections before and after the
`await` of `disconnect()`.  `Save` and `Restore` are an image of the session and
a session made from it, after the one before was disposed of or died; a load that was pending in the
image is resumed.  Loads of the session before that are still under way go on,
aborted (`old`).  The host is `LocalProcessHost`.  A restored session is given a host
and a client of its own, as a new process has; `recover()` in the session keeps
them, so that what the session before holds is a little more there than in the model.

### Desktop

`down` and `up` are the messages of each socket, in order; `closed` are
sockets that are gone, `over` those of which the app server knows.  The app
server's part is `DesktopSockets` (`live`, `checking`), `DesktopRegistry`
(`attached`, `opens`, `channel`), the session's host (`named`, `leaving`) and presence (`mutations` and
`row`); the desktop's is `DesktopBridge` (`current`, `entry`) and its
processes.  `Introduced`, `Authenticated`, `Rejected` are the first message of
a socket and the two answers to its token; `Ask`, `Opened`, `Refused`,
`TimeOut`, `Exited` the life of a request on the app server; `ToOpen`, `Start`, `Started`,
`DoesNotStart`, `ToClose`, `Dies`, `Exits`, `Speaks` on the desktop.  `Mutate` is
a mutation of the row, done or failed, in the order of `announce()` and
`withdraw()`; `Sweep` and `SweepRow` are the two sweeps.

## Runs

All runs finish within five minutes on two workers.  CHECK_DEADLOCK is FALSE in
every one: each system may come to rest (all posts settled, all jobs decided,
every bound used up).

| Run | Instance | Question |
| --- | --- | --- |
| `thread` | 3 posts, 1 cancel, 2 slots for drives, 1 read of the inbox in a turn, both ports may reject | does one drive run at a time, is every post in one hand, told truly and spoken in order, is nothing left over at rest, and does the thread implement `Delivery` |
| `jobs` | 2 threads of which 1 fits in memory, evicted also between a post and its drive, 2 jobs, held only by the child, 1 waiter, 2 calls from outside | are outcomes final and heard once, is every job in one place, is a stop silent, and is all heard at rest |
| `budget_safety` | a chain of 3 threads, limits of 2 or none, turns of 2 steps, steps of 0 or 2 tokens | how far can a tree overspend |
| `layers` | a chat and its fork, 2 steps, 2 layers, 2 stores, evictions, images that do not load | is what chats stand on kept, and nothing else |
| `layers_races` | 1 chat, 2 stores, 3 steps of messages or of the UI, 3 layers, evictions, images that do not load | does every stored layer restore the image it was saved from, does a message end on its layer, and is a REPL never behind what it was made from |
| `image_layers` | 3 saves, 2 formats, lists of 2, 1 name with 2 values | does stacking give back what was saved |
| `held` | 2 steps, 2 names, 3 requests, 1 crash, 1 restart, all scopes | does one approval let one call through, and is no run or request forgotten |
| `config` | 2 stores, 2 forms, a bound of 2, 1 change that waits, 2 saves that overlap, fail or lose their answer | do applied changes stay, does nothing loosen, and does what is saved last win, in the database and in memory |
| `chats` | 2 messages sent, 2 asks, leases of 2 units, 3 units of time, turns of any length, 1 fault | is what the row says of turn and user true, and does streaming end |
| `turns` | 4 messages and their results, turns of 2 steps, 1 failing write | is the transcript the wire, does every watcher see the same, and is what was taken heard |
| `mcp` | 3 loads, 2 calls waiting, 2 restores | is every connection someone's, does what is shut stay so, and does the process stop |
| `desktop` | 2 sockets, 2 requests, 1 failed mutation or crash | does what waits go with its socket, has a channel its process, and is presence true |

### Why the bounds are enough

- `thread`: the races need one post to be taken, one to wait and one to arrive
  between two awaits, and a cancel among them; three posts and a cancel give
  each of these and their combinations.  Two slots for drives are one more than
  the code should need, so that a second drive would be seen (`OneDrive`); by
  the theorem `DriveMutex` there never is one.
- `jobs`: with two jobs on one thread, or one on each, an outcome can race another's
  hold, stop and reply, and a memory of one thread makes every `get()` an
  eviction, also of a thread that is being posted to.  Two calls from outside are an ask
  and its answer or stop, or two posts to a thread that is evicted between, after the
  asks of the threads themselves, which are not counted.  Only the child holds
  here, which leaves room for the evictions; the theorems are about any that may.
- `budget_safety`: a chain of three has a middle account that is both parent
  and child.  A limit of two with turns of two steps is the least in which two
  turns can be promised the same steps; three turns at once are the worst case.
- `layers`: two layers are one that is shared and one over it, in either chat; purges
  come between any two mutations, and two stores save for one chat.
- `layers_races`: with `MaxRun = 2` a run of deltas ends and begins anew within three
  steps, and three steps are one of each source and one that comes between.  Two
  stores are the one of an evicted REPL and the one after it.
- `held`: two steps that call two names are the least in which one run carries
  on in another's job and a name is asked for again; the third request is one
  after a restart.
- `config`: a config of two forms has room for a rule and one that undoes it; two
  saves overlap in one store or in two.  One change waits while another store's
  commits; how many wait is the theorems'.
- `chats`: within three units of time a lease of two is taken at two times at least
  before it runs out, so that turns compete with leases of others, and a turn is older than
  its own.  Two messages are a turn and what
  steers it, or two turns, of which the client's starts land in any order; two
  asks let one be answered while the other waits.  For other lengths there are
  the theorems.
- `turns`: four messages are enough for an opening, a steering message, a placed one
  and a reply whose result follows; a second step is needed for a message that buys one.
- `mcp`: a load of this session, one that overlaps it or is left from the session
  before, and one that an image resumes; two calls share a reconnection.  For
  more there are the theorems.
- `desktop`: two sockets replace each other, and two requests cross: one that timed out and
  the one after it.  Processes speak only while nothing else is on its way up,
  which bounds the queue; what they say is not looked into.

### Fairness

`Chats` has fairness in its specification: time passes and convex runs what is
scheduled, and nothing else.  No turn has to begin or to end, and a settling may
be lost: `StreamingEnds` rests on the lease alone.  The client's start, users and
children are not assumed to do anything.

`Thread` and `Jobs` have liveness under `FairSpec`, in `MCThreadLive.cfg`
(`EverySettled`: every post is settled) and `MCJobsLive.cfg` (`Heard`: every job
is decided and heard of), each of which takes minutes.  Their fairness is weak
fairness of the continuations the event loop has queued (`Posted`, `Withdrawn`,
`Cancelled`, every await of the drive; `Settle`, `Rooted`, `Reply`), which
JavaScript runs in turn, and of turns ending, which holds since a turn's steps
are capped and it has a deadline.  The host's ports are taken to answer.
Nothing that a user, an agent or a time-out does is assumed to happen.  What
of it does not need fairness is checked by the runs as invariants of the states
where nothing is under way any more: `SettledAtRest`, `HeardAtRest`.
`EverySettled` is checked with a status port that does not reject, because the
code has a leak there, which the safety run shows and names (`stranded`):
when `status.settle` rejects for a turn that was halted before it
began, `drive()` gives up and the promises of that turn are never settled.

## What the properties say

`Thread`: **OneDrive** `running` is a lock although it is a plain flag.
**InOneHand** no envelope is in two hands and every unsettled
one is in some hand (mailbox, drive, canceller, withdrawer), which is what
makes "settled exactly once" true.  **SettledAtRest** when nothing runs,
nothing is left in the mailbox or unsettled: the check `posted !== seen` closes
the window between the take that found nothing and `running = false`.
**RestIsSettled** no chat of a thread at rest streams.
**ToldTruly** withdrawn means not spoken, answered means spoken.
**SpokenInOrder** steering and opening together keep the order of the posts.
**ImplementsDelivery** every step of a thread is a step of the abstract queue,
so `Jobs` may be built on it.

`Jobs`: **HeardOnce**, **Finality** over all interleavings of the ways to an
outcome.  **OnePlace** a job without an outcome is never in two places that
will give it one, and in one of them unless its thread was doubled; the place is
in memory, or the object of a doubled thread.  **AskingIsHeld** what the next human answer resumes is a held job of
that thread without an outcome.  **HeardAtRest** when nothing is under way,
every outcome was heard by whoever asked, and every job of a thread that was not doubled has
one.

`Budget`: **OverspendBounded** what concurrency costs at most: n threads spend at
most n times the limit, and tokens run over by one step for each thread.  It rests on
`Conserved`, an account has paid for what its thread and all below took, which was checked
while the module was written and is proved.

`ReplLayers`: **Restorable** heads and layers of messages have rows.
**Faithful** stacking any stored layer's run gives the image that was saved.
**NothingLeaks** when no purge is under way, every layer is one some chat
stands on.  **BackFilled** each message ends on its own layer, or on one over it, over
evictions, restarts and steps of the UI, in a chat that is not `crossed`.  **ResumesLast**
what is stored is never ahead of the REPL in memory, and a new one is not
behind what was stored, in a chat that is not `astray`.

`ImageLayers`: **RoundTrip** what is stored stacks back to what was saved.

`HeldSteps`: **OnceOnly** one approval, one call, over crashes and restarts.
**Answerable** no parked run waits for an answer that cannot come.
**CarriesOn** an approved run is not left behind.  **AnsweredOnce** a request
is answered once, over restarts from the last state (`behind` marks the
sessions restored from an older one, of which that is not true).

`PermissionsConfig`: **Applied** what the user was told is applied, is in the stored
config once the saves returned, and **Overruled** no change begins that an applied
rule denies: both as long as no change was made while the config was being saved, or by
a store that does not know what is stored, which the code does not keep from happening
(*Disagreements*).  **Coherent** whatever overlaps, fails or is lost, the store whose save was
made last, and those opened since, hold what is stored.  **Tightens**
neither asks nor bounds loosen what the config decides, nor the config the
bounds.

`Chats`: **RunningIsShown** from its start and for as long as a lease lasts a turn's
chat streams until it is settled, whatever leases of earlier turns run out; and what
streams has its lease scheduled.  **ExpiresTruly** "the turn
stopped answering" is said of a turn that was cut off or a message the client announced,
or of a turn that has run as long as a lease lasts, and no other.  **WaitsTruly** at rest a
chat that is idle has nothing in its latest turn that waits for an answer, unless it was placed
there since, and one that waits has, unless it was not told of the answer.  **StreamingEnds**
(liveness) no chat streams for ever.

`Turns`: **StoredInOrder** the transcript has what the wire has, once, in order
and, when the turn is settled, all of it.  **WatchersAgree** a watcher that
came late or came back is shown what the others are, and at rest what is
stored.  **SteersAreHeard** a turn does not settle over a message it took.

`Mcp`: **ConnectionsHeld** no connection is left that nobody would close, and
the entry's is open.  **StaysShut** what was shut down stays so until something
is loaded.  **ServersStop** a server that is not loaded has no process that the
session started.  Each has conditions which name what the code does not cover
(*Disagreements*): loads that overlap, a load that failed or was cancelled after its
process started, a load resumed.

`Desktop`: **Attended** requests wait, and channels live, on the socket that is
attached.  **ChannelServed** when nothing is on its way, a channel has its
process and no other has the name, as long as no two requests overlapped on the desktop
and no close crossed one.  **PresenceTrue** once no mutation is under way the row shows
the machine as connected exactly when it is, unless one failed, a crash left the row, or the
socket was closed before it was attached.

`TypeOK` of each module was checked while it was written, and is proved for
Thread, Jobs, Budget and Mcp, and as `TurnTypeOK` for Turns; `Shapes` of LayerProofs proves the types of
ReplLayers.

## Disagreements

What the code does, where a test's name, a message of the code or its other
half says otherwise.  They are no runs of the project; each cfg is kept here
(`tlc -workers 1 -continue -config X.cfg M`) and finds its properties violated.

| cfg | Property | What happens |
| --- | --- | --- |
| `MCReplLayersGaps` | `ResumesWhereStopped` | a thread evicted while its last image is being saved is built again from the layer before (`repl.ts:302`), and one whose image does not load is built empty, while the head stays stored (`thread-host.ts:328`, `repl.ts:266`); `checkpoints.test.ts:80` "resumes in a new REPL where the last one stopped" |
| | `AlwaysBackFilled` | the layer of an answer to the UI, or of another store, between a message and its layer stops the back-filling (`repls.ts:119`); `fork.test.ts:65` |
| `MCImageLayersNames` | `RoundTrip` | names such as `constructor` are found in every object by `in` (`image-layer.ts:44`) |
| `MCHeldStepsGaps` | `Honoured` | `recover()` forgets parked runs but not their holds, requests and grants: the approval is used up and nothing carries on (`permissions.ts:250`); `permissions.ts:314` promises that it does |
| | `Unguarded` | a parked step forgotten by `recover()` leaves the guard armed (`permissions.ts:228`), also for the next prelude; `permissions.test.ts:41` |
| `MCHeldStepsTold` | `Told` | what a run prints that carries on in a step of the agent goes to a part of the result that is dropped (`repl.ts:460`) |
| `MCJobsGaps` | `HeldIsAsked` | two held jobs of one thread: `asking` keeps the last, the first is never resumed (`threads.ts:438`) |
| | `PausedStays` | `held` follows the last turn only, so a thread whose earlier step is still paused can be evicted (`thread.ts:233`); `threads.test.ts:156` |
| | `WaiterHears` | a second wait for one job takes the first one's slot, and the first never returns (`threads.ts:319`) |
| | `NeverDoubled` | a thread that awaits its mailbox in `post()` is not busy and is evicted, and drives beside the one built next (`thread.ts:151`, `threads.ts:484`); `threads.test.ts:142` "never evict a running thread" |
| | `CancelStays` | a cancel that lands while `settle()` awaits the root is overwritten by "held" (`threads.ts:434`) |
| `MCBudgetCap` | `NeverOverspent` | turns of parent and child that run at once are promised the same steps (`thread.ts:295`) |
| `MCPermissionsConfigGaps` | `AlwaysApplied`, `AlwaysOverruled` | two changes approved while the first is being saved: the second overwrites it, or is ruled on by a text that the rule being saved is not in yet (`permissions.ts:278`); `permissions.test.ts:662` |
| | `Current` | another thread of the workspace keeps the text it read when it was built (`permissions-store.ts:25`); `permissions.test.ts:747` |
| | `ChangesKept` | the save of an approved change fails, and nobody hears of it (`permissions.ts:278`) |
| `MCChatsGaps` | `AlwaysShown` | a turn that is prepared slowly outlives its lease, which counts from its start, and is reported as one that stopped (`limits.ts:47`, `thread.ts:270`) |
| | `WaitsForSomething` | the answer to an approval that expired is recorded and not posted, and the chat of the child goes on waiting (`threads.ts:239`, `ui-approver.ts:84`) |
| | `ExpiresOnlyTurns` | the client's start lands after the turn it announced was settled, or for a message that was refused, and the lease then reports a turn that there was not (`chat.tsx:367`) |
| | `WaitsShown` | what a child asks is placed in its idle root without a look at the status (`threads.ts:289`) |
| `MCTurnsCap` | `SteersBuyAStep` | with the last step used the mailbox is emptied all the same, and what was in it is stored and not heard (`turn.ts:393`); `turn.test.ts` "a steer that lands during the answering step buys one more step" |
| `MCMcpGaps` | `NoConnectionLeaks` | of two loads of one name the second to arrive replaces the entry of the first, whose connection stays open (`mcp.ts:903`) |
| | `CancelledLeavesNothing` | a load cancelled after the host started the process leaves it running (`local-host.ts:45`); `mcp.test.ts` "cancelling a load rejects it and leaves no server behind" |
| | `ShutIsShut` | a load resumed from an image is not among those a shutdown cancels (`mcp.ts:1294`) |
| | `LoadedRuns` | a disconnect that lasts stops, by name, the process of the load that came after (`mcp-client.ts:272`) |
| `MCDesktopGaps` | `NoGhosts` | a socket that closes while its token is checked is attached afterwards (`sockets.ts:69`) |
| | `ReloadServed` | on a reload the disconnect sends "close" twice, the second after the request to open (`registry.ts:141`) |
| | `NoOrphans` | a late answer to a request that timed out leaves a process without a channel (`registry.ts:222`) |
| | `OwnVoice` | a process that is being stopped speaks in the name of the next |

## Proofs

Checked by TLAPS for every value of the constants that the named assumptions
allow.  The assumptions are those of the modules: distinct sentinel values, finite
sets where something is counted, bounds that are natural numbers.

- **ThreadProofs.TypeCorrect** `Spec => []TypeOK`.  TypeOK is not inductive
  alone: a turn that is told to have been halted must have a signal that is not
  "live", which `HaltedAborted` says.
- **ThreadProofs.DriveMutex** `Spec => []OneDrive`, inductive under TypeOK:
  `running` is raised only when it is down, in the step that begins a drive,
  and lowered only in the step that ends the only one.
- **ThreadProofs.EveryPostInOneHand** `Spec => [](InOneHand /\ Accounted /\
  SettledOnce)`.  The inductive invariant is `Custody /\ Settlement`: the hands
  are disjoint, their union is `tracked`, and the local variables of a drive are empty
  except where it is suspended (`Locals`, which the properties do not say and
  the steps need); `Settlement` says that what is tracked is posted and open.
  The lemmas `Hands...` each say, of sets alone, how one kind of move (post,
  take, withdraw, cancel, release, strand) keeps hands apart; each action is
  then an instance of one.
- **ThreadProofs.RestsSettled** `Spec => []RestIsSettled`, from TypeOK, OneDrive
  and `TurnStreams`: a chat that streams has the turn that made it stream, or
  the port that would have settled it rejected.
- **ThreadProofs.NothingLeftBehind** `Spec => []SettledAtRest`.  `drive()` looks at
  the mailbox, awaits, and only then lowers `running`.  `Attentive` says why no
  post falls in between: an empty look counts only if no post was completed since,
  so what lies in the mailbox belongs to a `post()` that has not looked at
  `running` yet (`Awaited`).
- **ThreadProofs.PostsToldTruly** `Spec => []ToldTruly`.  The invariant `Truth` adds
  that nothing in the mailbox or taken back is in the transcript (`Unheard`), and what
  each drive's turn has read at each place it can be suspended at (`HeardBy`).
- **ThreadProofs.SpokenAsPosted** `Spec => []SpokenInOrder`.  `Sequence` orders all
  there is by arrival: what is spoken, then what a drive is about to speak, then the
  mailbox.  The lemmas `Order...` are about any sequences: what is kept by
  appending, by taking the front and by removing one element.
- **ThreadProofs.ThreadDelivers** `Spec => ImplementsDelivery`: the initial states
  map to those of `Delivery`, and every action, in the invariants above, to an
  action of it or to a stutter.
- **JobsProofs** `TypeCorrect`, `InOnePlace`, `AnswersHeld`,
  `OutcomesHeardOnce`, `AllHeardAtRest`, `OutcomesAreFinal`, for every tree, every set
  of jobs and waits, and however few threads fit in memory.  A thread is evicted whenever
  `busy` lets it, also between its post and its drive: OnePlace and HeardAtRest then say
  what still holds of a doubled thread, whose jobs may be lost and are never in
  two places.  OnePlace does not
  hold inductively by itself; `IInv` adds to it that a job is in a mailbox once
  (`Boxed`), in that of its own thread (`Within`), and in no place unless it is
  open (`Placed`); and, for who hears of it (`Heeded`), that a slot's waiter is
  waiting for that job, that who is to hear has not heard, and that a stop's
  hushed jobs stay cancelled.  `ConcludeKeeps` and `HaltKeeps` are the two
  lemmas the work is in: every cancel and stop is an instance of the second,
  every outcome of the first.  Whether the tree has cycles does not matter.
- **TurnProofs** `TypeCorrect`, `ParentsAlwaysPay`, `LeavesStayWithin`, from
  one invariant `IInv`: TypeOK, `Fresh` (an account that is not open has spent
  nothing and has no turn), ParentsPay and LeafWithin.  They hold for every
  tree, also one with a cycle of parents: a charge goes to a set closed under
  parents (`ChainClimbs`), and an account without children is charged by its own
  thread only (`LeafAlone`).
- **TurnProofs** `StepsConserved`, `OverspendIsBounded`, under `CostAssumption`.
  A sum changes by what one of its members changes by (lemmas on `SumOver`, by
  induction over the subsets of a finite set).  `Sums` adds to the two properties that a
  thread without an account has taken no step (`Unbilled`); that each turn below an
  account was promised no more than its grant (`Shared`), so that n threads spend at most
  n times that; and that the threads that ran over its tokens have no step left
  (`Overrun`), so that each did once.
- **TurnProofs** `TranscriptInOrder` (`StoredInOrder`), `WatchersShownTheSame`
  (`WatchersAgree`), `TakenAreHeard` (`SteersAreHeard`) and `TurnTypes`, for any number of
  messages, steps and failing writes.  The invariant, `TurnInv`, says where each message
  is.  What waits (in the mailbox, taken, or being placed) is in one place, once, and not on
  the wire or stored (`Single`, `Apart`); a reply and its result are nowhere before they
  come (`Expected`).  `Landing`: there are places on the wire between which the batches
  that wait to be appended were cut, the last being what is flushed; what the turn has on
  the wire before the first is stored or gone with a failed write, what is beyond is not
  stored.  A flush adds a place (`CutsFlush`), an append or its failure takes the first
  (`CutsShift`), and a batch has what the wire has there (`SliceHas`), so the
  transcript goes on being in the wire's order (`Ordered`).  `Watched`: what was shown is
  stored, gone or on the wire, what was relayed may also be in the hands of the turn,
  and the buffer and the client have had the same.  At rest all is flushed and nothing
  waits to land (`Phased`), so all of it is stored (`WireLanded`).
- **LayerProofs.LayerRestores** one turn of `stack()` over what
  `layerOver()` made gives the image back, for every pair of images.
  `KeepAlike`: the kept entries are alike; `FrontAndRest`: a sequence is its front
  and the rest; so `SplicedBack`; `PatchedBack` for records, under the
  hypothesis that no record has a name that objects inherit, which the code
  needs (see *Disagreements*).
- **LayerProofs.StoreRestores** `StoreSpec => []RoundTrip` under the same hypothesis:
  whole runs of layers, of any length, over any saves and restarts.  By induction over
  the layers of a run (`StackedBelow`: layers on top change nothing below), one
  layer more gives one turn of the loop more (`StackMore`).  The invariant `Stored`
  says what the cursor knows: the image below is the one saved, and its count is the
  length of the run from the last whole layer.
- **LayerProofs.LayersStay** (`Restorable`), **LayersGo** (`NothingLeaks`),
  **LayersStack** (`Faithful`), for any number of chats, forks, stores, steps and
  layers, with eviction, restarts, lost saves and answers to the UI.  The invariant has
  `Shapes` (types); `Tree`: a layer's line is itself and the lines of those it lies over
  (`Lined`), and no stored layer lacks one of its line (`Hung`); `Watched`: a stored
  layer with nothing over it (`Leaf`) is pinned by a chat or a scheduled purge will
  come to it (`Condemned`), from which NothingLeaks follows, since over every
  layer there is a greatest; `Standing`: what a store takes deltas over is the image
  of a layer, and `Based`: each layer stacks (`Stacks`).  `LeavesLeft` is the lemma
  about `collect()`: of the layers it passes, those left are pinned or have others over them.
- **LayerProofs.LayersResume** (`ResumesLast`), with evictions, restarts and images that
  do not load.  A save waits in the store of the REPL it was made for and holds no step
  which that has not (`Behind`); a REPL that is not astray has none in another store
  (`Sole`), so that what is recorded next is its own.
- **LayerProofs.LayersBackFill** (`BackFilled`), with these and steps of the UI.  In a chat that
  is not crossed, rows, saves and layers are each in the order of the steps (`Ordered`,
  `Queued`, `Newer`, `Once`); a save that waits has its row (`Told`), and all rows from
  that on stand on the head (`Close`), so that `settleMessages()` passes over none; the rows
  yet to be appended find the head recorded for the last of them that has a layer (`Ahead`).
  `astray` and `crossed` restrict what the two say, and nothing that happens:
  `MCReplLayersGaps` shows both fail of all chats (*Disagreements*).
- **ApprovalProofs.ApprovedCallsRunOnce** (`OnceOnly`), **HeldRunsAnswerable**
  (`Answerable`), **ApprovedRunsCarryOn** (`CarriesOn`), **RequestsAnsweredOnce**
  (`AnsweredOnce`) and **HeldTypes**, for any number of steps, names, requests, crashes and
  restarts, from one invariant, `HeldInv`.  `PlacesInv` says that each hold is resumed
  by one parked run or is in line, once (`CarriedOnPlaces`, over the lemmas
  `PickedEntries` of filtering and `FlattenDistinct` of concatenation).  With it,
  `OnceInv` weighs each request: the calls it let through, the grant of one call it left
  (`Spare`), and the call its run will make when it is resumed (`Due`) are
  together no more than its approvals; every step moves one of these into another.
  `AnswerInv`: the request a hold waits for is open, and kept, and the only one
  for its name that is kept (`Alone`), so that adopting what an image kept never closes it.
  `AskedInv`: while no image was behind, a request is kept until it is answered or
  asked again, and never after.  `CarryInv`: an approved run stays parked only between
  the answer and the end of its job, or when its rule was saved.  `StepsInv` and
  `GuardInv`: what is held or in line is a step that is held, so the guard is up for
  as many steps as are midway, at least; it is never let down below zero.
- **ApprovalProofs** `SessionTightens`, `DenialIsFinal`, `SessionsTighten` (`Tightens`): the
  strongest of a finite set of verdicts exists and outranks each
  (`StrongestOutranks`), a default is the last one (`LastIndex`), so every
  decision is a verdict and each of a session's is at least each it is made of.
  `ConfigTypes`: every text is a config, at any time, which the last of them needs.
- **ApprovalProofs.StoresCohere** (`Coherent`), for any number of stores and saves, which
  overlap, fail and lose their answers: of a line only the head has been made, and
  a store that knows what is stored has that text or will hear of it (`Hears`).
- **ApprovalProofs.ChangesAreApplied** (`Applied`), **DenialsHold** (`Overruled`), likewise, with
  the border in the properties.  As long as no change overlapped, one save
  at most is on its way, from a store that knew what was stored, and holds all that stands
  (`InLine`); so the next change is made, and ruled on, from a text that has in
  it all that stands.  `MCPermissionsConfigGaps` shows both fail of overlapping
  changes (*Disagreements*).
- **ChatsProofs** `RunningShown`, `ExpirySpeaksTrue`, `WaitingShown`, for all
  leases, and turns of any length.  The inductive invariant (`LeasesCover`) says that the
  lease in the row of a turn was taken when the turn started or since, or else has run out,
  and then the turn is as old as a lease (`Covered`); that what streams is scheduled
  (`Scheduled`); and that what streams without a turn was cut off or announced
  (`Explained`).  `WaitingShown` adds `AtRestTruly`, which unlike `WaitsTruly` holds also while
  an answer is to be recorded: that one only ever takes away what waits
  (`AnswersRest`), the answer of a child does not.
- **McpProofs** `TypeCorrect`, `ConnectionsAreHeld`, `ShutStays`,
  `ProcessStops`, for any number of loads, calls and restores, of what the conditions
  in the properties leave: no overlapping loads for the first and the last, no
  load that failed or was cancelled after its process started for the last.  The invariant
  ties each load to what it holds: a connection opens with its load and is
  closed after that has settled (`Phased`); what is loaded was connected by a
  load of this session (`Served`); loads of the session before are aborted, so
  that none arrives (`OldAborted`); what reconnects is under way (`Awaited`);
  a load under way is aborted, resumed or in `loading` (`Cancellable`), hence
  what is shut stays so (`Shut`); the process is that of a load, of the entry
  or of a connection about to be closed (`Owned`).  `OneAtATime` is where the
  condition `~overlapped` is used: with a load under way nothing is loaded.

- **DesktopProofs.RequestsAttended** (`Attended`), for any number of sockets,
  requests and faults.  It is inductive with the ranges of four variables
  (`Registered`): a connection that is dropped leaves nothing waiting and
  nothing open (`DropsAll`), and a channel that ends was the only one
  (`EndsOne`).
- **DesktopProofs.MachineShown** (`PresenceTrue`).  `RowInv` says of each mutation of the
  row that is on its way what comes behind it: an attachment that is not the
  connection's has another behind it or a detachment (`LastAttaches`); and once none is on its
  way the row is the connection's, or will be given up (`RowTold`).
- **DesktopProofs.ChannelHasProcess** (`ChannelServed`).  While the desktop and the app server use
  the same socket and nothing crossed (`Line`), `LineInv` says of every message on the wires
  what it finds when it is read: behind a close or an abandoned request only what is still
  asked for (`Spoils`, `Clear`), and behind an "opened" the process, or the
  message that ends the channel (`Served`).  `WireInv` (a socket's token comes first)
  and `MachineInv` (a request is sent once, and answered when it is done with)
  hold in any state.

What only TLC checks, and why: the liveness properties (*Fairness*), which are
out of the prover's reach.  Every invariant and every action property of the runs
has its theorem, under the hypothesis it is listed with above if there is one; the instances of the runs are there to show the states they
speak of, and to find out what a mutation of the code would break.

Out of this prover's reach: liveness under fairness and ENABLED; the library's
induction theorems, which take an operator; recursive operators (there are none
in the modules with theorems); `SelectSeq`, in place of which `HeldSteps` and
`PermissionsConfig` filter by places.  Induction itself is
within reach where it is over natural numbers or finite sets: the set of the counterexamples
has a least element (`LeastNatural`, from `WFMin`, which takes none), and that is how the
runs of layers and the sums of a tree are proved.

## Hazards and what is left out

PROJECT.json lists what in this code is hard to test, each at its line, with
the properties that would notice.  Left out of the modules, and why:

- data: texts, forms, widgets and messages are values of small sets;
- the clock outside Chats: deadlines and time-outs are actions that may happen
  at any time;
- in Chats: listing, searching, titles, archiving, and several chats at once,
  which share nothing of what is modelled;
- in Turns: what a revision of a stored message changes in it, and how a reply
  is cut into code;
- in Mcp: arguments, the toolkit and its search, the policy, authorization,
  containers, and several servers, which share nothing but `loading`;
- in Desktop: settings, the upgrade of an old app, pings as such, what is said to a server,
  several machines or names, and an ordered end of the app server;
- in Thread: `relay`, `place` and the watchers, which Turns has.

Of the components listed as not modelled, the interpreter, the language
service, the compaction, the models' clients, the user interface and the
evaluations are pure functions, rendering or I/O, where a model would restate the
code; the small extensions store one value each.

## Plan

Done, in this order: Thread and Delivery, Jobs, Budget, ReplLayers,
ImageLayers, HeldSteps, PermissionRules and PermissionsConfig, Chats, Turns,
Mcp, Desktop, and the proofs above.

Next, most important first:

1. **Session server**: several editors over one REPL, on the queue of HeldSteps.
2. **Files**: uploads, attachments and the bin of a workspace, whose rows and
   blobs are written apart.
3. **Journal and hooks**: what a step prints, to the user and to the model,
   composed with Turns.
4. **Promises**: the combinators and awaiting, of which Mcp has only loads.
5. Proofs: the invariants of these modules as they come.
