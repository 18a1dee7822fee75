# A verification of DuckBot memory

DuckBot memory stores what an agent learns: texts are embedded, put into vector
collections by tier, and recalled later. Around that store there are a daemon
that mirrors a workspace of markdown files into it, an MCP server, plugins of
Hermes and OpenClaw that talk to a process which hosts the memory, smaller stores
(blocks, a knowledge graph, skills, events), nightly passes, and commands that
back up, move, update and clean all of it. This directory holds TLA+ models of
these parts where order, failure and concurrency decide whether the system is
right, the TLC instances that check them, and TLAPS proofs of safety properties
and of one refinement for all values of the constants.

    cd tla
    tlc -workers 2 -config Watcher_safe.cfg MCWatcher     # one run
    tlapm ServerProofs.tla                                # one module of proofs

`PROJECT.json` holds the index: components, runs, the lines of source each
definition stands for, hazards, findings and theorems. Paths below are relative to
the repository; the Python package is its directory `src/`, and its plugins and
scripts are beside it.

## Inventory

| part | state it keeps | operations | hard behaviour | module |
|---|---|---|---|---|
| watcher sync pass (`src/watcher.py`) | `watcher_state.json`: mtime, hash, chunk ids per file | one pass: scan, forget, purge, ingest, save | edits during the pass, failing embedder or delete, torn save, crash | Watcher |
| watcher process (`src/watcher.py`) | `watcher.pid` | daemon, run, stop, status | commands that race on the file, stale records, recycled pids | Daemon |
| memory write path (`src/memory.py`) | a collection per tier, `superseded_by` in the metadata | remember, forget, supersede | interleaved calls, a lock per object, a retry outside the lock | Remember |
| recall and its tools (`src/query.py`, `src/memory.py`, `src/connectors/base.py`, `src/mcp_server.py`) | recall counters and due dates in the metadata | recall, wake_up, review, decay, verbatim search, related, index, inflate, nudge | filters after a truncated fetch, metadata read and written back later | Recall |
| bucket of `remember()`, quarantine (`src/connectors/base.py`, `src/injection_scan.py`) | tokens, rows held for review | remember, approve, reject | threads that sleep for a token, a clock set back | Admission |
| embeddings (`src/embeddings.py`) | one HTTP client, an LRU cache, probed dimensions | embed, probe, choice of provider | event loops that end, part of a batch cached, retries | Embedder |
| reranking (`src/rerank.py`) | chosen backend, a pool of threads | rerank | scores that hang, answers in another order | Reranker |
| chunking (`src/chunk.py`) | none | chunk_markdown | lengths with separators and overlap | Chunker |
| ingest of directories (`src/ingest.py`, `src/backends/chroma.py`) | rows by path, text and position | ingest, reindex-tier, vacuum of a tier | a batch that fails between others, a kill between add and delete | Ingest |
| session logs (`src/session_ingest.py`) | a state file with a time per log | distil the logs that changed | logs that grow meanwhile, state saved once, at the end | Sessions |
| consolidation (`src/memory.py` reflect, `src/consolidate.py`, `scripts/nightly_hy_pass.py`) | promoted marks, the writer model in LM Studio | reflect, load, unload | passes that unload each other's model, failing writers | Reflect |
| dreams and lessons (`src/connectors/dreaming.py`, `learn.py`) | dream files, `ingested` marks | read, cycle, learn | overlapping saves of one file, entries half written | Dreams |
| MCP server loop (`src/mcp_server.py`), events (`src/events.py`) | session, event store, restart flag | the methods of MCP, tool calls, restart | an event store that fails at any point of a call | Server, Service |
| rate limiter (`src/ratelimit.py`) | a token bucket per tool | check | a clock set back and right again | RateLimiter |
| export and import (`src/mcp_server.py`) | a markdown file | brain_export, brain_import | changes while tiers are read, near duplicates on import | Transfer |
| agents' files (`src/mcp_server.py` brain_sync) | MEMORY.md, USER.md, SOUL.md | fill under a budget | recalls and writes one after another | Mirror |
| update (`src/cli.py`, `src/mcp_server.py`) | working tree and stash | stash, pull, pop | an older stash, failures between two git commands | Update |
| upkeep (`src/cli.py`, `src/backends/chroma.py`, `src/events.py`) | collections by name and id, event log and archives | vacuum, prune, fsck, rotate | another process holds the collection or the file | Upkeep |
| backup and restore (`src/cli.py`, `scripts/`) | archives, a temporary directory | backup, restore, reset | a kill between two steps, writers meanwhile | Archive |
| memory blocks (`src/blocks.py`) | SQLite rows and their history | create, write, append, replace, rethink, delete | read before write on several connections | Blocks |
| knowledge graph (`src/graph.py`, `src/graphwire.py`, `src/entities.py`) | SQLite entities, aliases, relationships | upsert, relate, merge, reconcile | reads outside the transactions that write | Graph |
| graph observer (`src/observer.py`) | none | causal trace, blind spots | the graph changes between the queries of a trace | Observer |
| skills (`src/skill_pipeline.py`, `src/skillgen.py`) | marks on chunks, `SKILL.md` files | stamp, promote | file first, mark later, edits by the owner | Skills |
| coding memory (`src/coding.py`) | a record per commit | store_chain | overlapping runs, commits with one subject | Chain |
| bridge (`src/plugins/memory/duckbot_brain`, `src/brain_worker.py`) | worker process, lock, executor queue, mode | probe, call, sync_turn, shutdown | an answer is the next line, worker death and hang, close without the lock | Bridge |
| Hermes plugin (`hermes/plugins/duckbot_brain`) | brain, ready flag, session, queue of turns | initialize, session start, sync_turn, shutdown | an executor that builds the brain while the agent goes on | Hermes |
| tools of agents (`src/extensions/tools.py`, `src/extensions/duckbot_brain/adapter.py`, `src/connectors/openclaw*.py`) | one brain per process, a pool of two threads | dispatch, handle, brain_remember | threads that share a lazily made brain, texts still queued when the process ends | Tools |
| OpenClaw connection (`extensions/duckbot-memory/lib/stdio-rpc.js`) | pending requests, input buffer | send, data, exit, close | events that end anywhere, late answers, timers | StdioRpc |
| OpenClaw lifecycle (`extensions/duckbot-memory/index.js`) | shared child, reference count, registered and deferred tools | register, handshake, respawn, gateway_stop, restart, shutdown | respawn timers against shutdowns, workers that join during a handshake | Shim |
| FSRS, decay, scoring, tier priors; LLM clients; reports; installation | | | floating point, HTTP, text | not modelled |

How they interact: the watcher, Brain and the MCP tools call `Memory.remember()`,
each from its own process or object, on one Chroma directory; agents reach Brain
through the tools, whose doors are an adapter, the worker, a command and the plugins;
the bridge, the Hermes plugin and the shim are clients of processes that host a
Memory; the
watcher's commands know of each other through one file only. No lock is shared by
two processes: what keeps them apart are SQLite's transactions, the order of
writes, and files renamed into place.

What makes each correct, in a sentence:

- *sync pass*: the record tells what the store holds, so that purging by recorded
  ids and skipping by recorded hash are right, and the store ends up as the files;
- *process*: one watcher at a time, and `daemon` does what it says;
- *write path*: one current version of a fact, and hidden chunks lead to a
  younger one that is there;
- *recall*: nothing that was superseded before it began is in an answer, counting a
  recall undoes nobody's mark, and wake_up finds what there is to find;
- *what waits*: every call ends, whatever it waits for hangs or says;
- *server*: a line gets one answer with its own id, through faults and restarts;
  a tool is called no more often than its bucket and refill allow;
- *ingest and passes*: what is marked as done was stored, what is reported is there,
  and chunks have the words of their file;
- *stores*: a history ends with the content, a fact told is not merged away, a mark
  has its file;
- *moving and cleaning*: some copy survives each kill, changes that were put aside
  come back, and nothing is deleted that was not to be;
- *bridge, connection, lifecycle*: a call reads its own answer, one worker is at the
  store, no answer is lost, one child lives and the last worker kills it;
- *tools*: callers share one brain, and a text that was answered "queued" is dealt with.

## Modules

Each component is a module; `MC` modules hold TLC's constants and put several
components in a run; `Proofs` modules hold theorems.

Four `MC` modules run components that share no state with one another: `MCServer`
(Shim and Server), `MCStores` (Blocks, Graph, Skills, Chain, Archive, Transfer,
Mirror), `MCMemory` (Recall, Chunker, Ingest, Sessions, Reflect, Embedder, Observer,
Dreams, Update, Upkeep) and `MCCalls` (Daemon, Bridge, Tools, StdioRpc, Admission,
Reranker, Hermes; the first two are extended, the others instantiated). A behaviour is one of `part`, chosen at the start; the variables of the
others stay in one initial state, so that the state space is the sum of those of the
parts and not their product. A property named there says `part = ... =>` and then
a property of the component. Where components do share state they are one module
that extends or uses the other: Server extends RateLimiter, its step `Rate` being
that module's `Grant` or `Refuse`, and implements Service.

### Watcher

`sync_files` step by step: `BeginPass` takes the modification times, `ForgetGone`
purges files that are gone one at a time, `Take` and its parts (`SkipOld`,
`SkipUnreadable`, `SkipUnchanged`, `OpenChanged`) are one turn of the loop over
files up to the ingest, `Ingest`/`IngestFails` one call of `remember()`, `Finish`
writes the entry and, after the last file, `Save`s or dies during the save
(`TornSave`). `Edit`, `Remove` and `Backdate` are other programs, at any moment;
`Crash` is at any moment, `Start` loads the state file.

A file's text is the set of pieces `chunk_markdown` makes of it, equal sets having
equal hashes. `Memory.remember()` chunks its text again: `Split[p]` is into how
many. `tier.classify` returns an object that the batch path uses as a string, so
that path always raises and the fallback, a call per piece, is what runs; it is
what the model has. That `remember()` also marks a near duplicate superseded, which may be
a chunk of another file (`memory.py:390`), is in Remember: here a chunk that is in the
store counts as searchable. The watchdog observer, which only triggers passes, and the
statistics are left out. One process uses the state file.

### Daemon

Commands are processes that take one step per access to the pid file or to a
process: `Look`, `Read`, `Probe` (`kill(pid, 0)`), `Terminate`, `Unlink`, `Fork`,
`Write`. `Crash` kills any of them, `Recycle` gives a pid to a stranger. Writing
the file is one step (it is a few bytes); a process that may not be signalled
counts as dead, as the code has it; the parent's polling for two seconds changes
nothing and is left out. The Windows branch is not modelled. `trouble` remembers
whether a command died or a pid was reused (`Mishap`), or two commands, or one
other than `daemon` and `status`, were used (`Misuse`).

### Remember

Calls of `Memory.remember()` as a program with five places: embed, take the lock,
look for the nearest chunks, mark, add; on a failure the add is retried outside
the lock, as the `except` branch does. `Forget` and `Supersede` take no lock.
`Instance[c]` is the Memory object of a call; `Brain` passes `persist_dir` and so
makes a new object, with a lock of its own, for every call. Ids are hashed from text and
source, so equal texts of two sources are two facts at distance 0, and the query for one
result may return either. An upsert in Chroma 0.5 merges metadata, so
a chunk that is there keeps its mark (`Upsert`, external). Left out: `facts=`,
several chunks in a call, the graph feed, queues of waiters on the lock (any
waiter may be next, which is more than asyncio allows), and stale reads between
processes.

### Recall

Tools as programs over rows kept under a tier and an id: a fetch, filters, bumps of
what is returned (read the metadata, write them back), and what wake_up, review,
decay, verbatim search, related, forget by query, index, inflate and nudge do
before and after. Each access to a collection is a step. Any rows that fit may be
nearest; `Scenes` give rows and three concurrent tools each. Ranking, boosts and
decay put what was fetched in any order.

### Admission, Reranker, Embedder, Hermes

Four places where threads wait. *Admission*: `Try` looks at the bucket, `Decide`
refuses or sleeps as long as the bucket says, but no longer than a nap, and a sleep
counts real time while the bucket reads the wall clock; then the scan and the
quarantine, with a reviewer. *Reranker*: a search chooses a backend, probes it once
for all, hands its hits to the shared pool and waits for so long only; a score may
hang and keep its thread. *Embedder*: `auto_detect_provider`, the dimension probe,
and a call of `embed()` of any of the four HTTP providers from cache through batches and retries; loops end and take
their client with them. *Hermes*: hooks on the agent's thread and an executor of
two threads that build the brain, warm it and store turns, unless `remember()` answers
that it has not.

### Server, RateLimiter, Service

The loop of `mcp_stdio()`: `Read` or `Skip` a line, `Initialize`, the call's way
through `Rate`, `Pre` (event), `Run` (the handler returns or raises), `Post` (event),
`Write`, and `Leave` after a restart. `DiskChanges` locks and unlocks the event
database, `Killed` and `Boot` are the plugin's. `Service` is what a client may rely on:
lines are asked, answered in order with their own id, with none or not at all; the
process leaves only after the answer to a request for a restart, at once and with no
other answer between; what was not answered is lost when it leaves or is killed, and
at no other time. The refinement maps what was asked to the lines taken and in the
pipe, and to those answered when the process is gone, and the place of the loop to
whether the process is up, leaving, left or killed. In RateLimiter a token is `Minute`
units so that fractions are exact; `SetClock` sets the wall clock back and right
again. The wait that a refusal tells is rounded to nearest (`RetryAfter`), to a
multiple of `Grain` ticks: it may be short, even 0.0, and `RetryHonest` asks that a
caller who waited so long lacks no more than half a grain brings.

### Chunker, Ingest, Sessions, Reflect, Dreams

*Chunker*: the functions of `chunk.py` as operators over sequences of numbered
words, so that one can tell which words a chunk has and from where; texts grow at
the end, as diaries do. Each pass of the code over a sequence is a recursive function
whose step is an operator of its own (`Taken`, `Put`, `Under`, `Prefixed`), so that it
can be reasoned about. `MCChunker` gives it its constants and is extended by `MCMemory`;
it is a module of its own so that `ChunkerProofs` has nothing else before it.
*Ingest*: batches that fail, kills, and rows forgotten meanwhile; a re-ingest and
`reindex-tier`. *Sessions*: one run over logs that grow. *Reflect*: chunks by
age, facts from a writer that may answer nothing or from expressions, deduplication (texts
without a Latin word or digit, `Wordless`, are like none), and the loading and unloading of the writer by several scripts. *Dreams*: `read()` and
`cycle()` that overlap on one state file with one temporary file.

### Blocks, Graph, Observer, Skills, Chain

Blocks, Graph and Skills are programs of two or three clients whose reads are
outside the transactions of their writes. In *Graph* a client runs the operations
of a tool in order (`Program`); plans say which tools are started. An upsert is its read
and its write, and so is the rewriting of an alias list; `raced` remembers that two of
these overlapped. *Observer* is the
breadth-first trace over a graph that changes between its queries; the survey is of all
entities, without its caps of 1000 read and 50 told (`graph.py:256`, `observer.py:428`).
*Chain* is `store_chain()`, commits that arrive and a writer that comes and goes. What
git prints of a commit is split as the parser does: its `Message` has the lines of the
first paragraph that look like a path, and those of the later paragraphs; what follows
from them is `FilesOf`, which may be files, lines of the message or both.

### Archive, Transfer, Mirror, Update, Upkeep

Commands of an operator beside running agents, a step per access to something they
share: files of `data/`, a git command, a collection, the log. Kills come between any
two. *Archive* has `backup`, `restore` and `reset` of `cli.py` and the two shell scripts.
*Transfer* keeps of a file's lines only what the import tells apart, a section of one
chunk; the import goes through `remember()`, which marks the nearest memory superseded
if it is a near duplicate (`Alike`), one that was there or one from the file. *Mirror* fills
files by importance and length under a budget. *Update* is two updates and an owner
on one stash. *Upkeep* tells a collection's name from the id a process holds.

### Bridge

`_call_blocking` of three threads (agent, executor, probe), the worker's loop
(`Serve`), `is_available` with its timeout, `sync_turn`, `shutdown`. A worker may
die, hang or print a stray line. `close()` takes no lock and can come in the middle
of a call; `ReadNothing` allows the read to end empty at any point of it, a little
more than the operating system does. After a timed out probe bridge mode stays off.
Not modelled: direct mode, a `Popen` that fails, full pipes.

### Tools

A call comes through one of four doors: the JSON-RPC adapter and the brain worker
answer a line at a time, `openclaw <verb>` is a process for one call, a host calls
`dispatch()` from several threads. `Look`, `Lock` and `Build` are `_get_brain()`.
`Queue` is brain_remember: the text goes to `_REMEMBER_POOL` (`Take` is a thread of
it), or is kept by the caller when the pool is shut down. `KeepNow` is what is kept
before the answer: a skill candidate, `handle()` of the connector (the verb `call`), and
the worker's own operation. `Bucket`, `Mark` and `Add` are the steps of
`Brain.remember()` that others may see, with the outcomes of Admission and the order of
Remember. `Leave` is the end of `main()`, `Gone` the interpreter having waited for
its executors, `Killed` a signal. In between the pool goes on, and no executor takes new
work. Not modelled: arguments, the rate limit (RateLimiter has it), what the tools
that keep no text compute.

### StdioRpc and Shim

*StdioRpc* is the framing of the OpenClaw plugin. Streams are sequences of tokens: a
message is two of them, so that an event may end in its middle, then a line end; a
line of a library is junk. `Left` and `Parsed` are `_drainBuffer`. The server answers
with the id, without (an exception outside the tool), or leaves. It never prints a
Content-Length header and `json.dumps` prints ASCII, so that branch and characters
cut in two are left out. *Shim* is the plugin around it: `Load` is `register(api)`,
`FirstListed` and `Relisted` are the ends of the two handshakes, which treat queued
tools differently, `Exit`, `Respawn`, `Stop`, `Restart`, `Shutdown` the handlers. A step
is what runs from one await to the next. `reg[w][t]` is the connection that worker
`w`'s tool `t` has captured. A spawn that fails with an `error` event (there is no exit
then, so no respawn), configuration, session hooks and the stderr log are left out.

## Runs

| run | module | what is asked |
|---|---|---|
| `watcher_safe` | MCWatcher | with a fault of each kind, do recorded ids and hashes tell what the store holds |
| `watcher_live` | MCWatcher | without faults, does the store end up as the files, and is a file that is recorded searchable |
| `watcher_embed` | MCWatcher | violation: a piece that could not be embedded is recorded as synced |
| `remember_safe` | MCRemember | on two Memory objects, with forget, supersede and reconcile and a call and its retry failing: one visible version per object, marks that lead to younger chunks that are there, and what may close a circle |
| `server_safe` | MCServer | one child, tools listed and registered, respawn, reference count (Shim); limits, answers with their own id, the service (Server) |
| `shim_respawn` | Shim | violation: tools registered before a respawn stay with the dead child |
| `stores_safe` | MCStores | histories, facts and aliases, marks and files, links, round trip of export and import, agents' files, and restores that are killed |
| `archive_force` | MCStores | violation: a restore without `--force` deletes stores that are not vectors |
| `memory_safe` | MCMemory | nothing stale recalled and nothing revived, chunks that keep their words, ingest and passes that say what is there, vectors of one's own, nearest traces, changes that come back, nothing swept |
| `chunker_verbatim` | MCMemory | violation: verbatim text with a separator twice |
| `calls_safe` | MCCalls | one watcher; answers of the bridge in step and one worker; no answer and no queued text lost, one brain; scores of one's own; the daemon starts, every call and every wait on the bridge ends, the agent keeps going |
| `tools_exit` | MCCalls | violation: a text answered "queued" is dropped when the process ends |

Each property is named after what it says; its comment gives the line it is about.
Every property of a passing run has a mutant in `PROJECT.json`, a definition with a
plausible bug in it, under which the run fails.

`watcher_safe` and `watcher_live` are two because a file that could not be embedded
does not converge: liveness needs an instance without faults, and safety one with.

### Bounds

- *Watcher*: two files let a pass be in the middle of one while the other changes;
  three ticks let a file be written, changed during its ingest and changed again;
  two pieces let a set of pieces shrink, grow and change.
- *Remember*: equal texts of two sources, a near duplicate of both and a fact of their
  topic; three calls, two on one object and one on another, allow a statement, its
  successor and the statement again; two faults fail a call and its retry. `Trouble`
  bounds a behaviour to faults or to one of forget, supersede and reconcile.
- *Bridge*: three calls, a request being answered, one waiting and one after it; four workers
  leave one for each way of losing one and one more.
- *Server*: six lines of four kinds, with three calls, over one bucket that a single
  call empties; two ticks are a minute, and the grain of the rounding is as long, so
  that a wait of 0 and one too short are told. That one tick is a refill by half, that a
  clock behind by one and right again gains what it lost, and that a call comes
  before, between and after, all happen. `TimeAtRest`, an ACTION_CONSTRAINT, lets time
  pass and the clock be set only while the loop reads or is gone: nothing but `Rate`
  looks at the clock. The theorems about the limiter are free of it.
- *Shim*: one child to exit, a replacement to exit in turn, a last one; a third
  worker to join after another left; a tool of both lists, one static only, one
  served only.
- *Stores*: three requests on a block (one reads, one writes, one deletes in
  between); two clients of the graph and three to five jobs, in four orders that make
  duplicates, aliases and merges; two chunks whose titles share a slug or do not, and
  three promotions; three parts of `data/`, two writes, two archives, a kill; two
  tiers with three texts, one alike to both others, a change, a failure and a memory that
  the other brain had; four commits with two files, two of them with one subject, two with
  a trailer in common, and a merge whose message names a file; five entries, more than either budget has room for.
- *Memory*: six scenes of three concurrent tools over four ids and four tiers, each
  with more superseded rows than a fetch returns, or a mark that comes between read
  and write; two files with two pieces, a change and a mishap; two logs, two turns,
  two failures; three embeds that share texts and a cache smaller than their union;
  three webs of five edges, with a diamond, a double edge and a circle; two dream
  cycles; two updates; collections under two names and an old one; a text of ten
  characters, chunks of six with two of overlap; three episodes, with one text told of two
  of them that has no word, and a cap of two.
- *Calls*: three pids (a watcher, a command, one that is recycled or a second
  command); two requests on the connection (`MaxRequests`) and a line of junk, for one to
  be answered while the other waits; two callers for a bucket of one; two searches on two
  threads and two backends; two sessions with two turns; two callers of tools (one
  waits while the other makes the brain), two texts and one helper, for a text to be
  queued behind another, and one failure.

`CHECK_DEADLOCK FALSE` is in every configuration, as all of these stop lawfully:
when the bounded edits, calls or children are used up and nothing is pending.

Symmetry is used where only safety is checked: files and pieces in
`watcher_safe`, the two calls on one object and the two equal texts in
`remember_safe`; promotions, the runs of the chain and the two texts that are alike to one
other in `stores_safe`, as one group of six permutations, since one part runs at a time.

### Fairness

Only steps of the program that nothing but the scheduler can hold back are fair, and
weakly; users, crashes, servers and hung workers owe nothing.

- *Watcher*: the daemon's own work. The polling loop runs for ever and nothing in it
  waits for another actor.
- *Daemon*: each started command's next step.
- *Bridge*: each thread, each worker that is up and has input, the reaping of dead
  children, and the provider. The lock is not fair, but the calls that compete for it
  are finitely many. Hung workers are excepted.
- *Tools*: each caller's and helper's next step; nobody need call, and the process need
  not end.
- *StdioRpc*: a request's timer only; the server may be as slow as it likes.
- *Shim*: timers and exit events, and the end of a child that was told to end.
- *Admission*: time passes, and a thread whose sleep is over takes its turn.
- *Reranker*: the turn of a search, which waits with a timeout; the threads of the pool
  owe nothing.
- *Hermes*: the end of the wait of `on_session_start`, which is a timeout, and the two
  threads of the executor.

## Deviations

Five are runs with a counterexample.

1. `watcher_embed`: when `remember()` fails for the pieces of a file, the pass
   records the file as synced all the same (`watcher.py:303`). It is skipped as
   unchanged from then on; `watcher once`, described as "useful for backfill or
   recovery", does not recover it.
2. `shim_respawn`: tools registered before a respawn keep the dead connection
   (`index.js:162`), so after `brain_restart` each call fails or waits 60 seconds.
3. `archive_force`: whether there is live data is asked of `chroma/` only
   (`cli.py:1185`), so a restore without `--force` deletes blocks and graph of a
   brain that has no vectors yet.
4. `chunker_verbatim`: a paragraph that is split at sentences and merged again has
   each separator twice (`chunk.py:91`), so its verbatim text is not in the source.
5. `tools_exit`: brain_remember answers "queued" when the pool has the text
   (`tools.py:528`). The verb `remember` ("save a memory (non-blocking)",
   `openclaw_shim.py:27`) then ends its process; the pool is drained at exit, but
   `add_chunks` awaits `asyncio.to_thread` (`store.py:174`), which raises "cannot
   schedule new futures after interpreter shutdown". It is logged and the text is gone,
   and the near duplicate it was to replace has by then been hidden.

Others were met while modelling and have no run. The properties are stated so that
they hold beside them, which their comments say.

*Watcher, bridge and plugins*

- The daemon ignores SIGTERM (`watcher.py:742`), and `stop` sends just that, removes the
  record and reports success; the next `daemon` starts a second watcher. `OneWatcher`
  is stated for `daemon` and `status` for this reason. `rebuild-watcher-state.py` writes
  records without chunk ids.
- A piece that `remember()` cuts in two leaves the second chunk unrecorded
  (`watcher.py:299`). The properties over ids assume `Unsplit`.
- Only the probe of the bridge has a timeout: a worker that hangs blocks the agent's
  loop. `shutdown()` closes the worker before the executor drains, and a queued job
  starts another one, which nobody closes (`duckbot_brain/__init__.py:410`).
- A data event that ends inside a line loses it when another line of the same event
  was whole (`stdio-rpc.js:124`); `NoAnswerLost` is stated under `Careful`.
- A worker that joins the plugin after the handshake gets no tools, tools that only
  the server lists are not registered when the first handshake fails, a failed
  handshake is not retried, and `timeoutMs` aborts a controller nobody listens to.
- Hermes: a turn queued before a new `initialize` is stored under the next session, a
  warm-up of the old one sets the ready flag of the new, two threads may build two
  Brains, `handle_tool_call` swaps the Brain of a shared module, and
  `on_session_start` always waits its six seconds. Neither of its jobs looks at what
  `remember()` answers (`__init__.py:574`, `:815`): a turn that the bucket refuses or the
  scan quarantines is neither stored nor logged (`refused`).

- The pool drops what it is told: a text that the bucket limits or the scan quarantines
  was answered "queued" (`tools.py:391`), and a skill candidate is answered `status:
  stored` also when `stored` is false (`tools.py:516`). The worker's operation
  `dispatch` uses the brain of `tools.py`, not the one that `DUCKBOT_BRAIN_DATA_DIR`
  points elsewhere (`brain_worker.py:21`).

*Memory*

- The write lock is an attribute of one Memory object and callers own an object each
  (`memory.py:372`), so two writers can both find no near duplicate, and only the nearest
  chunk is looked at, superseded or not: a third chunk may screen a visible one.
  `NoVisibleTwins` excepts both.
- A statement that was superseded and is remembered again keeps its mark
  (`memory.py:439`), and may close a circle that hides all of it. Remember a text from
  one source, from a second, and from the first again: the query may return the second
  chunk, which is then marked by the first, marked by the second before. A reconcile
  model is asked about newer chunks in the same way, the one that superseded the
  statement included. `SupersederIsYounger` says that nothing else closes a circle;
  without either exception (`MayCircle`) TLC finds one.
- Superseded rows are filtered after the fetch was cut (`chroma.py:277`), so an answer
  may be short; counters are read, changed and written, and one of two is lost;
  related rows gain without a cap; review, decay_status and verbatim search count
  everything they fetched; wake_up's due section waits without its timeout; forget and
  supersede act on the first tier with the id; decay_apply never prunes
  (`base.py:1437`); nudge sees the first rows of a tier only.
- The bucket's tokens go negative when the clock is set back. Bridged tools and the
  server's own `remember` handler pass by bucket and scan.
- A failed probe of the dimension is recorded as not to be retried, and is; the embed
  cache does not know MiniMax's kind of embedding; a fallback provider with another
  dimension makes writes fail; the shared HTTP client keeps its first timeout; a short
  answer leaves vectors empty. Four hung scores hold the rerank pool for good.
- `fsck` compares each collection with the size of all; `reindex-tier` adds chunks of
  other tiers (`cli.py:545`); an ingest counts failed chunks by tier; a piece whose
  tier changes leaves a twin behind; `add_chunks` raises where its comment says that
  the next batch is tried.
- The chunker collapses blank lines, drops sections that are a header only, splits at
  `#` in code, and its offsets are not those of the source.
- A log whose read or distillation fails is marked as done (`session_ingest.py`); a
  half-written diary entry is remembered, then remembered again; `cycle()` may save
  marks over those of another; the dreams and brain_sync files are among the
  watcher's, so what the brain writes comes back as memories.
- `reflect()` takes superseded chunks too and the first ones in insertion order; facts
  past the cap are never promoted; a chunk forgotten during the pass is. The nightly
  job has no `finally`, and any script unloads the writer under another. Two equal facts
  without a Latin word or digit are both kept (`consolidate.py:294`).

*Stores, server and commands*

- `append` of a block loses one of two that overlap (`blocks.py:169`). Superseding a
  relationship is two commits though documented as atomic; merging aliases leaves the
  alias table as it was and its transaction open when it removed nothing; overlapping
  changes of aliases lose one, or leave one listed that no lookup finds, so that
  `ListedAliasResolves` is stated for histories in which no two overlapped (`raced`).
- After its title was edited, a skill that is promoted again gets another file; after a
  crash between file and mark only `overwrite` helps. Commits with one subject share a
  record, and are stored again by each run; overlapping runs store a commit twice, as
  its subject and distilled. What git prints of a commit is split at the first blank
  line (`coding.py:61`): the later paragraphs of its message, trailers too, are taken
  for files, and come first, so that "Signed-off-by" decides the link.
- The restart tool gives full buckets; tools without a handler pass by limiter and
  events; the row of `initialize` is unguarded, so that a locked event store answers
  it without an id.
- `reset` suggests an archive that `restore` refuses; a backup skips files it cannot
  read, and names have a resolution of a second; `restore` deletes `data/backups` with
  the rest. An export leaves out a tier that raises; an import of superseded rows shows
  them again, and prefixes titles. What is imported hides the nearest near duplicate of its
  tier, be it one that was there or one from the file; with `include_superseded` an old
  memory may so hide its successor. `RoundTrip` excepts what a text of the file hides.
- A stash that failed is popped all the same and takes an older one; an interrupted
  update leaves the stash. MEMORY.md may exceed its budget by its newlines, and its
  writes are not atomic. `rotate --gzip` starts no new log; `purge_quarantine` names
  a column that is not there (`cli.py:606`); `chroma.reset` calls a method that is not
  there; after a vacuum a running brain's handle is dead.
- The observer counts each matched edge into its coverage, and fails on a depth of 0.

## Theorems

All are of the form `Spec => []Inv`, `Spec => [][A]_vars` or `Spec => AbstractSpec`, over
arbitrary constants under the `ASSUME`s of each module. These say that bounds are
natural numbers and markers are none of the things they stand beside; and, where the
code says so: a header of a file has its line, an update or an ingest is of finitely many
things, tiers are told apart by name, `Dist` is symmetric and tells a fact from others, a limit is at least
one call and a bucket holds at least one token, a title has a slug, `chroma/` is a part
of `data/`, files and lines of a commit are names, its distilled text is that of no other
commit and no subject,
callers are not threads of the pool.

| module | theorem | argument |
|---|---|---|
| `WatcherProofs` | `TypeCorrect` | step by step |
| | `ChunksTracked`, `HashesTrue`, `PurgesOwn` | `IndInv`: `OwnIds` and `NothingUntracked` carry themselves; `HashIsTrue` needs `LoadIsTrue`, what the store holds in the middle of an ingest, and the two are inductive together |
| | `SyncedIsSearchable` | `Timely`, `Current`: an edit gets a time that was never seen, so a file that still has its recorded time has the recorded text; then `HashesTrue` |
| `RememberProofs` | `TypeCorrect`, `MarksStay` | |
| | `Successors` | between mark and add a call is about to add |
| | `Acyclic` | `IndInv`: a chunk about to be marked is older than the one that hides it, after retries too, unless that one was stored by an earlier call (`Stored`, `HitsAreOlder`) |
| | `OneVersion` | `IndInv`: past the query, a call knows every visible near duplicate that its object stored, or of a chunk that screens it (`TwinsSeen`) |
| `ServerProofs` | `TypeCorrect`, `ReadyAlways` | of Shim |
| | `OneChildAlways` | `Successive`: either the latest child lives or one respawn may be due, never both, so a timer that fires after a restart or shutdown finds none alive |
| | `NotKilledInUseAlways` | `Counted`: the count is the number of workers in, until the handle is used |
| | `FirstHasToolsAlways` | `Toolsets`: until the first handshake ends the queue has static batches only, that of the worker that loaded first in front |
| | `LimiterInvHolds` | what each call granted since some earlier one, with what is left, was paid for by a full bucket and the refill since then (`PaidFor`); at a promised time the bucket lacks at most what half a grain brings (`Kept`) |
| | `LimiterAlwaysHolds` | every step of the server is one of the limiter, or leaves it alone |
| | `AnswersAlwaysHold` | `ServerInv`: the line being served is the last one taken, and the only one without an answer |
| | `ServerImplementsService` | from the same invariant, with `Asking` (a restart that is due was asked for by the line being served, or the last one): `Send` asks, `Skip` and `Write` answer, `Leave`, `Killed` and `Boot` are the service's, all else is not seen |
| `StoresProofs` | `BlocksHoldAlways` | `BlocksInv`: while a request may still end in an error, no block, no history and nobody's plan has its text (`Unwritten`), and an update has read what it replaces (`UpdatesRead`) |
| | `RestoreHoldsAlways` | `ArchiveInv`: a backup has the archive it writes (`CommandOK`), a restore has in the temporary directory what it extracted, and what is no longer to be copied is live unless written since (`Applying`) |
| | `WorkIsKeptAlways` | `SkillsInv`: between file and mark a promotion's file is there (`Underway`), and a request alone with its chunk has seen its mark (`InTurn`); `ChainInv`: a walk links to what it or another has recorded (`Walking`, `Links`), and a walk alone at work knows all that has a record (`Knowing`), and of the commits without a record behind a walk there would be a first one |
| | `GraphHoldsAlways` | `GraphInv`: the oldest active duplicate of a fact outlives every merge, from whatever it was read (`OldestStays`); an alias list that was read is that of the entity as long as no other change overlaps (`ReadIsThere`) |
| | `FilesHoldAlways` | `TransferInv`: what the file shows was in the store or was put in since (`Shown`), each tier that was written has its lines (`WrittenDown`), what was read back is in the store, has given way to a text of the file or is still to be put there (`Brought`), what the importing brain showed is shown or has given way (`OwnKept`), and what is superseded is nowhere in a file that does not ask for it (`Hidden`); `MirrorInv`: what a call has read was in the bank when it began, each answer of the tier asked for (`OfCall`), and a file that is not still to be written says what the answers fill it with (`WrittenSoFar`) |
| | `StoresTyped` | each part's invariant has its type |
| `PassesProofs` | `PassesHoldAlways` | `IngestInv`: what a run without errors has read is about to be added, stored or forgotten since (`Accounted`); `SessionsInv`: a time that is saved, or about to be, is that of what was distilled or given up (`Covered`, `InHand`); `DreamsInv`: a mark that is written or about to be is of an entry in memory (`Sound`); `ReflectInv`: facts kept are what deduplication makes of the facts (`DedupedIs`), and who uses the writer is counted (`InUse`); `ChunkerInv`, below |
| | `RecallHoldsAlways`, `NotRevivedAlways` | `RecallInv`: what was superseded when a call began stays so or goes, and every hit is of a row that was unmarked since (`Fresh`); `RowsStep`: what any step does to a row |
| | `ChangesBackAlways` | `UpdateInv`: the stash is as long as what updates in between owe it (`Owed`), whoever pops whose entry |
| `MemoryProofs` | `OwnAnswerAlways` | `EmbedInv`: a call's vectors, its cache hits and the batch on its way are at the places of their texts, and a client is of the loop that posts over it (`OnItsLoop`) |
| | `NothingSweptAlways` | `CollectionsHold`: a name without a collection is being vacuumed; `LogHolds`: a committed event is in the log, in an archive or was pruned; there are always ids left for another file |
| | `TraceIsNearestAlways` | `TraceInv`: what is known is all that is nearer than the level being looked at, each at its least distance (`Nearest`, `Traced`), unless the graph changed |
| | `MemoryTyped` | each part's invariant has its type |
| `CallsProofs` | `TypeCorrect`, `OneWatcherAlways` | `IndInv` of Daemon: one process is busy, a running watcher is on record, a pid that was read is the runner's, nobody runs when the file is about to be removed or written |
| | `BridgeTypeCorrect`, `AnswersMatch` | `InStep`: between a worker and the thread that waits for it there is one line, and a worker nobody waits for owes nothing |
| | `OneAtTheStore` | `Known`: the only processes are the current one and the one being killed |
| | `AllTypesAlways`, `NoAnswerLostAlways`, `RanksByOwnScoreAlways`, `ProcessesApart`, `NapsEndInTime`, `TurnsAccountedAlways` | `CallsInv`, the conjunction below of an invariant for each part; `PartsStep`: a step is one of a single part and leaves the others' variables alone |

The conjuncts of `CallsInv` are those of Daemon and Bridge and

- `RpcInv` for the connection: as long as no data event ended inside a line, buffer and
  pipe are whole lines (`RpcFramed`), and a request without an answer is in the server's
  stdin or has its line in the stream (`RpcFound`); and if requests came one at a
  time, there is nothing else in it (`RpcSingle`), cut or not. The lemmas before it
  say what `_drainBuffer` leaves of any stream: the line that is complete is found
  wherever the stream is cut;
- `ToolsInv`: who makes the brain holds the lock and there is none (`ToolsLatched`), a
  text is with one thread or once in the queue (`ToolsApart`) and not dealt with before
  (`ToolsOpen`);
- `RerankInv`: with it the lemma that an order by score exists for any hits
  (`SortedExists`): each hit has as its place the number of those that come before it, and
  that this is a permutation is a counting argument;
- `AdmissionInv`: the bucket stays under its capacity and a nap ends before the
  deadline; what the bucket lacks is divided by its rate and rounded up;
- `HermesInv`: a turn that was handed over is in the queue, with a thread, stored,
  logged as lost or refused by `remember()` (`TurnsAccounted`), and nothing is queued before the first session.

What the chunker promises (`ChunkerInv => ChunksFit /\ WordsKept /\ OwnSection`) is a
theorem about `chunk_markdown(t)` for every file `t`, and the only thing to be inductive
is that the file remains one (`FileText`: a character tells its place, and a header has
its line). `SplitIs`, `JoinIs`, `PartsIs`, `MergeIs`, `RefineIs`, `RecursiveSplitIs` say
of each function of `chunk.py` that its result has the words of its argument, in order;
`CutIs` that the last separator, none, leaves nothing longer than `Size`, since what the
other four leave is cut; `LinesAre` and `SectionsAre` that a line has the characters
between two newlines, so that the words of a section are below its header and above the
next.

Recursive functions need an induction over data, for which the library's theorems take an
operator. Here it is done with sets instead: `LeastNumber` (a set of numbers that is
not empty has a least one), from it `Upward` (a set that has 0 and with each number the
next has all up to n), and `Recursion` (a function defined by recursion up to n exists,
with its type). For each recursive function a lemma says that it is that function
(`SplitBy`, `MergeBy`, `LapsBy`, ...), and what it computes follows with `Upward` from the
lemma about its step. No operator is `RECURSIVE`.

The types alone are never inductive for these: a `Respawn` could meet a living
child, a read could wait for a worker that was not spawned, a bucket could have spent
what it was never given. `WindowBound` says nothing of what is left in a bucket, which
is why it takes `PaidFor`: that a clock that was set back and right again is not paid
for twice follows from `last_refill` not going back with it, and fails when it does
(the mutant `RefilledBack`). The strengthenings were checked with TLC as invariants of
the runs. They found out about the model that in `FirstHasTools` and `GraphHolds` the
inductive invariant needs what the code does *before* (the queue of the shim, what a merge
has read); that a listed alias resolves only if changes of aliases do not overlap, which
`raced` was added for; and that the round trip of an export had been stated too strongly
for three tells or more: a text that was told, exported, told again and imported may be
away from its tier although it was there before, so what is said of the old memories
speaks of those that were not told again (`oldBefore` of Transfer).

Only model-checked:

- what holds under fairness (`Converges`, `DaemonStarts`, `EveryWaitEnds`,
  `EveryCallEnds`, `AgentKeepsGoing`, `Replaced`), which the prover does not reach, but for
  the safety in it: `NapsEndInTime` and `TurnsAccountedAlways`;
- `NothingLost`: that appending to a file leaves the ids of its chunks but the last as
  they were compares the chunks of two files, function by function; and `WakeUpFinds`
  is not true of any number of rows: `wake_up()` gives up after three fetches, so it
  finds what there is only while the superseded rows are fewer than its last fetch, as
  they are in the scenes of `memory_safe`.

## Plan

All modules planned are written, and every safety property of the passing runs but
`NothingLost` is a theorem. What is left:

1. `AppendTouchesLast`: from a relation between the pieces of a text and of a longer one
   (all but the last are the same), through each function of the chunker;
2. two processes on one watcher state file, which need a run of their own; the hazard is
   listed without a property.

## Not modelled

- FSRS, decay curves, scoring, tier priors and learned weights: floating-point
  functions. What depends on them is a choice (which row is due, which fits best).
- The text of things: extraction of entities and facts, injection patterns, tier
  classification by key words, prompts, formats of vendors. Their verdicts are choices.
- HTTP, SQLite and Chroma themselves: external, as their callers use them.
- Qdrant and LanceDB, which need a server or raise NotImplementedError.
- Most handlers of the server and of the OpenClaw connector, which pass arguments to one
  method of a component (Tools has what comes before and after); `active_memory`,
  `layers`, `stats`, dashboards, reports, `palace`, `dialect`, `spellcheck`.
- Installation, cron and service scripts, benchmarks and seeds.
