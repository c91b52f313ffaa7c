# Langhuan in TLA+

Langhuan is a reader for books that live on many web sites. Book sources
("feeds") are JavaScript reducers which a Rust core (`native/langhuan`) runs in
a QuickJS sandbox; actors (`native/hub`, one Tokio task per actor) own the
state, and a Flutter application (`lib/`) talks to them over a generated bridge.
This directory holds specifications of the parts where steps of several actors,
tasks or callbacks meet, the TLC configurations that check them, and theorems
about the most important of them. `PROJECT.json` lists the runs, the lines of
source each definition stands for, and the hazards the properties are meant for.

Run a model with `tlc -workers 2 -config X.cfg M` and check the proofs of a
module with `tlapm M.tla`.

## The system

| Component | State it keeps | Operations | What makes it hard | What makes it correct |
| --- | --- | --- | --- | --- |
| SQLite store (`db/schema.rs`, `db/repo/*`) | feeds, books, bookshelf, covers, chapter lists, chapters, progress, bookmarks | one closure per operation on the single database thread | cascades of foreign keys; order of upserts inside a transaction; time stamps compared with TTLs | no row without its parent; shelf and user data survive everything but their owner |
| CachedFeed, shelf actor, cover downloads (`cache/mod.rs`, `feed_actor.rs`, `bookshelf_actor.rs`) | none but the store | cache-first queries, book info, background cover download, add and remove a book | every operation awaits between two transactions, and the shelf may change there | shelf gate, single flight of covers, no old cover bytes |
| Maintenance (`db/maintenance.rs`) | `last_cleanup_ms` | stale cleanup, chunked eviction, stamp | several transactions with a cutoff taken once | never touches shelved books |
| Pull streams (`feed_actor.rs`, `api/feed_stream.rs`) | channel of capacity 1, deferred error, cancel flag | `next_batch`, `cancel`, drop | cancel from another thread between the check and the wait; a 40 ms deadline that drops a receive | nothing lost, repeated or reordered; a cancelled pull answers |
| Aggregated search (`feed_actor.rs`) | one task per feed, four permits for all searches | resolve, advance, report an error, abort | a permit held while a send waits for the application; errors of one feed | searches do not starve one another; each failure reported once |
| Feed script storage (`feed_storage.rs`) | read cache, a queue of writes, the table | attach, get, set, delete | a write is queued and cached in two halves; a failed write, a cascade or a crash parts cache and table | the cache is what the table will be |
| Registry and bootstrap (`registry_actor.rs`, `app_data_actor.rs`, `db/repo/feeds.rs`) | compiled feeds, load errors, pending previews; database handles of all actors | preview, install, import, remove, enable; set data directory | file, table and map change one after another; partial failure, then a retry | the map and the table agree; one database for all actors |
| JavaScript feed runtime (`script/js/feed.rs`) | reducer state, step budget, response cache, auth | drive steps, request, retry, patch, cache, prompt | a lock held across a request; an operation dropped at any await | bounded work, one fetch per key, no one waits for ever |
| Login (`login_actor.rs`) | candidate credentials, stored credentials | submit page, verify, roll back, status, clear | credentials live during verification; an upgrade meanwhile | a failed login leaves the session |
| WebView verification (`webview_actor.rs`, `webview_verify_*.dart`) | prompts, their listener, the page on screen | prompt, complete, cancel, subscribe | the listener is replaced; a page popped by another pop | each prompt is answered at most once, and to the one that asked |
| HTTP client and trace (`http.rs`, `trace.rs`) | trace of the task in scope | execute, redirect, read a body, record | redirects leave the allowlist; a body without length; tasks outside the scope | only allowed hosts; caps hold; the trace tells what was asked |
| Lists of a feed and the debugger (`feed.rs`, `debug.rs`) | page cursors, identities seen | search, chapters, paragraphs, comments | feeds that repeat items, identities or cursors | what is delivered is what the pages hold |
| Boundary to the scripts and helpers (`bridge/*`, `sandbox.rs`, `html.rs`, `protobuf.rs`, `encode.rs`, `crypto.rs`) | a realm per compute step; live documents | convert values, parse and traverse, encode, sign | values with no counterpart, limits, a document replaced under a selection | what crosses arrives, or the call throws |
| Transformers (`transform/*`, `transformers.rs`, `transformer_settings.dart`) | settings of the application and of books | import, save, apply | two pages save the whole value; a query keeps the rules it began with | a chapter is what its rules make of it |
| Chapter window of the reader (`reader_chapter_window.dart`) | window bounds, load state of each chapter, LRU cache, fetches in flight | expand, jump, trim, retry, refresh, reload | answers come for chapters that were trimmed, refreshed or reloaded meanwhile | one state per window chapter, no eternal spinner, what is read is never trimmed |
| Listening (`listening_controller.dart`) | status, position, paragraphs, prefetch slot, timers, a generation counter | start, pause, resume, stop, jump, configure, sleep timers, playback loop | every operation has awaits, and another may begin at each | one voice, last request wins, progress is what was heard |
| Search screen, comments (`search_provider.dart`, `comments_controller.dart`) | lists, run tokens, cursors | load, page, retry, refresh | answers of superseded requests; a `moveNext` that cannot be cancelled | the newest request wins; handles are released |
| Badges and deletions of the shelf (`api/bookshelf.rs`, `bookshelf_provider.dart`, `feeds_page.dart`) | badges, baselines, optimistic removals | check for updates, open a list, delete with undo | a check and a read of the same book; removal during a check | a badge counts what is new |
| Reading progress, bookmarks (`reading_progress_provider.dart`, `reader_screen_controller.dart`, `bookmark_provider.dart`) | the active position, a debounce timer, a list | load, save, add, remove | calls that cross; writes of listening | the stored place is the one that was left |
| Page breaker (`page_breaker.dart`) | a resumable layout job | split into pages, restore a position | rounding, badges, stretched pages | pages partition the text |
| Reader views, feed screens, transfer, developer tools, widgets | views | layout, forms, files | pixel geometry and I/O | - |

Calls go downwards: the application calls the bridge, which sends a message to
an actor and awaits the answer (a pull stream is an object the application keeps
and pulls from); actors call `CachedFeed`, which calls the feed runtime and the
database. The database thread runs closures one at a time. The state that
several tasks share is the database, the search permits, the channel of a
stream, the auth, response cache and storage of a feed's instances and, in the
application, the objects of one isolate.

## Modules

| Module | Models | Rests on |
| --- | --- | --- |
| `BookStore` | the book tables of one feed; one action per transaction | - |
| `CachedFeed` | the tasks that use the store, split at their awaits | `BookStore` |
| `PullStream` | the reader of a stream, its channel, `cancel()` and drop, and the one producer of a search of one feed | - |
| `FeedSearch` | searches of all feeds: producer tasks, permits, aborts | `PullStream` |
| `WriteThrough` | abstract: what the script storage promises | - |
| `FeedStorage` | read cache, queue and table of the script storage | implements `WriteThrough` |
| `FeedRegistry` | the registry, the bootstrap, and the scripts that write their storage | composes `FeedStorage` |
| `WebviewPrompts` | prompts, listener, presentation | - |
| `FeedRuntime` | operations of a feed: steps, requests, retries, cache | `WebviewPrompts` |
| `Login` | credentials, upgrades of a feed | `FeedRuntime` |
| `ChapterWindow` | the window of chapters and its loader | - |
| `Listening` | the listening session | - |
| `SearchScreen`, `CommentsThread`, `ShelfUpdates`, `ReaderProgress`, `Bookmarks` | state of the application and the native calls it makes | - |
| `PageBreaker` | the layout loop, and the restoring of a position | - |
| `HttpGate` | requests, redirects, caps, the trace | - |
| `FeedPages` | pages of a reducer as a stream; the stages of the debugger | - |
| `Transformers` | settings, their saves, the chain of a chapter | - |
| `ScriptBridge`, `HtmlTree`, `ScriptCodecs` | values to the scripts and back; documents; protobuf, encodings, AES | - |
| `AppParts` | the eight of these parts whose operators are not recursive, side by side | `SearchScreen`, `CommentsThread`, `ShelfUpdates`, `PageBreaker`, `HttpGate`, `Transformers`, `ReaderProgress`, `Bookmarks` |
| `AppPartsProofs`, `CachedFeedProofs`, `FeedSearchProofs`, `FeedStorageProofs`, `FeedRegistryProofs`, `LoginProofs`, `ChapterWindowProofs`, `ListeningProofs` | theorems | the modules of their names; `LoginProofs`, `CachedFeedProofs` and `AppPartsProofs` are also about the modules theirs are built on |
| `MCCachedFeed`, `MCFeedSearch`, `MCFeedRegistry`, `MCLogin`, `MCChapterWindow`, `MCListening` | values and casts for TLC | one each |
| `MCParts` | the twelve parts that run on their own, checked together | `AppParts`, `FeedPages`, `ScriptBridge`, `HtmlTree`, `ScriptCodecs` |

### BookStore and CachedFeed

`BookStore` is the abstract specification as well as the lowest layer: its
`StoreSpec` allows every order of transactions, and `CachedFeed` is shown to
implement it (`StoreImplemented`). A row keeps what guards and deletes look at:
that it exists, its cover URL, its stamps. A cover row also remembers which URL
its bytes came from, which the code does not. Time is a counter; the constants
are those of the code in coarse ticks (ten minutes for `InflightRetry`, seven
days for `FailedRetry`, six hours for `ListTTL`, fifteen days for `StaleAge`);
only their order and their boundaries matter to the guards. The cache size is
counted in rows instead of bytes.

In `CachedFeed` a slot of `Task` is at the await its `pc` names, and an action
runs it to the next one. `ActorFree` is the mailbox of `FeedActor`, which awaits
book info in place and spawns the rest. A fetch may answer anything or fail, a
write may fail, a payload may no longer decode, and the process may die at any
moment (`Restart`). Fetched info is written under the id the script answered
with (`named`), which nothing compares with the book that was asked for. `raced` and `annulled` are history: tasks whose book left
the shelf after the gate let them pass, and downloads whose claim was deleted,
reset or already settled under them. Both are cleared when the task is done.

### PullStream and FeedSearch

The channel and its waiting senders are one sequence, as Tokio serves them first
come first served; so are the permits and the tasks that wait for one. The
reader is split where another thread may come between (`register`, `check`,
`select`, `await`), because the correctness of `cancel()` rests on enabling
`notified` before the flag is read. Each stream is the search of all enabled
feeds or of a single feed, chosen at the start.

### WriteThrough, FeedStorage and FeedRegistry

`WriteThrough` says what a script is promised: a value that was accepted is
shown at once and reaches the disk, in order; a crash may lose what was not yet
safe; nothing else is lost or invented. `FeedStorage` has the code's parts: a
cache read once (`Attach`), a queue, a writer that applies or drops its head, and
`writing`, the write that an instance has queued and not yet put into the cache.
Two instances of a feed (`Realm`) may be at that point together, because the old
one lives on in its running streams after an upgrade. The refinement maps the
disk to what the table will hold once the queue is drained (`Settled`), the
unsafe cells to the queued ones, and the offers to `writing`. `lapsed` is
history: cells whose last write the database refused, whose feed was removed
while the cache kept its values, or which two instances wrote at once.

`FeedRegistry` runs the registry's messages one at a time, split at the compile
and at the transaction of an install; `boot` is the stage of
`set_data_directory`, which may fail at each awaited call and be tried again;
`handle` is which attempt's database each actor holds. The loaded scripts, some
of which write while they load, use the actions of `FeedStorage`. `stale` is
history: feeds whose active script is not the newest by the clock, which may
stand still or step back between two installs.

### WebviewPrompts, FeedRuntime and Login

An operation of a feed is at the await its `pc` names: a turn of the reducer, a
request with its retries, the lock of the response cache, a prompt. It may be
dropped at each. The prompts go through a channel to the one listener, which a
new Flutter engine replaces; `lost` are the prompts that were in the channel of
an engine that is gone, `blind` those whose page another pop took away. `Login`
adds the actor that puts candidate credentials into the live instance, has the
feed's own `login.status` verify them, and stores them or rolls back. `hydrated`
are the instances that have been given the stored credentials. `login.status` is
an operation like any other: only the requests of comments pass the response
cache by (`Keys`), so what it hears may come from the site or from the cache
(`heard`), fetched with the payload `seen`; a script that made no request may
report anything. A feed without `login.status` accepts every candidate
(`TakenOnTrust`). `onTrust` is history: what is stored was accepted without the
site being asked about it, in one of these ways.

### ChapterWindow

Dart code is atomic up to an await, and the only await is the loader's. A
chapter's paragraphs are the version they show: new transformers and a refresh
make a new one, and a fetch answers with the version of its start. `_cache` is a
map that remembers the order of its insertions; its values are `cache`, its keys
`order`. The loops of `_trim` are one recursive function of the two bounds, with
the tests of the code for each end (`TopOk`, `BottomOk`). `missed` is
history: chapters whose change was made while an older fetch was running, or
while the chapter was outside the window.

### Listening

Each operation is a task that stops at its awaits. The generation counter
is only ever compared for equality, so `owner`, the task that took the current
generation, stands for it; `configurer` stands for the configuration in the same
way. Writes of progress take effect when they are issued (they are queued on one
connection). While listening has a paragraph of a book, the page keeps what its
views report from being saved, and drops what was waiting (`Follows`); a reader
that opens reports its first position past that gate (`OpenReader`). `wanted`,
`pauseAsked`, `lapses` and `reopened` (the books whose reader has opened since the
loop last saved a place of them) are history.

### The twelve parts of MCParts

Each of these has its own variables and shares none, so `MCParts` picks one at
the start of a behaviour (`part`) and runs it alone. One run thus asks twelve
small sets of questions, grouped by what they are about. Eight of them are in
`AppParts`, which has no recursive operator and can be proved about; the lists
and the three of the scripts are added by `MCParts`.

- `search`, `thread`, `shelf`, `progress`, `marks` (`SearchScreen`,
  `CommentsThread`, `ShelfUpdates`, `ReaderProgress`, `Bookmarks`): Dart code,
  atomic between awaits, over native calls that are sent, handled and answered
  in any order. Requests that overtake each other are told apart by the tokens
  or generations of the code; where the code has none, the history variables
  `crossed`, `raced` and `stirred` mark what crossing calls have spoilt. A reader
  that is closed leaves its load of the position behind: the notifier still takes
  the answer, but the rest of `initialize` is lost with the page (`Orphaned`).
- `pages` (`PageBreaker`): an action is one iteration of the layout loop over
  measured lines; a finished chapter is compared with its paragraphs.
- `http` (`HttpGate`): host names are sequences of letters, so that a wildcard
  domain and its look-alikes differ; the server answers anything. A preview that
  no longer fits the budget of the trace is cut where a character begins, which
  may be up to three bytes earlier, and uses the budget up (`CutTo`).
- `lists` (`FeedPages`): the reducer returns any page and any cursor; the reader
  is the application, which may stop, or the debugger.
- `settings` (`Transformers`): the value in the database, the copy that is shown,
  two pages that save, and a chapter run through the chain.
- `bridge`, `html`, `codecs` (`ScriptBridge`, `HtmlTree`, `ScriptCodecs`):
  mostly pure functions, checked against reference definitions over bounded
  inputs; a document is one state that scripts replace while selections of it
  exist, and a protobuf message grows call by call through refused calls.

## What the runs check

Passing runs:

| Run | Question | Instance |
| --- | --- | --- |
| `cached_feed` | Does the shelf gate hold, is a cover downloaded once, and do bytes go with their URL? | one book, two tasks of any kind, one payload, the URL or none, two ticks |
| `maint` | Do shelf, rows and user data survive maintenance and everything else, and can a book off the shelf get a row in any other way than by a race or by a script that names another book? | two books, both kinds of user data, one task, eviction one book at a time |
| `search` | Is anything lost, repeated, reordered or left hanging when a stream is read and cancelled at any point? Can the caller of one search starve another? | two feeds, one permit, two items a feed, batches of two; either one stream, or two streams that share the permit |
| `registry` | Do the registry, the database and the running scripts agree through upgrades, removals, failed starts and crashes, and does the storage keep its promise? | one feed in two versions (the second writes while it loads), two instances, one key and value, two queued writes, a history of one, one pending preview, two attempts to start |
| `login` | Is every prompt answered once and every key fetched once, does a failed login leave the session, is only what the site accepts, or was not asked about, stored, does every operation and every login end? | the casts of `MCLogin`: one page, a page beside comments, a page beside a login, a login beside an upgrade to a script without `login.status`; one prompt at a time, one step, one retry, one cache key |
| `window` | Are load states those of the window, is what is read spared, is what is shown fresh, does loading end? | lists of two and three chapters, windows trimmed to two, refreshes of two chapters (`Refreshable`), new transformers and a changed list, each version changed once |
| `listening` | Is the session driven, on record and in the right chapter, and is the counter enough, but for the named lapses? | two books of two chapters, one of them empty, three tasks, four requests of every kind; reading by hand ends at the last paragraph of a chapter, a reader opens at the first place while its book is spoken and no sleep timer is set (`Places`) |
| `listening_settles` | Does loading end, and does resuming follow the reader? | one book, two tasks, four requests, no symmetry |
| `parts` | The twelve questions of `MCParts`: do screens show what their source holds, do badges count news, is a spinner always driven, are pages the chapter, do requests stay within bounds, are lists and chapters what pages and rules make of them, do values cross unharmed? | see `Parts.cfg`; for each part two or three calls, chapters, pages, requests or comments |

The bounds are the smallest at which the interesting cases happen, and each
property is known to fail in its run when a plausible mistake is made in the
definition named beside it in `PROJECT.json` (the operators commented `Mutant`).
Two tasks on one book suffice for every race of a gate or a claim, as each is
between a task and the store, or two tasks. Eviction of one row at a time with
no room at all (`MaxCache = 0`) makes each pass evict whatever it may. Two items
and an error fill the channel, park a sender and cut a batch short. Windows of
three chapters with room for two trim at both ends. Three tasks are a loop and
two operations that overtake one another. Two instances and two queued writes
are an upgrade that races with its predecessor and a write behind another.
A history of one and one preview make every prune and every eviction of a
preview happen. In `login` one operation at a time is at a prompt, because
prompts meet only in the coordinator, which shows them one after another; alone,
an operation leaves a prompt behind and opens the next. In `parts` heights,
limits and lengths are scaled down to the boundary: a page holds one line or a
few, a cap is a few bytes, the largest integer and the varint limit are close.

Liveness is checked with the fairness the code's runtimes give and no more:

- Tokio polls every ready task, so the reader's steps, the rest of `cancel()`
  and the tasks of an aggregated search are weakly fair, the latter because HTTP
  requests and the script engine have time-outs. Nothing is assumed of the
  source of a single search, nor that callers come back for more, except the
  ones that are said to drain their stream (`Drained`).
- The steps of the login actor and of a feed's operations are weakly fair for
  the same reason. The lock of the response cache is strongly fair: Tokio's
  mutex is a queue. Prompts are presented and pages pop; the user answers or
  leaves a page (`Complete`, `Back`), and cancellations arrive. An operation
  whose prompt was lost with its engine, or whose page another pop took away, is
  excepted (`Stuck`).
- The loader of the window answers each fetch, with paragraphs or an error.
- Awaits of the listening session are answered (platform calls and the database
  return or throw) and an utterance ends or is timed out after three minutes.

Deadlock is not checked where the system may stop: a search that has ended, a
session that used up the bounded requests, a part that is done.

## What the code does differently from what it says

Three runs find a behaviour that contradicts a comment or a document; each is
told in full under `findings`.

- `stale_bytes` (`NoStaleBytes`): a download of the old cover URL that ends
  after the URL changed stores the old image under the new URL, and nothing
  downloads the new one.
- `window_transformers` (`NoStaleParagraphs`): after a change of the
  transformers, `reloadWindow` joins a fetch from before the change. A refresh
  has the same effect when its chapter is in flight or left the window.
- `listening_hidden` (`HiddenIsSilent`): a pause that comes while `start()`
  awaits the engine is dropped.

More of them are what the history variables and conditions of the passing runs
leave out, so that the rest is still checked. Some are stated as definitions
that no run lists; TLC finds each violated when it is added to its run.

Store and streams:

- A query whose book is unshelved between gate and write leaves a row behind
  (`raced`, in `TraceHasCause`; `cache/mod.rs:113-117` says that nothing is
  persisted about a book off the shelf).
- A script that answers a request for one book with the info of another has it
  written in the row of that other book, on the shelf or not, without any race
  (`cache/mod.rs:343-348`, `repo/cache.rs:260-268`; the second case of
  `TraceHasCause`).
- Adding a fetched book again with another cover URL drops its cover bytes,
  while the fetched row stays (`repo/cache.rs:278-292`).

Registry and storage:

- A start that fails after the registry was bound cannot be retried: the
  registry refuses a second database until the process restarts, while the
  application offers the retry (`RetryNotRefused`).
- A script that writes its storage while it loads can be compiled before the
  storage is attached, at the start of the app, and fails to load
  (`NoEarlyStorage`; `feed_storage.rs` says no storage call can precede).
- When the clock stands still or steps back between two installs, the pruned
  history may lose the script that is active (`ActiveInHistory`).
- A queued write that the database refuses, the removal of a feed, and two
  instances writing one key part cache and table until the next start (`lapsed`).

Feeds, login and prompts:

- While candidate credentials are verified, every other operation of the feed
  sends them too, and may fetch with them what the cache then keeps.
- The comment at `login_actor.rs:173-175` treats parsed auth as a candidate "until
  the feed has verified it". A feed without `login.status` verifies nothing
  (`feed.rs:969-971`), and a `login.status` with a cache key may be answered with a
  response that was fetched under another session (`feed.rs:628`): the candidate is
  stored all the same (`onTrust`, in `SessionKept`).
- Leaving the page twice in quick succession pops the page of the next prompt
  as well (`stray`); that prompt waits until its operation is dropped (`blind`,
  `LeavingCancels`). The prompts of an engine that went away wait likewise.
- After an upgrade the new instance has no credentials until the next status
  check gives them to it.
- A list whose feed always names a new cursor never ends (`feed.rs:728`); a
  chapter list or a chapter is collected whole first. A search whose provider
  repeats its last page under new cursors goes on silently, as its items are
  dropped as duplicates. A cursor that is NaN begins the list again.
- Requests that are refused for their size, and requests with an invalid
  method, leave no trace, though the comment on `execute` says that request and
  outcome are recorded. The preview of a body is cut at a byte and decoded with
  replacement characters, so it may grow to three times its limit.

Boundary to the scripts:

- A function below the top of a cursor or a result arrives as an empty object,
  contrary to `convert.rs:243-246`, `:318` and `:337`, by which it is dropped from
  an object and null in an array, as `JSON.stringify` has it. `BridgeTrue` compares
  a cursor with what `JSON.stringify` gives (`Stringified`, `LeftOut`), and names
  this exception on its own (`AsObject`).
- A protobuf writer that refuses a field (or a varint) for its size has already
  written its head, so `finish()` after a caught throw gives a message that does
  not decode, and may exceed the limit (`api-reference.md:1008`). Of such a message
  `MessageReads` promises what had been written before that call (`torn`), and
  nothing of the rest, although the model lets the script go on writing.
- AES without padding on data that does not fill its blocks, and GCM with a
  nonce that is too short, panic in the library instead of throwing.
- Methods of a selection use the roots it captured, while `first`, `last`, `eq`
  and `each` use the live array, which a script can change; each of them throws
  when the array has become shorter.

Application:

- `reloadWindow` shrinks the window around the anchor, so the chapter being
  read, up to three chapters away, may fall out of it
  (`reader_chapter_window.dart:129-133`); a restored position may then name a
  chapter that is no longer there (`chapter_content_manager.dart:1184`).
- `moveParagraph` and `configure` go on after their `pause()` without asking
  whether they were overtaken (`overtaken` in `lapses`): two playback loops can
  speak at once, and a start can lose against an earlier jump.
- Of two quick changes of the voice, neither resumes (`superseded`).
- After a pause between two chapters, resuming goes on in the next chapter even
  if the reader moved within the old one (the condition on the index in
  `ResumesAtProgress`).
- Opening the reader while listening owns the book saves the reader's start
  position over that of listening, until the loop comes to the next paragraph:
  `initialize` reports the position directly (`reopened`, in `SpokenIsRecorded`;
  `reader_screen_controller.dart:207-208` says that listening owns the record).
- A failed read of the progress leads to the first chapter being saved over the
  stored place. A failed save is not tried again for the same position, and a
  reader that is closed within the 400 ms of the debounce loses its position.
- A late load of another book replaces the active position, and what a save
  confirms is built from the state after its await. A detail page shows the
  progress of the book before while its own load is pending or has failed.
- Bookmarks: adding during a load shows the bookmark twice, removing during a
  load brings it back, a late load of another book shows the items of that book
  (`crossed`); two bookmarks of one millisecond stand in one order in the list
  and in the other in the table.
- Badges: a check that is under way restores the badge of a list that was opened
  meanwhile (`raced` of `ShelfUpdates`).
- Two transformer pages that save at the same time: each writes the whole value
  it was shown, so one change is lost (`lapsed` of `Transformers`).
- Overlapping loads of the list of feeds are shown in the order of their
  answers, and each resets the feed that is being removed.

## Proofs

The theorems hold for any number of books, payloads, URLs, tasks, feeds,
streams, permits, keys, scripts and instances, and for all values of the retry
windows, ages and bounds. They assume only the assumptions on constants that the
modules state: `StoreAssumption` (the times are naturals, a chunk is not empty),
`FeedAssumption`, `PullAssumption` and `SearchAssumption` (a channel, a batch
and the permits are not empty, `None` is no event), `WindowAssumption` (a chapter
list is not empty and names no chapter twice, the window cap is not zero),
`ListeningAssumption` (there are chapters and paragraphs), `Bounds`,
`RuntimeBounds` and `RuntimeLoaded` (budgets are naturals, some instance is
loaded), `ScriptsOfFeeds`, `VerifierIsOp`, `SomeHaveStatus` and `StatusByActor` (only the actor of a
login runs `login.status`), and that `None` is not a value of the program
(`NoneIsNoWrite`, `NoneIsNothing`, `NoneIsNoOne`, `NoneIsNoAuth`).

Store and `CachedFeed`:

- `StoreTyping`: every transaction keeps the tables well typed. The other
  theorems need it, as an update says nothing of a row that is no record.
- `StoreIntegrity`: foreign keys. `ReferentialIntegrity` is inductive together
  with the types: each upsert makes the parent first, and deletes cascade.
- `StoreShelfKept`, `StoreDropsBytes`, `StoreUserDataKept`: action properties.
  The first needs `StoreIntegrity`: a shelved book has a row to keep. The other
  two follow transaction by transaction from the types.
- `Typing`: the slots of `CachedFeed` hold what their `pc` needs. A step puts a
  well-typed state into one slot (`Moves`), and the clock never goes back.
- `StoreImplemented`: each step of `CachedFeed` is a transaction or a stutter,
  so `Spec => StoreSpec`. With it `Integrity`, `ShelfIsKept`, `BytesDropped`
  and `UserDataIsKept` follow from the theorems about the store.
- `GateIsKept`: a task comes past its gate only by a step that saw its book on
  the shelf (`PastGateStep`), and stays there with the same book.
- `OneDownload`: `SingleFlight` is not inductive, as it does not relate a
  download to the row that later claims look at. `ClaimInv` does: while a claim
  stands, the row is pending and its stamp is no older than the task's. A new
  claim of a pending row needs that stamp to be an in-flight window old, hence
  the two tasks are that far apart (`NewClaimApart`).
- `TraceIsCaused`: `TraceHasCause` needs the gate. Of all steps only three
  transactions make a row (`RowAppears`, `RowShelved`): one puts the book on the
  shelf, and the other two are made by tasks past their gate, one of them under the
  id of its script's answer.

Streams:

- `SearchStreams`: `StreamTruth`, that a stream has returned a beginning of what
  its producers sent, that the end is said only when everything was returned,
  and that an error comes last. The invariant `SearchInv` has per stream `Flow`
  (returned, batch, deferred error and channel, joined, are what was sent, until
  it is cancelled), `SentOK` (an error that ends the stream was sent last, and
  nobody sends after it), `TasksOK` (whoever may still send has a stage that
  says so), and `PullOK` and `ReturnedOK` (where the reader stands). The
  steps of a producer append on the one side, those of the reader move a head.
- `SearchErrors`: `ErrorsReported`. A task that fails sends its error and is over
  at once (`ReportInv`): a feed has failed exactly if an error of it was sent, and
  nothing of that feed was sent later. When the end is returned without a cancel,
  `Flow` says that what was returned is what was sent.

Script storage and registry:

- `StorageTyping`, `StorageSettles`: `CacheSettles` speaks of a write that is
  queued but not in the cache. It is inductive as `Agreement`: for each cell that
  did not lapse at most one instance is writing (`OneWriter`), what it writes is
  what the table will hold (`WriterAgrees`), and if nobody writes, so is what the
  cache shows (`CacheAgrees`); `Quiet` says that nothing moves before the storage
  is attached. The last queued write of a cell decides what the table will hold
  (`IsLast`), so an append changes one cell and taking the head changes none.
- `StorageWritesThrough`: each step is a step of `WriteThrough` or a stutter
  under the mapping above. `LastKnown` makes the choice in `Settled` harmless.
- `RegistryStorage`: each step of `FeedRegistry` is one of `FeedStorage`, given
  that a job under way is of a known feed (`JobOfFeed`). Hence `RegistrySettles`
  and `RegistryWritesThrough`: the theorems about the storage are used through an
  instance of the module that proves them (`Proved`).
- `RegistryOneDatabase`: `OneDatabase` is inductive as `BootInv`, which says how
  far each stage of the start has come and which database it has bound.
- `RegistryUserState`: an upgrade keeps the pause and the source of a feed, step
  by step; only a transaction of an install changes a script.
- `RegistryTypes`, `RegistryAgreesAlways`, `RegistryScriptKept`: `RegistryAgrees`
  and `ActiveScriptKept` are inductive together, in `RegistryInv`. `TablesInv`
  says of each installed feed that its row is of that feed, that its history has
  one row per version, and that its first row is the active script unless the clock
  stood still; an install prunes behind the row it has put first. `JobInv` says
  that a job under way has compiled its script in an instance that is not the
  one the registry answers with, so what it puts in place at its end is of the
  job's feed. `LoadedInv` ties the map of the registry to the rows.

Verification, operations and login (`LoginInv`, in `LoginProofs`):

- `PromptsAlwaysAnswered`: `PromptsAnswered`. `PromptInv` adds that an operation is
  parked on at most one prompt, that whoever waits has no answer yet, that only a
  parked operation has one, and that a page being cancelled has its cancel sent.
- `KeysFetchedOnce`: `CachedOnce`. `CacheInv` ties the lock of each instance to the
  one operation that is at the request of a missing key; whoever is dropped
  there gives the lock back.
- `SessionSurvives`: `SessionKept`. `SessionInv` says at each await of the actor
  what the instance it works on holds (the candidate until it is stored, what is
  stored from a roll-back on), and that a request of the verification that is
  under way carries the candidate, so what the site itself answered is about the
  candidate; what else a verdict may rest on is noted in `trust`.
- `LoginTypes`: the types on which these rest, budgets of steps and retries included.

Chapter window (`WindowInv`, in `ChapterWindowProofs`):

- `WindowAlwaysCovered`: `WindowCovered` is inductive with the types; the action
  that moves a bound also adds or drops the load states of what it passes.
- `WindowFresh`: `FreshUnlessMissed` speaks of what is shown. It is inductive
  together with what is cached and what a running fetch will answer: all of the
  current version unless the change was missed (`Fresh`).
- `TrimAlwaysSpares`: `TrimSpares`, that the trimming loop takes nothing the
  reader needs and stops only at its cap or before such a chapter. The loop is a
  recursive function on pairs of bounds. `LoopExists` and `LoopTrims` show by
  induction on the width of the window that the function exists and
  what it returns, with `LeastNat` (a set of naturals that is not empty has a least
  one) in place of the induction theorems of the library, which take an operator.

Listening (`ListeningInv`, in `ListeningProofs`):

- `ListeningIsDriven`, `SpokenAlwaysRecorded`, `ContentAlwaysOfChapter`,
  `ListeningTypes`: `CoreInv` says what the task that holds the generation may rely on
  at its await (`Holds`): the index is the chapter, what it awaits is of that
  chapter, the paragraph it is about to speak is on record, the session is active;
  and of any session that what was fetched or prefetched is of its book (`Sound`).
  Every action is one of a few kinds of step: it takes the generation and establishes
  `Holds` for itself (`Takes`), or it returns without a change (`Returns`), fails, or
  only sets the sleep timer (`Rests`). The loop is one lemma (`RunPlays`), used by
  every operation that may start it.
- `OneListeningAlways`: without an overtaken operation, whoever is spoken for holds
  the generation (`Voice`), and either the last start is the book played or
  that start holds the generation at its first await (`Heard`).
- `PauseAlwaysKept`: after a pause that reached the session nobody who holds the
  generation is at an await that leads to playing (`Pausing`), and a session that is
  paused unasked has an operation at an await that will play on (`Bridged`).
- `ResumesThere`: an action property, from `CoreInv` and the record of the progress.

Parts of the application (`AppInv`, in `AppPartsProofs`). A behaviour is one of a
single part, so each part has an invariant of its own, and one lemma says that
the variables of the others stay as they are:

- `ScreensAlwaysTrue`, `SpinnersAlwaysDriven`, the search screen (`SearchInv`):
  the groups on screen are made of the first `screen.of` events that the stream of
  the current run has given (`Made`: of each feed its items once, in their order,
  and whether it failed), and a page that is loading has in hand what is made of
  all that were taken (`LoaderMade`). Events are taken one at a time, and a group
  made of some events and one more is what `Added` computes.
- the thread of comments (`ThreadInv`): the pages of the generation follow each
  other along their cursors, none of which is met twice (`PagesChain`), the
  comments are those of the pages without repetition, and a load that may still
  publish asks with the cursor that is kept (`LoadAsks`).
- the bookmarks (`MarksInv`): unless calls crossed at most one call is in flight,
  and it leaves to be done exactly what is missing between the list that is shown
  and the table (`CallTells`). That the rows of a table can be put in order by
  their keys, and in one way only, is a lemma on `InOrder`, shown by a least
  counterexample as in `TrimAlwaysSpares`.
- the settings (`SettingsInv`): nothing but a save replaces what was stored first
  (`StoredFirst`), a load carries the older copy until it has been validated
  (`LoadsCarry`), and unless two saves overlapped the copy shown and the one the
  application was told of are what is stored (`InStep`).
- `BadgesAlwaysTrue`, `SpinnersAlwaysDriven`, the shelf (`ShelfInv`): what a check
  has counted is new since the baseline of its snapshot (`Announces`), and that is
  the baseline of the book unless it was set by the check itself or the book raced
  (`Anchored`); a list that is opened while a check has its snapshot is such a race
  (`MarksRace`); and what is gone is neither shown nor left in the check that is
  listened to (`LatestTrue`, `GoneIsGone`).
- `PagesAlwaysTrue`, the layout (`PageInv`). After every iteration of the loop the
  chunks say of the text (`TextOf`) that each begins where the one before it ends
  or at the next paragraph that is not empty, that the last one ends where the
  layout stands, and that a paragraph which is behind has its badge on exactly one
  chunk. They say of the pages (`PagesOf`) that no closed page is empty, that a
  chunk lies within what is used of the open one, and that each is within its page
  unless it could not be made smaller. A page is stretched by no more than it has
  left, which is why closing it keeps the last of these; and the number of lines that
  the search in `Split` settles on fits, because it is the greatest that does. The
  first chunk of a page is the last one that a search by its position passes, so a
  position restores to its page.
- `PagesAlwaysTrue`, the position of the reader (`ProgressInv`): the reader
  has one load in flight and only while it waits for it (`ReaderWaits`); while nothing
  has moved the reader, all that is pending, saved, in flight or answered is the row
  (`Opens`); unless calls crossed the only call there is is the last save, or one
  of listening to another book (`Saving`); and a call nothing interferes with tells
  of the row (`Telling`).
- `RequestsAlwaysTrue` (`GateInv`): a host is contacted only after `Allowed` let it
  through, and what `Allowed` lets through is covered by a domain as the reference
  definition has it (`AllowedCovers`): the trailing dots a host loses are found as a
  least counterexample (`TrimmedIs`), and the label, the name and the dots put
  together are the host again (`ThreeAre`). Of the trace: the entries and the
  count of what was dropped are as many as the requests to be told of, the entry at
  the rank of a request has its outcome (`TellsOf`; `TracedGrows` says what one more
  request changes of the ranks), and the previews have running totals which, with
  what is left of the budget, never pass it (`Totals`).

The assumptions of these theorems are `SearchBounds`, `ThreadBounds`, `ShelfBounds`,
`MarkBounds` (no book is named by the empty string, which stands for no book) and
`SettingsBounds` (`Absent` is no configuration; engines are counted from 1); of the
layout `Measures`, `ParagraphsAre` and `Sized` (heights are naturals, a page and a
line are not of height 0, a title has a line, an image is one line without a
badge); and of the client `GateAssumption` (limits are naturals, a chunk has a
byte), `NamesAre` (hosts and domains are sequences of characters) and `OneScope`
(at most one task of a feed is a debug run, as the scope of a recorder is local to its task).

Only model-checked:

- `ContentTrue` and `ScriptsTrue`, of a chapter run through its rules and of the four
  parts that `MCParts` adds: what a chain of rules, a conversion or an encoding
  computes is defined by recursion over its data;
- the type invariant of `ChapterWindow` as a whole: `order` is filtered with
  `SelectSeq`, of which the prover knows nothing. No other proof needs `order`;
- all liveness, which rests on fairness and `ENABLED`;
- inductions over data other than the trimming loop: the sums and orders of
  eviction, what a recursive conversion computes for every value.

## What is not modelled

Within the modelled components:

- Store: chapter counts, statistics, vacuum and schema migrations; decoding
  beyond "decodes or does not".
- Registry: the download and the reading of a file, the display fields, stored
  payloads that are corrupt and skipped, scripts that fail to compile after the
  application was upgraded other than by not being `Runnable`.
- Login: `login.entry` and `login.parse`, which change nothing; hydration at
  the start (its place in the order is in `FeedRegistry`).
- HTTP: headers and cookies, redaction, the trace of reducer steps.
- Helpers: digests, HMAC, the schedules of Simon and Speck (a permutation stands
  for them), random bytes, JSON helpers, the interruption of a script that runs
  too long and the module loader.
- Transformers: the engines of regular expressions and of OpenCC.
- Chapter window: an empty chapter list, `dispose`, a switch to a book with
  colliding chapter ids. Listening: blank paragraphs and chunks of a paragraph,
  voice preview and the storage of voice settings.
- Application: the list of the shelf and its overlapping loads (each replaces
  the list whole, so the next one repairs it), the flags `isLoading` and
  `isSaving`, sorting and the controllers kept per chapter in the comments,
  which snackbar is on screen when two pages delete, the measuring of text and
  degenerate geometry.

Whole components are left out (status `not_modelled`): the chapter content
manager and the reader views, which decide by pixel geometry and the frames of
Flutter; the feed list and installation screens and the developer tools, which
are forms over what `FeedRegistry` and `FeedPages` model; export and import,
which write and read files around an install; widgets, themes, localisation and
platform shells.

## What is left to do

- Refinement of `Listening` by an abstract player that has one generation and no
  tasks, and of `ChapterWindow` by a map from chapters to versions.
- `CachedFeed` and `FeedRegistry` share the `feeds` table; a module that composes
  them would check the cascade of a removal against tasks of that feed for two
  feeds at once.
