# A verification development of ai-cmd-proxy

The repository holds two servers that put an OpenAI-style API in front of the
CommandCode service:

* the **TypeScript proxy** (`src/src/`, Fastify on Node): one client request is
  one upstream request, whose NDJSON events are translated into Chat Completions
  or Responses answers, streamed or whole;
* the **Go provider proxy** (`src/main.go`, `src/internal/`): it forwards chat
  requests with a key taken from a pool that it keeps healthy, and has a panel
  for the operator of the pool and of the model list.

This directory holds TLA+ modules for the parts of both in which order, failure
and concurrency matter, the configurations with which TLC checks them on small
instances, and theorems about them that TLAPS proves for every value of the
constants.

## 1. The system

### TypeScript proxy

| Part | State | Operations | What makes it correct |
|---|---|---|---|
| `commandcode/client.ts` `stream()` | per request: attempt, connection of each attempt, abort signal, budget timer, abort listener, NDJSON buffer, number of events handed on | set-up, fetch, retry with backoff, reading of lines or of a refusal's body, abort by caller or budget, `return()` by the consumer | no attempt after output or abort; no attempt after a refusal; every body, timer and listener released on every path; status names the first cause; it ends |
| `client.ts` working directory | one promise per client | create on first use, forget on failure | concurrent first requests share one; a directory that was made is never replaced; a failure does not stick |
| `routes/*.ts`, `stream-lifecycle.ts` | per request: client socket, upstream iterator, what has been written | validate, materialise images, call, pre-read, write, end, hand the iterator back | one ending; "completed" only after `finish`; 200 only with content; nothing after the socket is gone; iterator handed back; it ends |
| `translate/responses.ts` | open items, output indexes, texts | one event in, a few SSE events out; the whole answer from the list of events | a client can follow the stream; no tool call is lost; stream and whole answer agree |
| `translate/chat.ts` | indexes of the tool calls, texts | one event in, chunks out; the whole completion from the list of events | a client puts the calls together right; stream and whole agree, and both APIs agree |
| `translate/messages.ts` images | per image: lookup, request, body under its size limit and timeout | download all at once, give up at the first failure | the upstream is asked only with all of them; no connection stays open |
| `translate/responses.ts` input, `messages.ts`, `tools.ts`, `generate-request.ts` | none across requests | items to messages, messages to the upstream's form, names of tools there and back | the upstream reads what it said and was told, each result with its call; tools are told apart; what the proxy gave out it accepts, calls without a name or an id excepted |
| `errors.ts` | none | failure to status | a client sees only statuses meant for it |
| `routes/models.ts` | a cached list with its expiry, concurrent fetches | fetch, fall back, fill | no list is told that is older than its lifetime allows; the fallback is never kept |
| `server.ts`, `auth.ts`, `config.ts`, `health.ts`, `index.ts` | none | wiring | - |

Within one request the parts are a chain of async generators: the socket pulls
the translation, which pulls the route's `remainingEvents`, which pulls
`stream()`, which pulls the upstream. The disconnect and the budget run against
the direction of the chain, by an abort signal. That is the hard part of this
half: an abort, a late answer, a failure or a departure can come at every await,
and each has to leave nothing behind and to tell the client the truth.

### Go provider proxy

| Part | State | Operations | What makes it correct |
|---|---|---|---|
| `keypool/keypool.go` | keys with counters, cooldown and verdict; round-robin index; dirty flag; `keys.json` | add, remove, toggle, restore, mark (success, error, quota), next, throttled save, load | distinct keys; fair rotation; only the operator re-enables; edits survive a crash, and what it loses is recent; no older file under a clean flag |
| `proxy/proxy.go` | per request: first key, key in use | pick, call, mark, retry once after 429, answer | a limited request is tried once more with another key; verdicts land on the key called; everybody is answered |
| `server/server.go` | none of its own | health check and restore scan over a snapshot of keys; the panel's edits; sync on demand | quota verdicts are lifted on evidence |
| `models/models.go`, `sync.go`, `main.go` | id and short-name index, `models.json`, status, interval | resolve, sync by ticker and panel, interval, restart | a name that resolved keeps resolving; a sync survives; the schedule is kept |
| `config/config.go`, `panel.go`, `api/openai.go` | settings | merge, save | - |
| `start.sh`, `stop.sh` | the PID file | start, stop | at most one service; only the service is ended |

Every method of the pool and of the store is one critical section, and the
goroutines of requests, probes, scans, the ticker and the panel interleave
between them: what a goroutine learned in one section may be stale in its next.
Files are written in place, so that a crash can tear them.

## 2. The modules

| Module | Models | Stands on |
|---|---|---|
| `GenerateOnce` | what `stream()` promises to a route (abstract) | |
| `GenerateStream` | `stream()` and `readNdjson` | implements `GenerateOnce` |
| `GenerateStream_proofs` | its theorems | `GenerateStream` |
| `RouteStream` | both routes and the stream lifecycle | extends `GenerateOnce` |
| `RouteStream_proofs` | its theorems | `RouteStream` |
| `ResponsesConsumer` | what a Responses client relies on (abstract) | |
| `ResponseEvents` | `toResponseEvents`, and `toResponse` as reference | implements `ResponsesConsumer` |
| `ResponseEvents_proofs` | the theorems of both APIs | `ResponseEvents`, `ClientStreams` |
| `ChatChunks` | `toChatCompletionChunks`, and `toChatCompletion` as reference | |
| `ClientStreams` | both APIs fed with the same events | extends `ResponseEvents`, instances `ChatChunks` |
| `ToolNames` | the names under which the upstream knows the tools | |
| `History` | items to messages to the upstream's form | extends `ToolNames` |
| `Conversation` | a client that sends back what it was answered | extends `History` |
| `Conversation_proofs` | its theorems | `Conversation` |
| `WorkingDir` | the shared working directory | |
| `ImageDownloads` | the images of the requests | |
| `ModelList` | `GET /v1/models` and its cache | |
| `Server` | concurrent requests and what they share | extends the three above |
| `Server_proofs` | its theorems | `Server` |
| `KeyPool` | the key manager and its file | |
| `KeyPoolHistory` | the pool with two history variables | extends `KeyPool` |
| `KeyPool_proofs` | the theorems of both | `KeyPoolHistory` |
| `KeyProxy` | chat requests, health checks, restore scans and edits | extends `KeyPool` |
| `KeyProxy_proofs` | its theorems, on those of the pool | `KeyProxy`, `KeyPool_proofs` |
| `ModelRegistry` | the model store and its syncs | |
| `ModelRegistry_proofs` | its theorems | `ModelRegistry` |
| `MC...` | values of the constants, symmetry | the module of the name |

### GenerateOnce and GenerateStream

The generator runs on one event loop, so what it does between two awaits is one
action. `pc` names the await (`dir`, `fetch`, `errbody`, `read`, `delay`) or the
`yield` at which it is suspended. `conn[a]` is the upstream connection of
attempt `a`; `pending` is a fetch that has not settled. `aborted` is the reason
of `requestSignal`, which keeps the first cause, and `callerGone` is the route's
own signal, which may fire after it; the catch of the code reads both. `Catch`
is the inner `catch`/`finally` with the retry decision, `Fail` and `Exit` the
outer ones. `LateFetch` is the callback of a fetch that ignored the abort.
`lines` is what is left of a chunk after the line that has just been yielded; a
line that `JSON.parse` refuses is `"bad"`.

`GenerateOnce` has none of this. It says: at most `MaxAttempts` calls, none once
an event was shown or the request was stopped, events of one call, none after a
terminal one, and a result that fits what was shown. `ImplementsOnce` maps
`calls`, `shown` and `stopped` to `attempt`, `delivered` and `aborted # "no"`.

### RouteStream

The route is written over `GenerateOnce`'s own actions: the handler pulls
(`ClientCalls`, `ClientShows`, `ClientReturns`, `ClientThrows`), and nothing is
known of the upstream but the promise. An action is one answer of the iterator
with everything the handler does until it asks again, since the socket cannot
change in between. `wire` is what was written: a JSON answer, or the head of a
stream and its chunks. The close event comes some time after the socket is
destroyed, which the handler can already see; writing in between is the case
`SilentOnceGone` is about.

### ResponseEvents and ResponsesConsumer

Events arrive one by one; a delta is named by its position, so that texts can be
compared without characters. `collected` is what `collectState` has made of the
events so far, from which `toResponse` makes the whole answer. `queue` is what
the generator is about to yield and `reader` what a client has made of the
chunks so far. `After` refuses, by an illegal reader state, a chunk that no
client could place. `output` is the sparse array of the code, serialised as
JavaScript does.

### ChatChunks and ClientStreams

`ChatChunks` takes an event and hands its chunks to the client in the same step,
since nothing of the translation changes between two chunks of one event. `seen`
is what the client has put together: fragments of a call belong to the call of
their index, as in OpenAI's clients, and `"lost"` marks a chunk that cannot be
placed. `aggregate` is the completion that `toChatCompletion` makes of the same
events, one after the other. `ClientStreams` lets each upstream event go to both
translations, so that the two streams and the two whole answers can be compared.

### ToolNames, History and Conversation

The proxy keeps no conversation: the client sends all of it each time, in the
items in which it got it. `History` holds the two translations as loops over
their input, one state per element, with what decides the grouping: an
assistant's text, reasoning and calls that follow each other become one message
(`Merged`), parts without a role wait until they are flushed, and a result looks
up its tool's name among the calls before it (`NameOf`). A text is a sequence of
pieces, and a tool's name a base with a suffix, so that a plain tool can bear
the very name that another's hash would give.

`Conversation` keeps the items of the client beside `said`, the messages as the
upstream itself has made or been told them, which is no output of the
translation: every action writes both sides from what somebody says. `phase` is
who has the word. The client adds messages, parts and results in any order and
asks; the upstream then says a reasoning, a text and calls, one after the other
and in any order, and each is an item that the client keeps. The client may list
its tools in another order whenever it has the word, and the upstream may call a
name that is none, or make a call without a name or with an empty id. Such a
call is shown as it is (responses.ts:325-326) and makes its item `Blank`; a
request with that item is `Refused` (responses.ts:198-203), so that `Ask` has no
step and the conversation goes no further.

### WorkingDir, ImageDownloads, ModelList and Server

The process serves requests concurrently, and three things meet there.
`WorkingDir` numbers the creations, one after the other, with the promise
naming the current one; a request that waits holds the number of the promise it
took. `ImageDownloads` has a state per image, `connected` for its connection and
the bytes read so far; a request is refused at the first failure (`Promise.all`)
while its other downloads go on. `ModelList` names a list by the moment the
upstream made it; a fetch that began before another may end after it.
`Server` strings them together: a request goes from `new` over `images` and
`dir` to `asked`, where `GenerateStream` begins, or from `new` over `list` to
`listed`. `ClientGone` and `StopWaiting` are the disconnect and the request's
budget; neither cancels a download.

### KeyPool, KeyPoolHistory and KeyProxy

The pool's operations are actions of the same names. `Flush(flag)` writes
`keys.json` or fails, leaving the old file or a torn one and the dirty flag as
it was: `Save(force)`, the throttle, has raised it (keypool.go:134), the
`Flush()` of a shutdown has not (keypool.go:425-429). `Restart` loads what the
file holds, or cannot read it and starts with an empty pool over an intact file
(keypool.go:112-117). `failures` counts the reads and writes that failed. The
clock counts whole seconds, as the code does. `KeyPoolHistory` remembers which keys were handed out since the available
ones last changed, and the errors in a row. `KeyProxy` takes the pool's
actions as they are and lets requests, health checks and scans call them: a
verdict can come long after the key was chosen, and for a key that has been
removed or edited meanwhile. A check or scan walks over a snapshot of pointers:
`stale` has the keys of it that were removed since, whose old record may say
anything, though a key of that name may be in the pool again.

### ModelRegistry

A sync has a beginning and an end, between which anything may happen; the ticker
and the panel may have one each. Of the models that share a short name the one
indexed last counts, in an order the code leaves to Go's map iteration when it
writes `models.json`. A restart may find the file unreadable (models.go:79-82)
and starts with the builtin models. Time counts hours.

## 3. The runs

| Run | Instance | States | Asks |
|---|---|---|---|
| `stream` | 3 attempts, 3 lines, kinds delta/finish/error, refusals 403/503, body statuses 429/503 | 1.6 k | all of `GenerateStream`, with liveness |
| `route_stream` | 2 calls, 4 events, statuses 429/499/502/504 | 24 k | both routes, streamed or not, with liveness |
| `client_streams` | 5 events, a client with and without usage | 181 k | every sequence of events in both APIs, every way to interleave with the reader |
| `conversation` | 2 answers, 5 items, two namespaced functions whose hashes agree, a plain one with the name the hash gives, two orders of the tools, a stray name, calls without a name or an id | 714 k | what the upstream gets to read of the past |
| `server` | two requests that use the directory, one with two images and one with none, and one that only lists the models; a limit of one chunk, clock to 3 | 75 k | what concurrent requests share, with liveness |
| `keypool_store` | 2 keys, clock to 2, one failing read or write | 724 k | persistence, crashes, who enables |
| `keypool_history` | 3 keys, clock to 4, counters to 3 | 330 k | round robin over a changing set, automatic disabling, how old a lost verdict may be |
| `keyproxy_retry` | 2 keys, a request, a health check | 190 k | attribution of verdicts through the retry, liveness |
| `keyproxy_probes` | 1 key, a request, a health check, a scan, clock to 2 | 9 k | who lifts a quota |
| `model_registry` | 4 models, two with one short name, two syncs, clock to 4, one failing read or write | 38 k | names, file, schedule |
| `keyproxy_escalation`, `model_due` | | | the findings of section 6 |

Why these are enough. *Three attempts* is the code's own limit; the retry
decision looks only at the current attempt and at whether it is the last, and
the second and third differ in that. *Three lines* allow an event before a
failure, a terminal event with a line behind it in one chunk, and a last line
without newline. *One status of each class* is enough because the client tests
membership in one set, and the routes in one other. *Five events* give two items
of each kind in every order, and a delta to each after another has opened. *Two
keys* are the smallest pool with a second choice and a copy to confuse it with;
the rotation has three, because with two an index that is off by one is still
fair. *A clock of two or four units* passes a cooldown, a save interval and the
window after a cooldown, in every order. One failure gives an unread, a
stale or a torn file, and another write after it. *Two answers and five items* hold
an answer of three parts, results of parallel calls in either order, and a
second answer to which the first must not be joined; grouping looks only at the
neighbouring message. *Two images of one request* are one that fails while the
other goes on; *three requests* are two that race for the directory, of which the one
with images may come after the other's creation has failed, and one that lists
the models while they go on; *a clock of three* is a
fetch that ends late plus the lifetime of what it filled in.

All bounds are guards named `Max...`. Requests of `KeyProxy` run once each, so
that "retry" and "later request" are two members of `Requests`.
`CHECK_DEADLOCK FALSE` is in every configuration because every model stops at
its bounds or when its request has ended.

Symmetry is used for keys and requests in runs without liveness, where nothing
depends on their names.

### Fairness

* `GenerateStream`: the event loop runs due timers and abort listeners, a
  generator that is asked continues, and a fetch with an aborted signal settles.
  The upstream owes nothing: no fairness on any of its answers, so `Terminates`
  rests on the budget (client.ts:367-369) alone.
* `RouteStream`: downloads end (they have their own timeout), the budget runs
  out, the iterator ends when it is stopped or finished, which is
  `GenerateStream!Terminates`. Neither the client nor the upstream owes anything.
* `Server`: the event loop goes on; a lookup ends (the resolver gives up), a
  download and a fetch end by their timeouts (messages.ts, models.ts), and the
  wait for the directory ends by the request's budget. The creation of the
  directory itself may hang for ever, and no client need stay or leave.
* `KeyProxy`: every upstream call comes back, because `http.Client` has a timeout
  of 300 s and probes one of 15 s, and goroutines run on. The operator, the clock
  and other requests owe nothing.

## 4. What is proved

TLAPS checks these, for all values of the constants that meet the assumptions
the modules name (`ConstantsAssumption`, `RouteAssumption`, `EventsAssumption`,
`IdentitiesAssumption`, `ToolListsAssumption`, `ServerAssumption`,
`PoolAssumption`, `ProxyAssumption`, `RegistryAssumption`):

| Module | Theorems, besides the invariant and `TypeCorrect` |
|---|---|
| `GenerateStream_proofs` | `AtMostOneConnection`, `EndsClean`, `FirstCauseIsReported`, `RefusalIsFinal`, the refinement `StreamImplementsOnce` |
| `RouteStream_proofs` | `OneEndingHolds`, `CompletedMeansFinishedHolds`, `CommittedWithContentHolds`, `HandsBackHolds`, `SilentOnceGoneHolds` |
| `ResponseEvents_proofs` | the refinement `StreamCanBeFollowed`, `StreamIsTheWhole`; of `ClientStreams`: `BothInvariant`, `ChatStreamIsTheWhole`, `ApisTellTheSame` |
| `Conversation_proofs` | `HistoryIsFaithful`, `ToolsAreToldApart`, `OwnOutputIsAccepted` |
| `Server_proofs` | `OneDirectoryHolds`, `AskedWithEverythingHolds`, `ListsAreTrueHolds` |
| `KeyPool_proofs` | `KeysAreDistinct`, `CleanIsSaved`, `EditsSurviveCrashes`, `LossesAreRecent`, `OnlyTheOperatorEnables`; of `KeyPoolHistory`: `HistoryInvariant`, `RotationIsFull`, `DisabledAfterStreak` |
| `KeyProxy_proofs` | `ProxyUsesThePool`, `PoolPromisesHold`, `VerdictsHitTheKeyCalled`, `EvidenceLiftsQuota` |
| `ModelRegistry_proofs` | `ShortNamesResolveHolds`, `ModelsSurviveHolds`, `NeverEarlyHolds`, `NamesKeepResolvingHolds` |

**The stream's invariant.** None of the safety properties is inductive: that one
connection is open says nothing unless one knows that earlier attempts are
closed, and that depends on where the generator stands. `IInv` therefore says
for each suspension point what the request holds there. `ConnInv` fixes the
connection of the current attempt and that the earlier ones are closed and the
later ones unused; `OutputInv` says that nothing was shown before the first
`yield` and nothing is left to yield elsewhere; `AbortInv` ties signal, timer
and listener together, so that the abort reason is the first one; `RetryInv`
says that a backoff is reached only from a status that may be retried. Each
action moves between two suspension points, so the proof is one step per action
with one leaf per conjunct. For the refinement, an attempt is a `Call`, a yield
is a `Show`, an abort is a `Stop`, an abort before the first pull is
`StillBorn`, the end is an `End`, and every other step stutters; `IInv` supplies
the guards.

**The routes' invariant** speaks of three phases. In `Early` nothing but a
refusal can have been written; `Underway` says what the wire holds while events
are emitted (a head, then content, no ending yet, and which of the upstream's
events it stands for); `Over` says, at the return of the iterator and after it,
that there is at most one ending and that "completed" goes with the upstream's
`finish`. The phases exclude each other, and a write moves on within one or to
the next, so the properties of the whole wire follow from its form.

**The Responses stream.** That a client can place each event is no property of
one event: the generator yields several for each upstream event, and the client
lags behind by what is queued. `Waits(queue, reader)` lists the forms the queue
can have (nothing, items being opened, a text or an argument delta under way, a
call, the ending) and says in each how far the client is behind what the
generator's own indexes say. An upstream event starts one of the forms from the
empty queue, a yield shortens it, and in each form the client's next step is one
`ResponsesConsumer` allows. Texts and items are unbounded here.

**Stream and whole, one API and the other.** A stream is compared with its whole
answer when it ends, but why they agree has to hold at each event. `CollectedOK`
says that what the stream has open is what `collectState` has gathered and that
calls come in the order of their events; `OutputAgrees` that the output indexes
no text or reasoning has taken hold exactly the collected calls, in that order,
so that items which open between two calls displace nothing; `ReaderAgrees` that
the client has the final output and only at the end. `ChatInv` ties the Chat
client to the same `collected`: until the end it has the texts and calls
gathered so far under consecutive indexes, and then, with the reason and the
usage, the completion. As both clients are tied to one and the same state,
`BothApisAgree` follows without comparing the two streams with each other.

**The conversation.** The two translations are loops over a list that grows at
its end. `NormalizeAppend` and `TranslateAppend` say that one more element is
one more step of the loop, whatever came before; both rest on the recursive
function being defined on all of its domain, which is proved by plain induction
over numbers (`NatInd`). So the invariant need not speak of prefixes: `EndOK`
says that what is made of the items now is what has been said, and one more item
changes both alike. The difficult step is an item that belongs to the message
before it. The translation then replaces what it has made of that message, and
with it the calls it has noted; `PhaseOK` knows whose message that is, and
`Shape` that the translation of the messages before it is all that is left of
them. A result finds the right name because `EndOK` has each id noted once and
every open call among the noted. All of this is `Faithful`, and `IInv` has it as
long as no item is `Blank`; with a blank one there are no more requests whose
history could be wrong, and `ListsKept` shows that the item stays. For the names
of the tools (`ToldApart`), `MapOK` says after each tool that the map so far is injective, has the plain
tools under their own names, and a free suffix for the next (`NameIsFree`: not
all of the first n + 1 suffixes can be taken by n names). `IdentitiesAssumption`
says that the tools stand in the order of the sort and that no two are the same
(responses.ts:34-41 refuses such a request); `ToolListsAssumption` that the
lists consist of such tools.

**The server.** `AskedInv` says at each stage which images are replaced and what
directory a request holds, and that only a made creation lets it ask.
`ListInv` follows the age of a list from the fetch that carries it, through the
cache (`expiresAt` is at most the age of its list plus a fetch plus the
lifetime), to the answer; a fetch that lasts no longer than its timeout is what
the bound rests on, and the two together are inductive where neither is alone.

**The pool.** `CleanMeansSaved` says as much of the dirty flag as the code keeps:
under a lowered flag the file is never an older state of the pool. It may be torn,
because the `Flush()` of a shutdown fails without raising the flag, and it may be
anything under a pool that is empty because the file could not be read.
`EditsSurvive` needs every operation that changes order or `enabled` to save with
force, and the file not to be torn while nothing failed. `LossIsRecent` measures
what the throttle holds back: a cooldown that is not in the file is from an error
within `SaveInterval` of the last write, since an error after that would have
been written. `AddKey` is the one that could double a key: its guard and
the distinctness of the order give the rest, and `Restart` carries the same over
from the file. The rotation cannot be read off the index alone: an index stands
for a rank among the keys that happen to be available. `RotationInv` says that
the keys handed out since the available ones changed are those whose rank the
index has passed since some starting rank, round the end of the list if need be,
so that the next rank is not among them before all are. `StreakInv` bounds the
recoveries on record, which survive other operations, by the errors in a row,
which are a history. Both are proved for any number of keys, of which the run
has three.

**The proxy over the pool.** `ProxyUsesThePool` shows that each step of the
proxy is a step of the pool or leaves the pool alone, so the pool's invariant
carries over without being proved again; only what the requests and walks hold
is new (`RequestsOK`, `WalksOK`). `QuotaLiftedByEvidence` and
`VerdictOnTheKeyCalled` are action properties and take one step per action.

**The registry.** A short name is not resolved by the list but by a table that
each sync rebuilds, so the invariant says that the table is sound (what it names
is listed, under its own short name) and complete, and that the builtin
models are always listed.

**Only model-checked.** Liveness and fairness (`Terminates`, `AllReleased`,
`Finishes`, `EveryoneAnswered`, `RequestsEnd`, `ConnectionsReleased`) are out of
the prover's reach. Every invariant, action property and refinement that a
passing run checks is also a theorem.

## 5. What the runs show

* **Retry.** Whatever fails and whenever the caller leaves, a request is sent
  again only if nothing was shown, nobody left, and the failure was a gateway
  status or a broken connection. A refusal whose body names 503 is final.
* **Release.** After the end no timer, listener or body is held; a response that
  arrives after the abort is cancelled; no two attempts hold a connection.
* **Truth.** Budget and disconnect are told apart by which came first. A stream
  is completed only after the upstream's `finish`, a 200 is committed only with
  content, and a failed stream ends once.
* **Concurrent requests.** First requests that come together share one
  directory, a failed creation is forgotten before the next request asks, and a
  directory once made stays. The upstream is asked only with every image there.
  The list told is at most a lifetime and a fetch old whichever of several
  fetches came last, and a fallback is never kept for another caller. Everyone
  is answered although a creation may hang, and no connection of a download
  stays open, not even that of a refused request.
* **Conversation.** Over several turns the upstream reads what it said and was
  told, one message per answer of its own, each result with the name of its
  call; so a request only extends the one before it. Tools whose names collide
  are told apart whatever their order, and a name that is no tool's can be sent back.
  Only a call that the upstream leaves without a name or with an empty id is
  handed on and then not taken back.
* **Both APIs.** The chat stream says what the whole completion says, and either
  API tells the same texts and calls.
* **Responses.** Although items open on demand and the output array is filled
  out of order, a client can place each event, and the stream and the whole
  answer contain the same items. (They may differ in an empty message.)
* **Pool.** While no read or write fails, a crash loses cooldowns of at most one
  save interval and no edit. No probe, scan or late verdict re-enables a key
  that the operator switched off, not even one that was under way at that moment;
  a restart does, when the write of the switch had failed. After a failed write
  the file may be torn, even under a lowered flag, and nothing guards it.
  The rotation stays fair when keys come and go.
* **Names.** A partial list or a failed sync never takes a name away, nor does a
  restart as long as no read or write of the file has failed. The name goes on to
  name the same model or, where two share a short name, the other of that name.
  After a failed or cut-off write a restart forgets the models of earlier syncs.

## 6. Findings

* `model_due` (code bug): `Due()` (models.go:238) compares `NextSyncIn` with 0,
  but that number is written when a sync ends or the interval is set and never
  counts down, so the ticker of main.go:110-117 never finds a sync due.
* `keyproxy_escalation` (code and comment): "repeated 5h hits escalate to period"
  (keypool.go:326) does not happen for a key that the scan restored in between,
  because `RestoreKey` clears the verdict the escalation looks for.

Met while modelling, and left as remarks, without a run of their own:

* The retry does not always take "the next available key" (proxy.go:172-173).
  When a health check's 200 has ended the first key's cooldown in between and
  another pick has moved the rotation on, the second pick gets the first key
  again. The code then gives up (proxy.go:193-196) and tells the client that every
  key is limited (proxy.go:144), although another one is available.
* After two 429 the client is told that every key is limited although a third
  was not tried.
* A call that the upstream leaves without a name or with an empty id is shown to
  the client and refused when it comes back (responses.ts:198-203, 325-326).

## 7. What is not modelled

* **Data without control.** Texts, logs, headers, the schemas' field checks and
  the 400s for malformed items, message items with the role "tool" in the input, parameters
  that are copied, the marks of models that can read images, which address is
  public (a choice of `HostResolved`), the byte-wise pass-through of the Go proxy.
* **Below the model's grain.** The chunking of NDJSON is modelled as lines with a
  possible rest, not as bytes. Backpressure is not: a write is accepted or the
  socket is gone.
* **Parts left out.** The Go configuration is a record under a mutex that is
  merged and saved as a whole, so the last write wins. The
  panel's page keeps no state of the service; of the panel's
  endpoints, those that only read are left out, and so is the settings
  endpoint's merge, although it passes any interval on to `SetInterval`
  while the configuration ignores a negative one (config.go:129). The start and stop scripts depend
  on the system's reuse of process ids (`stop.sh:25`), and the deployment script
  is linear.
* **Modelled without a property of its own.** A key disabled by `MarkError` is
  saved with the throttle (keypool.go:279), and a torn or unreadable
  `keys.json` loads as an empty pool over which `main.go` provisions a default
  key, and whose next save overwrites the file (keypool.go:112-124,
  main.go:74-83). A sync that failed
  late overwrites the status of one that succeeded meanwhile. The models
  have all three; no text of the repository promises otherwise.

What would come next: the settings endpoint with the registry's schedule, and
a backpressure-aware `RouteStream`, in which a slow client holds the chain.
