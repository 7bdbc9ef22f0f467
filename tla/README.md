# A verification development for MongrelDB-CPP

TLA+ models of the C++ client for MongrelDB (`src/`), model-checked with TLC and,
for the modules that carry proofs, proved with TLAPS. The reference is the code:
every definition is translated from the lines that `PROJECT.json` ("map") names,
and a statement of the documentation appears only as a property that is checked.

## 1. The system

A header-only C++17 library (`include/mongreldb/mongreldb.hpp` declares,
`mongreldb_impl.hpp` implements) that talks to a `mongreldb-server` daemon over
HTTP/JSON with libcurl. The library itself has no threads: a call builds a body, makes
one blocking HTTP request, decodes the answer with a small bundled JSON parser
and returns a value or throws. What is hard about it is therefore not inside the
process but around it: allocations and transfers that fail half way, a daemon
that crashes or answers late, requests that are repeated, and answers that are
cut off, incomplete or shaped otherwise than the decoder expects.

| Component | State it keeps | Operations | What makes it correct |
|-----------|----------------|------------|-----------------------|
| HTTP request engine (`Impl::request`, `write_cb`) | timeout and credentials; per call the easy handle, the header list, the response buffer, result code, status | one request; `set_timeout`; constructors; `health` | the handle is released exactly once on every exit; no header that could not be appended goes missing unnoticed; the buffer stays capped; a verdict rests on a whole reply; every call ends |
| Exception hierarchy | - | status and envelope to exception | the class follows from the status |
| Transactions (`commit`, `put`, `upsert`, `del`, `delete_by_pk`) | nothing between calls: the idempotency key is the caller's | one `POST /kit/txn` per attempt, never a retry of its own | a batch under a key takes effect at most once; a call that returned was applied |
| JSON field lookups (`get_string` ... `get_array_raw`) | an `out` parameter that survives a failed lookup | one scan of the top-level object | what is there is found, with its value; nothing is invented |
| Durable query status (`query_status`, `parse_*`, `commit_hlc()`, `serialization_state()`) | scratch variables reused from field to field | decode, two accessors | fields are reported as sent; the innermost HLC and serialization win |
| Result and table list decoding (`query`, `table_names`) | parser cursor, current row, rows so far | walk of nested arrays | whole replies come back as sent, broken ones never in part |
| History retention (`history_retention`, `set_history_retention_epochs`, two getters), `count`, `create_table` | - | one GET, PUT or POST each | what is returned was true at one instant of the call; pruned history does not come back; a broken or incomplete reply is no answer |
| Request serializers (`serialize_*_json`, `commit`, `query`, `build_retrieve_text_body`) | - | text assembly | two calls send the same text exactly if they ask for the same |
| String and number conversions (`json_escape`, `read_string_raw`, `get_int`, `get_uint64`) | cursor, flag | escape, unescape, convert | what was written comes back; cut text is not taken for shorter text; integers do not wrap |
| Test HTTP server (`MiniHttpServer`) | listening socket, thread, mutex, stop flag, captured requests, response | start, stop, serve, `set_response`, `take_requests` | an answered request was captured; no torn response; `stop()` returns and leaves nothing open |
| Client handle, `Value` | `unique_ptr<Impl>`, a tag | move, destroy, access | - |
| Live test harness | a child process | start, poll, kill | - |
| Engine and kit C headers, examples | - | declarations, demonstrations | - |

Interactions are calls (every operation ends in `Impl::request`), one callback
(libcurl calls `write_cb` inside `curl_easy_perform`) and messages (request and
answer; an attempt the client has given up may still reach the daemon).

Hard behaviours, in the order of their weight: retries against lost, delayed and
repeated requests and a crashing daemon; failures between two steps of the
request engine; stale scratch variables behind a lookup that "succeeds"; replies
that break off; a resize of the history that arrives after it was given up; and the
one place with threads, the HTTP server of the tests. The full list with source lines is "hazards" in `PROJECT.json`.

## 2. The modules

| Module | Models | Extends / instantiates |
|--------|--------|------------------------|
| `HttpRequest` | request engine, `write_cb`, status mapping, `health`, `set_timeout`, constructors | `JsonFields` |
| `HttpRequest_proofs` | theorems about it | `HttpRequest`, `TLAPS` |
| `ExactlyOnceCommit` | the abstract promise of a commit | - |
| `IdempotentCommit` | `commit` and its siblings, network, daemon | instantiates `ExactlyOnceCommit` |
| `IdempotentCommit_proofs` | theorems about it | `IdempotentCommit`, `TLAPS` |
| `JsonFields` | the `get_*` lookups as operators | - |
| `StatusDecode` | `query_status` and its parsers | `JsonFields` |
| `StatusDecode_proofs` | theorems about it, lemmas about the lookups | `StatusDecode`, `TLAPS` |
| `ReplyDecode` | the walks of `query` and `table_names` | - |
| `ReplyDecode_proofs` | theorems about it, lemmas about the parser's `skip_value` | `ReplyDecode`, `TLAPS` |
| `RequestBody` | the bodies of `create_table`, `commit`, `query`, `retrieve_text` | - |
| `RequestBody_proofs` | theorems about it | `RequestBody`, `TLAPS` |
| `HistoryRetention` | the retention calls, `count`, `create_table`, their daemon | `JsonFields` |
| `HistoryRetention_proofs` | theorems about it | `HistoryRetention`, `TLAPS` |
| `TextCodecs` | `json_escape`, `read_string_raw`, widths of integers | - |
| `TextCodecs_proofs` | theorems about it | `TextCodecs`, `TLAPS` |
| `MiniHttpServer` | the server of the wire-shape tests, its two threads | - |
| `MiniHttpServer_proofs` | theorems about it | `MiniHttpServer`, `TLAPS` |
| `MC*` | the small instances | the module of that name |

`JsonFields` is shared: the error envelope of `HttpRequest`, the status decoder and
the decoders of `HistoryRetention` are built on the same lookups, as in the code.

**Mutants.** An operator that starts with `M` and stands before a definition is
that definition with a plausible mistake (a dropped guard, a missing reset). None
is used by a specification. `PROJECT.json` ("mutants") pairs each property with
one that breaks it, so that every property is known to depend on the code.

### HttpRequest

`pc` is the statement `request()` is at; the actions `EasyInit`, `AppendAccept`,
`AppendContentType`, `SetOptions`, `AddAuth`, `Unwind`, `Release` and `Classify` are
its blocks in order, `WriteChunk` is the callback, and `Complete`, `Break` and
`TimeOut` are what libcurl and the server may do. The heap is counted, not drawn:
`handles` (easy handles alive), `nodes` (header nodes alive) and `headers` (nodes
reachable from the local pointer). `curl_slist_append` returns NULL and keeps the
list it was given; the code assigns that NULL to its only pointer, and so does
`SlistAppend`. `curl_easy_setopt` copies the options that are strings and may run out of
memory over it, and the code ignores its result: `refused` is the set of options (`"url"`,
`"method"`, `"userpwd"`) the call went on without. Without an address libcurl gives up
before it sends anything (`NoUrl`); without the credentials it sends the request as it is,
and `Performing` is what reaches the network. The options that are numbers or pointers are
taken to be accepted, `CURLOPT_TIMEOUT` among them (libcurl refuses one of more than
about 24 days, whose milliseconds fit no `int`: `EveryCallEnds` is about timeouts it takes). Allocations that fail outside of the life of the easy handle (the URL, the
message of an exception) leave nothing behind and are left out. A reply is
`[code, text, body]`; the text of a message is a model value.

### IdempotentCommit over ExactlyOnceCommit

`Commit` is the client's whole operation: nothing for an empty batch, else one
request (`Wire` is its body, which carries the key unless it is empty) and a wait.
The application, not the library, retries, with the same batch and key, as
`docs/transactions.md` tells it to. `NetworkError` is a refused, broken or timed-out
transfer: the client stops waiting (`live` becomes FALSE) while its request may
still be on its way and be executed later. A status that decides nothing about the batch
(401, 403, 404, 5xx) ends a call in the same way, with an exception that says neither that
the batch was applied nor that it was not, and has no action of its own. The daemon is external: it applies a
batch and remembers its key in one durable step, replays a known key, answers 409
to a known key with another batch or to a violated constraint, and may crash
before it has answered. Its memory of keys does not expire in the model;
`docs/errors.md` speaks of a retention window, beyond which nothing is claimed.

`ExactlyOnceCommit` knows no messages, attempts or crashes: a submitted call may
take effect, under a key only if the key was not used, and returns only if exactly
its batch under its key is in the ledger. The refinement maps a waiting or failed
call to a pending one and the daemon's log to the ledger.

### JsonFields and StatusDecode

A body is the list of its members, each a key, a kind of value and a value; kinds
tell apart what the lookups tell apart, with separate kinds for a string, word, object or
array the text ends in the middle of. A word that is cut (`"boolCut"`) is no error to the
code: it is FALSE, whatever the daemon was writing. An integer of `get_int` passes through a
double (`AsDouble`): it stays as it is up to `Exact`, which is 2^53, and beyond that is
`Rounded`, of which only the type is assumed; `TextCodecs` says what rounding and cast do
at the ends of the types. A lookup returns its flag *and* what its
`out` parameter holds then, because the parsers reuse one scratch variable per type.
`StatusDecode` folds the parsers' tables of reads over these scratch variables. The
32-bit words of an HLC are `% Word`, with `Word` = 2^32 in the program.

### ReplyDecode

A text is a sequence of tokens: strings, numbers, words, and the six structural
characters, which have names (`"lbrace"`, `"comma"`). `Skip` is `skip_value` as a function of
the position: where a value ends, or the rest of an object or an array, each resting on
positions further on alone. What may stand in a cell is any text of tokens that
`skip_value` reads as exactly one value (`IsJson`). One action is one turn of one of the loops of
`query()` (members, rows, members of a row, cells) or of `table_names()`. The daemon
renders a reply it means, with the members in any order, and what arrives is that
text whole, cut after any token, cut inside any string, or with any one token
missing.

### RequestBody

A body is the record the text stands for: a member the code emits under a condition is
a set of at most one value, a scalar is a pair of its JSON type and value, and raw JSON
from the caller is such a pair already. `text` records the two ways the text can fail to
be JSON: a `%.17g` of NaN or an infinity in a range, and a tuning block that `snprintf`
cut to its buffer (`DiskannFits`, `IvfFits`, `ProductFits` count the characters). The
properties compare all pairs of calls. What a call asks for (`SameCall`) is stated from
the structs of `mongreldb.hpp` and the comments on them: every field of an `Index` and of a
`Condition` counts for some kind. `SentAsMeant(op, lost)` says that calls that ask for the
same send the same body, and that calls whose texts are whole and the same ask for the same
but for the fields in `lost`. These fields are the only thing taken from the serializers: the
properties that hold name `pq_num_subvectors`, `pq_bits`, `lo_inclusive` and `hi_inclusive`, and
the same statement with nothing lost is violated (`EveryFieldIsSent`). A text
that a buffer cut off is compared with no other, since two of them may be the same for
different bodies; `SpoiledOnlyByExtremes` says when there are such texts.

### HistoryRetention

Callers make a call (`Call`), the daemon serves it (`Serve`), and the client decodes
what arrives (`Return`) or gives up (`TimeOut`); a PUT that was given up unserved may
still be executed (`LatePut`). The daemon is external: a window of epochs, the earliest
epoch it keeps, and a count of rows and tables, which commits change in between. `Answers`
is the set of results a call may return, over the whole reply in either member order,
the reply cut after any member or within the digits of a number (`Cuts`), whole objects
that lack a field or have null for it (`Lacking`), and a foreign object. Numbers pass through
`AsDouble` where the code uses `get_int` (`count`, `create_table`) and are exact where it uses
`get_uint64`. `seen`, `floor` and `told` are history variables of the properties. `Decode` keeps what the
code does with the flag of its lookups: the retention calls throw on FALSE, `count` and
`create_table` do not look at it.

### TextCodecs

Text is bytes, and one action is one turn of the loop of `read_string_raw`, each with its
own bounds check. A literal is a sequence of pieces, each with its spelling and the bytes it
means: a character, a letter escape, an escape of a lone unit or of a pair (`IsLiteral`,
assumed of the constant `Literals`; no lone high half stands before a lone low one, since
the two would be a pair). What a piece means comes from the other side: the bytes
`json_escape` was given, or UTF-16 units a daemon wrote. It is put in terms of the code's own
`Combined` and `Utf8`, so that a slip in those two would show only where the run's literals
have their bytes written out (`Grin`). `Converted` is what a
reader of a number returns: `strtoull` and `strtoll` stop at the ends of their type,
`get_int` takes a nearest double (of two, either) and casts it, and a double that fits no
`int64_t` is cast to any value, since the cast is undefined. The width of an integer, the
mantissa and the set of integers that are doubles are constants.

### MiniHttpServer

`owner` is the statement of the test thread, `server` that of the accept thread. Each
statement of `stop()` is an action, and so is each step of `run()` and `handle()` that
another thread can see. The read of `listen_fd_` in `run()` is a data race with the write
in `stop()`: it may return either value (`ReadFd`). The mutex is held over two
actions by `set_response()` (`SetStatus`, `SetBody`) and within one action elsewhere.
The kernel is external: a socket outlives its descriptor while an `accept()` is blocked
on it, `shutdown()` wakes that `accept()`, and closing drops the connections not yet
accepted. Clients are libcurl calls that send their request in pieces and give up after
a timeout.

## 3. The runs

All runs need seconds to a minute. Properties of a passing run hold in every
reachable state (or step) of the instance.

| Run | Instance | Shows |
|-----|----------|-------|
| `http_request` | cap 3 bytes, chunks of 1 and 2, timeouts set to 0 and 5, eleven replies, three kinds of credentials, any string option refused | `HandleReleased`, `RequestIsComplete`, `LeaksOnlyOnFailedAppend`, `ResponseCapped`, `VerdictNeedsWholeReply`, and that every call ends (`EveryCallEnds`) |
| `commit` | two callers, three batches, one key both may use or leave out, three applied batches, one crash | `AtMostOncePerKey`, `ReturnedMeansApplied`, the refinement `ImplementsExactlyOnce`, and `KeyedCallsAreAnswered` |
| `status` | every sequence of up to three of the members of `MCStatusDecode`, closed or cut, words, objects and strings that are cut among them; integers exact up to 4, and a 7 that comes back as 8 | `PresentFieldsAreReported`, `CutBodyInventsNothing`, `CountersAreNotBorrowed`, `CommitHlcPrecedence`, `SerializationPrecedence` |
| `replies` | up to two rows of up to two cells, up to two names, six layouts, every damage of one token | `WholeRepliesAreReported`, `NeverInPart`, `NothingMoves`, `EveryTurnAdvances` |
| `request_body` | nearly 600 calls, each one or two fields away from a default struct | `CreateTableAsMeant`, `CommitAsMeant`, `QueryAsMeant`, `SpoiledOnlyByExtremes` |
| `history_retention` | two callers, three calls, windows 1 and 3, up to four epochs, numbers of base 2, exact as doubles up to 2 | `WholeAnswersAreTrue`, `NothingComesBack`, `BrokenOffPairs` |
| `text_codecs` | strings of up to three of eight bytes, texts of up to three of nine UTF-16 units, every cut; words of 7 bits, integers up to 8 and their shifts exact as doubles, integers from -70 to 140 | `StringsAsMeant`, `IntegersAsMeant`, and a cursor that stays in its text |
| `mini_server` | two clients (a request of two pieces and one of three), two responses, one `stop()` | `AnswerMeansCaptured`, `NoTornAnswer`, `StopIsQuiet`, `StopReturns` |
| `commit_deletes`, `status_absent`, `replies_malformed`, `request_fields` | as above (`status_absent` with up to two members) | one statement each of the documentation or of a comment that the code does not keep; section 6 |

**Why the bounds are enough.** In `HttpRequest` every statement that can fail fails
in every order, a second call runs on the heap the first one left, and a cap of 3
with chunks of 1 and 2 reaches the cap exactly, by one below it, and beyond it;
`MaxLost` only stops new calls once two nodes have been lost. In `IdempotentCommit`
two callers on one key give every pair of roles (first and retry, same and other
batch), `MaxLog` = 3 leaves room for a second application of everything that
could be applied twice, and one crash can fall between any two steps. In
`StatusDecode` a wrong value needs a neighbour before the field, the field, and at
most one more member, and members are chosen so that every scratch variable has a
predecessor. In `ReplyDecode` two rows and two cells pass every branch of every
separator, and one cell holds an object with a member named `rows`.
In `RequestBody` a field that is lost, or leaks into a request it has nothing to do
with, shows between two calls that differ in it; precedence between fields needs
two of them set, and all combinations of those are there. In `HistoryRetention` three
calls (`MaxCalls`) are a resize, a second one that overtakes it, and a reader; `Top` = 4
bounds the epochs and so the commits, and leaves both windows something to prune; base 2
gives four-valued numbers something to lose, and with `Exact` = 2 a count of 3 is no double.
In `StatusDecode` `Exact` = 4 does the same for one counter. In `TextCodecs` three units are a pair with
a neighbour on either side, the units lie at both ends of the surrogate ranges and of
the UTF-8 lengths, and the numerals pass both ends of the word and of the mantissa. In
`MiniHttpServer` two clients are one being served and one waiting, and `stop()` may fall
between any two of their steps.

`commit`, `commit_deletes`, `history_retention`, `text_codecs` and `mini_server` switch the
deadlock check off: the system stops when every caller has its answer, the calls are
used up, the text is read, or the server is stopped. The other runs check it.

**Fairness.** `HttpRequest`: the calling thread runs its own statements (weak
fairness of `ClientStep`), and libcurl honours a positive `CURLOPT_TIMEOUT` (weak
fairness of `TimeOut`) and gives up at once without an address (`NoUrl`); nothing is assumed of the server or of the network.
`IdempotentCommit`: the same timeout ends every attempt (`NetworkError`), the
application goes on retrying, the daemon is restarted, and a network and daemon
that get infinitely many chances to execute a caller's live request, or to
deliver an answer to it, do so once (strong fairness, since each attempt may time
out first). `MiniHttpServer`: both threads are scheduled (weak fairness of `StopStep`,
`SetBody` and `ServerStep`; a mutex that is free is obtained, as its holder needs one
step) and a client's call ends by its timeout (`GiveUp`). Nothing obliges a client to
connect or to send, and no error of `accept()` is owed to anybody.

## 4. What is proved

For every value of the constants, under the named assumptions the modules state
(among them `CapAssumption`, `KeyAssumption`, `BatchAssumption`, `SizeAssumption`,
`WindowAssumption`, `ExactAssumption`, `RoundedAssumption`, and `MemberAssumption`, which says
what a numeric member is). TLC
evaluates each of them in the runs.

*Induction over data.* The induction theorems of the library take an operator and cannot be
used here, so the lemmas that need induction (over the tables of reads, over the positions of
a text, over the parts of a reply, over the pieces of a literal) argue by a least counterexample: a set of natural numbers
that is not empty has a least element (`Least`, from the well-foundedness of `<` on `Nat`), and
`Induct` and `InductBack` put that in the form of a step upwards from 0 and backwards from the
end of a text. A recursive function is known to satisfy its equation by building it the same way.

*HttpRequest_proofs.* `TypeCorrect`, `HandleIsReleased`, `RequestsAreComplete`,
`OnlyFailedAppendsLeak`, `ResponseIsCapped`, `VerdictsAreFounded`. None of these is
inductive alone. The invariant `IInv` adds `ListShape` (how long the header list is
at each statement: without it `RequestIsComplete` does not survive the step into
`perform`), `NodesAreListed` (every live node is on the list unless an append on a
non-empty list has failed) and `TransferIsWhole` (a result code OK means that every
byte delivered was buffered, and that a reply was received). `RequestsAreComplete` covers what
`request()` itself checks; that libcurl may refuse to copy
the credentials, it leaves standing (section 6). The proof has one
lemma per group of actions; `VerdictClasses` and `SeenClasses` bound what the
mapping of replies and `health()` can produce.

*IdempotentCommit_proofs.* `TypeCorrect`, `AtMostOnce`, `ReturnedIsApplied` and
`Refinement`. The inductive invariant ties the messages under way, the log and the
durable table together: a request carries the arguments of its caller's call, an
"ok" on its way was applied, and a key is remembered exactly if it is in the log,
with the batch that was applied under it. `Refinement` maps every step of the
client, the network and the daemon to a step of `ExactlyOnceCommit` or to a stutter.

*MiniHttpServer_proofs.* `TypeCorrect`, `AnswersAreCaptured`, `AnswersAreWhole` and
`NothingIsLeft`, for any number of clients, any request sizes and any responses. What
makes them inductive are the conjuncts of `IInv` beside `TypeOK` (`SentInPart`, `Locked`,
`Socket`, `Served`, `Logged`): which statements of the accept thread have a connection, and that
only this connection is "accepted"; that an accepted client is in the captured list
exactly from `Push` on, and whole unless it gave up; that `response` mixes two responses
only while `set_response()` holds the mutex, so that what was built under the mutex is
one of them; and how far `stop()` has come with the flag, the descriptor and the socket at
each of its statements.

*HistoryRetention_proofs.* `TypeCorrect`, `AnswersAreTrue`, `HistoryStaysLost`
and `PairsAreNotHalved`, for any callers, windows, numbers of calls, bases and any rounding
of the integers beyond `Exact`. The invariant (`Types`, `Replied`, `MovesOn`) says that the state an answer reports is one the call has
seen, that a served resize has the window it asked for, that what anybody was told is not
beyond the daemon's earliest epoch, and that every state a call sees keeps at least
what had been told before it. Lemmas state what the lookups return on a whole
reply and on each way of cutting it off.

*TextCodecs_proofs.* `TypeCorrect` (in any text, cut off anywhere, the cursor of
`read_string_raw` stays inside, and what it appends are bytes), `StringsAreRead`
(`StringsAsMeant` for every set of literals, of any length, from `LiteralAssumption`),
`EscapedComesBack` (what `json_escape` wrote of any bytes comes back as those bytes; it rests
on `EscapedAsMeant`: `json_escape` writes a literal that means what it was given) and
`IntegersAreRead` (`IntegersAsMeant` for every width, from `WidthAssumption`, `NumeralAssumption`
and `DoubleAssumption`: an integer no larger than the mantissa is a double). `IInv` adds to
`TypeOK` which of the two things is read, that a number read is one `Converted`
allows, and of a literal where the reader stands (`Between`): behind its k-th piece, with the
meaning of the first k read (`AtPiece`), or inside a piece that was cut off, with no quote
left in the text (`Broken`). Each turn reads exactly the next piece, because nothing behind a
lone high half can be taken for its low one (`NoLowFollows`), or is the last.
`CodePointRange` bounds the code points and the cursor behind an escape, and
`NearestKeepsOrder` is why rounding never carries a number past one that is exact.

*RequestBody_proofs.* `CreateTableIsSent`, `CommitIsSent`, `QueryIsSent` and
`OnlyExtremesSpoil`, for any calls whose structs hold what C++ lets them hold
(`CallAssumption`, from the declarations in `mongreldb.hpp`: vectors, enums, raw JSON that is an
array or an object, integers of at most twenty digits) and a decimal notation that gives the
engine's defaults their digits (`DigitsAssumption`). The reachable states are two calls at most,
so the content is in the lemmas: each serializer depends on what its struct means and on
nothing else, and is injective up to that and the lost fields, field by field, and each block of tuning fits its buffer as long as no parameter is extreme.

*StatusDecode_proofs.* `TypeCorrect`, `PresentIsReported`, `CutInventsNothing`,
`CountersAreOwn`, `CommitHlcIsInnermost` and `SerializationIsInnermost`, for bodies of any
members in any number and order, nested to any depth (`MemberAssumption`,
`BodiesAssumption`). The invariant is that `status` is `ParseQueryStatus(body)`. One lemma says
what each lookup returns: the first member of the key and type, else whatever the scratch
variable held; an induction over the table of reads then says what each field holds after
all reads, whatever the reads before it left in the scratch variables. `CutInventsNothing` compares
values, not only presence, and `SerializationIsInnermost` has every nesting, the payload that
answers with its epoch text included.

*ReplyDecode_proofs.* `TypeCorrect`, `EveryTurnMovesOn`, `WholeReported`, `NeverPartial` and
`NothingIsMoved`, for replies of any size whose cells hold any JSON (`TokenAssumption`: no
token is two things; `ReplyAssumption`: a reply is what `IsReply` says), cut after any token
or inside any string, or missing any token. The argument for the first four has three
layers. About the parser: `Skip` at a position rests on the text behind it only, ends within
the text, and is carried along when a text is embedded in another one (`Transfer`), so that
a value is skipped alike alone and in its cell. About the reply: where every row, cell,
comma and bracket of it stands (`ObjectText`, `CellLayout`, `RowsStand`, `NamesStand`), that
the row array and `row_id` are skipped as one value each, and that `Flag` finds the flag on
either side of the rows. About the walk: the invariant `Typed`, `Walking`, `Came`,
`Following`. `Walking` bounds what was read by the cursor; `Following` says that on a text
that keeps to the reply up to where it breaks off, the cursor stands at the very position of
the reply that its loop is about (`Reached`), and that what was read so far is a prefix of
what the daemon meant. One lemma per action shows that each turn goes on to the next such
position, returns the whole reply, or meets the break and gives up.

`NothingIsMoved` is about a text that misses its m-th token, which is no prefix of the reply
behind it, so that `Following` says nothing there. The invariant is `Slipping`: for that m,
`Slid(m)`. In a loop the walk is in one of three places (`Placed`): before the missing
token, at the position of the reply its loop is about; behind it, at such a position less
one; or `Lost`, where the next turn throws, or gives up the search for `"rows"`. What it has
read so far is alike what the daemon meant (`AlikeRows`, `AlikeCells`): as many rows and
cells, under their columns, and the values of one token. Hard are the turns that skip a
value a token of which is missing, for `skip_value` then ends elsewhere. Where it does is
settled by `Depth`, the number of brackets open at a position: a value ends where the text
first comes back to the depth it began at (`ValueRound`), and behind the missing token the
depths of text and reply differ by what that token adds (`DepthSlipped`). So a token that is
no bracket leaves the end of the value where it was (`RoundAcross`); without a closing
bracket the value runs on through the cells behind it and takes the `]` that ends them all
for its own, behind which no cell can follow (`RoundUnclosed`, `PastCells`); and without the
opening bracket the cell ends inside its own value, one deeper than a cell (`Loose`), and
the walk reads on as if the members of the value were cells. As long as it finds what passes
for cells it stays in that value; the `]` that ends the value it takes for the end of the
row's cells, and then meets a comma and a number, or a second `]`, and throws (`LooseStays`,
`LooseTurn`). No such walk returns, whatever it had read before.

*Only model-checked:* the liveness properties (`EveryCallEnds`, `KeyedCallsAreAnswered`,
`StopReturns`): fairness and ENABLED are beyond the prover. Every other property of a passing run
is a theorem.

## 5. What is not modelled, and why

- `sql`, `schema`, `schema_for`, `cancel_query`, `drop_table`: one request each, whose
  answer is returned raw or dropped; `HttpRequest` is all there is to them.
  `parse_text_retrieve_result` is two lookups of `JsonFields`.
- How a timed-out query, `query_status` and `cancel_query` race is decided in the daemon;
  the client's part is three independent requests.
- `url_encode_segment` (a map over bytes), `strtod` of fractions.
- `Value` and the client handle: accessors, defaulted moves.
- The live test harness: one thread that starts, polls and kills a daemon that is not in
  the repository. The C headers only declare a foreign ABI; the examples are
  sequential programs.
- In the test server: a `std::thread` that cannot be created (its socket would leak), a
  failed check that leaves the test while the thread is joinable (`std::terminate`), and a
  second `start()` after a `stop()` (`stop_` is never reset, so it would serve nobody).

## 6. Where code and documentation disagree

Each of these is a run that TLC finds violated; "findings" in `PROJECT.json` quotes the
lines.

- `commit_deletes`: deletes take no idempotency key (`docs/errors.md:102`).
- `status_absent`: an absent optional field is reported with another field's value
  (comment `mongreldb_impl.hpp:337`).
- `replies_malformed`: a broken-off reply is an empty or complete answer
  (`SECURITY.md:34-35`).
- `request_fields`: `pq_num_subvectors` and `pq_bits` of an index never reach the wire, nor do
  `lo_inclusive` and `hi_inclusive` of a condition (comments `mongreldb.hpp:304`, `:336`).

These were met while modelling, can be read off the named definitions and have no run;
several have the cause, or break the sentence, of one of the four above:

- The retention calls, `count()` and `create_table()` answer from replies that are not whole,
  against `SECURITY.md:34-35`: `{"history_retention_epochs":5}` gives (5, 0), a whole object from
  something else (0, 0), a count that broke off 0 or its first digits, and an earliest epoch
  short of digits promises history the daemon has pruned (`Decode`, `Lacking`, `Cuts`).
- `{"committed":tru` is reported as committed = false, against the same sentence (`GetBool`).
- A durable payload without a serialization answers with its epoch text, whatever the outcome
  says, against the comment `mongreldb.hpp:223` (`Answer`; the cause is that of `status_absent`).
- A request is sent without its basic credentials when libcurl cannot copy them, against
  `docs/auth.md:57-58`, and a DELETE as a GET or a PUT as a POST when it cannot copy the method
  (`AddAuth`, `SetOptions`).
- `error.op_index` is never found, against the comment `mongreldb_impl.hpp:964-965`: `get_number`
  looks at the top-level members only (`OpIndex`).
- The name of a column is sent, against `README.md:324` (`ColumnBody`).
- A range bound that is NaN or infinite is sent, as no JSON, where `json_value` would emit
  null: no numeric range is rejected before a request is sent, against `SECURITY.md:55-56`
  (`ConditionIsText`).
- A header append that fails on a non-empty list loses that list, against
  `docs/errors.md:119` (`SlistAppend`; `LeaksOnlyOnFailedAppend` says it is the only leak).
- A write callback out of memory is reported as an oversized body, against the comment
  `mongreldb_impl.hpp:661-663` (`WriteChunk`, `Verdict`).
- A message that begins with "not found:" overrides the status, against
  `docs/errors.md:75-83` (`ErrorFor`).
- `std::bad_alloc` leaves `request()` outside of the documented hierarchy
  (`docs/errors.md:3-4`), and `health()` throws on 401, 403, 404 and 409 (`README.md:298`)
  (`Unwind`, `Seen`).
- The comment `mongreldb_impl.hpp:777` says tuning is emitted "only when non-default"; it
  is always emitted for the chosen algorithm (`Diskann`, `Ivf`).
- A primary key that is an empty string is sent as the integer 0 (`PkValue`).
- An error of `accept()` that would pass, such as a connection aborted by its client, ends
  the test server's thread for good (`AcceptError`).

## 7. Plan

Done: `JsonFields`, `StatusDecode`, `HttpRequest`, `ExactlyOnceCommit`,
`IdempotentCommit`, `ReplyDecode`, `RequestBody`, `MiniHttpServer`, `HistoryRetention`,
`TextCodecs`, and the proofs about all but the abstract and the shared one.

Left, and of small value: an abstract atomic register for `HistoryRetention` (one instant per
call), with the refinement that shows the calls implement it. It would be that module without
its history variables, and `AnswersAreTrue` and `HistoryStaysLost` already say what it promises.
