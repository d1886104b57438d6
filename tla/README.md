# A verification of trivial-twitter-v2

trivial-twitter-v2 is a small Twitter in C: a server, `ttweetsrv`, and any
number of clients, `ttweetcli`. This directory holds TLA+ models of both and of
what is between them, TLC configurations that check them on small instances, and
theorems about them that TLAPS checks for instances of any size.

To check one model: `tlc -config Sessions.cfg MCTweetServer`. To check the
proofs: `tlapm TweetServerProofs.tla`. `PROJECT.json` lists the runs, the lines
of the source that every definition models, the mutants that show that each
property can fail, the hazards of the code and the findings.

## The system

| Component | State | Operations | Source |
|---|---|---|---|
| Users and request handlers | `activeUsers`, an array of `MAX_CONC_CONN` `User` structs, and `latestTweet`, both in memory that all children share; `clientUserIdx` in each child | one handler per request: validate, tweet, subscribe, unsubscribe, timeline, exit | `ttweetsrv.c` 224-618, 663-678 |
| Parent | `childProcCount`, the listening socket | the accept loop that forks a child per connection; the SIGCHLD handler that waits for children | `ttweetsrv.c` 91-173 |
| Client | the connection, its username, `userIdx` | connect and send the username; then one command, one request and one reply at a time | `ttweetcli.c` 66-182, 523-592 |
| Client's parser | buffers | from a line of input to a request | `ttweetcli.c` 185-520, 595-622 |
| Framing | buffers | a block of `RCV_BUF_SIZE` bytes with the length, then the JSON text | `ttweet_common.c` |
| cJSON | trees of items; a buffer to print to, one to parse from | build a request or reply, print it, parse it, look up its fields | `dependencies/cJSON.c` |
| Socket set-up, debugging output | none | | `ttweetsrv.c` 176-222, 620-661 |

**How they interact.** A client connects and sends its username. The parent
accepts and forks. The child compares its copy of `childProcCount` with
`MAX_CONC_CONN`: it serves the client until `exit`, or (`reject_ttweet_client`)
handles one request and closes. A child handles a request on its own entry of
`activeUsers`, except a tweet, which goes through `latestTweet` into the queues
of all subscribers. There is no lock. When a child exits, SIGCHLD interrupts the
parent, whose handler waits for children and decrements `childProcCount`.
Nothing is persisted, there are no timeouts and no retries; the only wait is a
busy one of three seconds in `receive_response`.

**What is hard.** Children interleave on shared memory; the handler interrupts
the parent between any two instructions; connections end without the child
noticing properly; entries are freed and taken again in any order; arrays have
ends; old memory is read where a terminator is passed. Each component is correct
when:

- *users*: names are unique; a child's index is never stale; the list of
  subscriptions and the flag `isSubscribedAll` agree; a tweet reaches every
  subscriber once, in order, untorn, and nobody else; a free entry is clean;
- *parent*: at most `MAX_CONC_CONN` clients are served; every connection is
  taken; it runs for ever;
- *client*: what is well-formed is sent as it was meant, nothing else is sent,
  and no array is left;
- *framing*: messages arrive whole and in order, every request gets its reply and
  nobody waits for ever;
- *cJSON*: what is parsed is what was printed, and no buffer is left.

## The modules

| Module | What it models |
|---|---|
| `UserTable` | One `User` and what each handler does to it, as operators. No variables. The two modules below share it. |
| `TweetServer` | The server with every request handled in one step, the parent's counting of children, and clients that come, go and vanish. |
| `TweetService` | What the server promises: users online, a set of subscriptions and an inbox for each. Abstract; it stands for no line of code. |
| `ChildSteps` | The handlers of several children at once, one access to shared memory per step. |
| `Races` | `ChildSteps` with everything that may overlap, and two variables that watch who takes part in a race. |
| `Acceptor` | The parent, instruction by instruction, and the signal handler that interrupts it. |
| `Connection` | A client and its child that send and receive over two byte streams. |
| `ClientParser` | From a line of input to a request, as operators. |
| `ClientLoop` | The loop of the client's `main` around it: typed, read, sent, answered. |
| `JsonItem`, `JsonPrint`, `JsonParse` | The part of cJSON the program uses, as operators: trees, printing, parsing. |
| `Requests` | `ClientLoop` and cJSON composed: what is sent is printed, parsed, handled and answered. |
| `MCTweetServer`, `MCChildSteps`, `MCRaces`, `MCAcceptor`, `MCConnection`, `MCRequests` | Constants for TLC. |
| `UserTableProofs`, `TweetServerProofs` | Theorems about the server whose handlers are one step each, and that it implements the service. |
| `ChildStepsProofs`, `DeliveryProofs`, `OverlapProofs` | Theorems about the handlers that interleave: with some overlaps excluded, with none, and of one that is alone. |
| `AcceptorProofs`; `ConnectionProofs` | Theorems about the parent; about a connection and its messages. |
| `ClientLoopProofs` | Theorems about the client's parser and loop. |

`TweetServer` takes for granted that requests are well-formed and arrive, and
leaves open what a request says; `Requests` shows which requests there are, and
`Connection` that they arrive. What `TweetServer` assumes of a client (requests
one after the other, hashtags without `ALL`, perhaps none or one twice) is what
`RequestFits`, `SentWasTyped` and `QuietAtPrompt` say; that a username is shorter
than the server's arrays is assumed, as the client does not look at its length.

### TweetServer

A client is a process and its connection. `client` is its state, `child` that of
the process forked for it, as `waitpid` would see it. A child that `spinning`
never leaves `receive_response` again: at the end of a connection `recv` returns
0, the result is not looked at, and the uninitialised buffer is what decides
(`EndOfFile`). The actions are `Connect`, `AcceptConnection` (a turn of the loop
of `main`), one action per request handler, `EndOfFile`, `Vanish` and
`ReapChildren` (the signal handler). Names, hashtags and tweets are model
values and numbers; a tweet's text is the `tweetID` it gets, so that no two are
alike. `joinedAt` is a history variable: when an entry was registered.

A request, its handler and its reply are one action, since a client sends the
next request only after a reply. The parent's turn is one action as well; both
are taken apart in the modules below.

### ChildSteps

The same handlers, where a step reads or writes one shared string or number;
`pc` says which. Two simplifications: the bytes of one string are not
interleaved, and a child reads and fills its own list of subscriptions in one
step (nobody else writes there). The initial table is one that `TweetServer`
reaches: `StartAssumption` repeats of it what `SessionOwnsEntry`,
`UniqueUsernames` and `EntriesSound` say there, for a table without tweets.
`MayOverlap` lists which kinds of requests overlap and `Kinds` which
client sends which: assumptions about the environment that the code does
nothing to enforce, and that the violated runs drop. `sent`, `due` and `before`
are history variables.

The two levels are tied by `AloneIsAtomic`: a handler that nothing overlaps
changes the table as its operator in `UserTable`, and so as `TweetServer` says.

What a race spoils is shown by violated runs. `Races` asks what it does not spoil,
with no assumption about what overlaps. `settled` remembers, for a child that
registers a name, the entries that were in use under one name ever since it
began to look; `SettledIsSafe` says that it gives away neither the name nor the
entry of such a user. `overlapped` has the tweets that were handled while another
was; `AloneIsWhole` says that every other tweet is queued and shown as it was sent,
and that its child does not read hashtags that are not there, although `latestTweet`
may hold anything when it begins. Both variables only watch.

### Acceptor

`childProcCount++` is a load, an addition and a store in the build of the
makefile, which does not optimise; a compiler may also make it one instruction.
`oneInstruction` chooses in the initial state. `sigchld` is the pending signal,
which does not queue. A child exits when it likes or never.

### Connection

Each process has a `pc`, the stream of bytes that are on their way to it, and the
variables of `send_payload` and `receive_response`. A byte either begins a number
that `atoi` reads or belongs to a message; a message is a number of bytes. The
buffers are filled with anything when a function is entered, and `recv` takes any
part of what has arrived: less than it could only `MaxShort` times. When the
other end is closed it takes nothing, and the code goes on with what it has.
`Readings` says what `cJSON_Parse` and the lookup of the code make of a response;
of parts of messages, anything. When the other end is gone, a process that sends is
ended by SIGPIPE (`BrokenPipe`) or, where that is ignored, its `send` fails
(`SendFails`): `send_payload` returns 0, on which the client goes back to its prompt
without a reply. It does not look at the result of its first request, and a child
at none; they wait. What the child answers depends on the table of
users, so any answer is possible. `Die` ends a process at any point; `Closed`
lets the other lose what was on its way when something was unread. `sent`,
`taken` and `shorts` are history variables.

### ClientParser, ClientLoop and Requests

Strings are sequences of bytes, and positions count from 1. A command word is one
letter, and so is the name of a field; the sizes of the arrays are constants.
`parse_client_command` gets the line and what is in memory behind it, because a
command without its argument is read one past the terminator
(`ttweetcli.c:353`). `CopyHashtags` copies as far as the code does: one byte more
than the array has, and the terminator after it. `Overrun` counts those bytes, for
every array, and for commands that are refused as well: it stops counting where the
code gives up.

In `ClientLoop` a user types a line (`TypeLine`); the client reads its chars, parses
and sends (`ReadCommand`), and goes on when it is answered (`Answered`), or ends
(`Leave`). `meant` and `line` are history variables: what the user had in mind, and
typed. How a request travels, and what the server does with it, is left out.

`Requests` puts this in. The client prints what it sends (`SendCommand`); the server
parses it, and goes by the code and the fields that it finds there, or its child
ends without an answer: of a null pointer, a code it does not know, or `exit`
(`Receive`, `IsAnswered`). The answer depends on that code (`Reply`), and what the
client does with it on what it has parsed itself: it goes on, or dies of a null
pointer or of a code that says so (`HandleResponse`, `IsAccepted`). One answer
is an empty object: `ttweetsrv.c:342` is passed without a reply when another child
has taken the last entry between the two loops. `Foreign` gives
cJSON's parser texts that it has not printed. `ImplementsClient` says that all this
changes nothing of the loop: `Requests` implements `ClientLoop`, where a request
counts as sent until its answer is handled; a client whose child ends without
an answer takes no further turn, which `ClientLoop` only allows behind `exit` and the
first request. So nothing that can be typed ends a child or a client through its
JSON, and what is proved of `ClientLoop` holds of `Requests`.

`JsonPrint` keeps the buffer, its length and its offset, with every `ensure` where
the code has it, and `fits` tells whether a write was past the length. `JsonParse`
reads as the code does, whitespace, byte order mark, depth and surrogate pairs
included. Numbers are integers, memory is never short, and nothing is freed.

## The runs

| Run | Instance | Shows |
|---|---|---|
| `sessions` | 3 clients, 2 names, 2 entries, 1 subscription, queue of 2, 2 tweets | names unique, indices never stale, entries sound, limit kept, `TweetService` implemented |
| `timelines` | 2 clients, 1 entry, 2 hashtags, tweets with none and with two, 2 subscriptions, queue of 3, 3 tweets | entries sound, `TweetService` implemented |
| `stale_tail` | 2 clients, 1 entry, queue of 2 | violated: a user finds a tweet that was left by the user before |
| `rejected_is_refused` | the same | violated: a rejected client is told that its username is valid |
| `acceptor` | 4 connections, limit 2 | limit kept, connections taken, counter exact when the increment is |
| `runs_forever` | the same | violated: a lost decrement ends the server |
| `overlaps` | 3 clients, 2 entries, 3 tweets of 2 hashtags, queue of 2, 1 publisher | no tweet doubled or lost; `AloneIsAtomic` |
| `races` | 3 clients, 2 entries, 2 tweets of none and of one hashtag, queue of 1, 2 publishers of whom one reads and leaves, 2 registrations, everything overlaps | indices stay in their arrays; a tweet that is alone comes out whole; a user that stays keeps name and entry |
| `same_name` | 2 clients that register one name | violated: both get it |
| `two_publishers` | 2 clients that tweet | violated: a subscriber is passed over |
| `connection` | buffer of 2, messages of 2 and 3 bytes, 3 requests, 1 short `recv` | messages whole and in order, no mutual wait, replies arrive, `exit` ends the child, a stranded client stays so |
| `requests` | lines of up to 15 chars and beyond, tweets of 3, hashtags of 6, 2 hashtags, nesting of 3 | sent as meant, what is sent was typed, it fits the server's arrays, the client's arrays are left by two bytes at most, cJSON's round trip and buffers; `ClientLoop` implemented |

**Bounds.** *Entries and clients*: two entries and three clients are the least
that allow an exit before an occupied entry, a leaked entry, and a connection
beyond the limit. *Queue*: the last cell is special (`clear_user_at_index`
leaves it), so a queue of 2 has an ordinary cell and the last one, a queue of 3
has order and holes before the last. *Subscriptions*: one cell is full at once;
two allow holes and duplicates. *Tweets*: `MaxTweets` bounds the only counter
that grows, at the length of the queue or one more, so that queues fill up and
overflow. *Acceptor*: four connections let the limit of two be reached, passed,
and reached again after a lost decrement. *Connection*: with a buffer of 2 bytes,
a message of 2 fills one block exactly and one of 3 leaves a part of one; numbers
of 0 and 3 in unwritten memory are a header that is read again and one that is
taken for a size. Three requests are the username, a command and `exit`; a second
short `recv` adds nothing that one does not do, since the properties speak of
none or of any. *Requests*: every string over a few significant chars up to a
length beyond the arrays, so that each is empty, full and too long by one and by
two; overlong lines are cut at every place that matters; the printing buffer
begins with 8 bytes so that it grows several times; the code points are those at
the borders. Numbers have at most nine digits. *Races*: two tweets
at once need a queue of one cell only, since what is asked is whether each is whole;
a race for a name or an entry needs a user that leaves, one that asks for her name,
one that asks for another, and an entry that is free. `sessions` uses symmetry, of clients
and of names, and checks safety only. Deadlock is not checked: all clients may
have gone, and the server then waits.

**Fairness.** `TweetServer` has none: that a connection is accepted in the end is
asked of `Acceptor`, where the parent may also end. `Acceptor`: the parent runs when it can, and a pending signal is delivered. No
child has to exit. `Connection`: each process goes on when it can, as long as it
lives. Nobody has to type a command, nobody has to die, and `recv` need not be
short. `ChildSteps`, `Races` and `Requests` have only safety properties.

**What the exceptions in `ClientLoop` say.** `SentWasTyped` and
`OverrunsAreBounded` hold, and name the places where the client does something
else than its usage message says: a tweet is sent with the hashtags before the
first error; arguments and closing quotes that are missing are taken from old
memory; the rest of an overlong line is a command again; a message of 150
chars or hashtags of 25, which are allowed, put their terminator one byte past the
array; and a command that is refused has written up to one byte past the arrays for
a word and a message, and up to two past the one for hashtags. `SentWasTyped` asks
nothing of a line that goes on behind its 0. That a tweet may be sent with one hashtag
twice is not what `ttweetcli.h:75` says ("an error is thrown"): `main` overwrites the
result of `parse_hashtags` (`ttweetcli.c:138`).

**What the violated runs mean.**
1. `stale_tail`: the loop of `clear_user_at_index` ends at `MAX_TWEET_QUEUE - 1`
   (`ttweetsrv.c:674`). `EntriesSound` and `ImplementsService` say exactly how
   far the damage goes: the last cell, and one place less in the inbox.
2. `rejected_is_refused`: a rejecting child runs the ordinary handler
   (`ttweetsrv.c:252`). When a user has exited and its child is not waited for,
   an entry is free and the child registers its client, says so, and closes.
3. `runs_forever`: `childProcCount++` (`ttweetsrv.c:152`) loses a decrement.
4. `same_name`, `two_publishers`: races of the children on memory without a lock
   (`ttweetsrv.c:331`, `473`).

Two more races follow from the order of two writes, and no run is spent on them. A
tweet that is stored in a cell while a timeline empties those before it
(`ttweetsrv.c:504`, `595`) leaves a hole, and the next timeline, which goes by the
first cell, does not show it. And an entry is free before it is cleared
(`ttweetsrv.c:666`), so a registration in between loses its name. `races` and its
theorems say what neither of them does: spoil a tweet that is alone, or take the name
or the entry of a user that stays.

## What is proved

The theorems hold for every number of clients, entries, subscriptions, cells,
tweets and bytes. They assume of the constants what TLC evaluates on every run:
`UserTableAssumption`, `TweetServerAssumption`, `AcceptorAssumption`,
`ConnectionAssumption`, `ChildStepsAssumption` and `ClientParserAssumption` (arrays
and messages are not empty, `ALL` and the empty string are not ordinary hashtags,
`INVALID_USER_INDEX` is no index, finitely many clients, `COMMAND_LEN` is more than
a command word has); of the table that `ChildSteps` starts from `StartAssumption`;
and of what is typed and what is in memory `ClientLoopAssumption` (lines are chars
other than 0 and newline, memory is bytes, and what the user means to type is
well-formed and not overlong).

| Module | Theorem | Property |
|---|---|---|
| `TweetServerProofs` | `TypeCorrect` | `TypeOK` |
| | `NamesAreUnique` | `UniqueUsernames` |
| | `IndicesAreNeverStale` | `SessionOwnsEntry` |
| | `EntriesAreSound` | `EntriesSound` |
| | `LimitIsKept` | `ConnectionLimit` |
| | `LastCellIsLast` | `OwnTweetsAreLast`, below |
| | `ServerImplementsService` | `ImplementsService` |
| `ChildStepsProofs` | `TypeCorrect` | `TypeOK` |
| `DeliveryProofs` | `TweetsComeOnce` | `DeliveredOnce`, if `RegistersAlone` and `TweetsAlone` |
| | `NoTweetIsLost` | `NothingLost`, if `RegistersAlone` and `TweetsAlone` |
| `OverlapProofs` | `AloneIsAsOne` | `AloneIsAtomic` |
| | `StayingIsSafe` | `SettledIsSafe` |
| | `UndisturbedIsWhole` | `AloneIsWhole` |
| `AcceptorProofs` | `TypeCorrect` | `TypeOK` |
| | `LimitSurvivesSignals` | `ServedLimit` |
| | `UndividedIsExact` | `ExactWhenUndivided` |
| `ConnectionProofs` | `TypeCorrect` | `TypeOK` |
| | `NoWayBack` | `StrandedForGood` |
| | `AlwaysFramed` | `Framed`, below |
| | `TakenIsSent` | `TakenAsSent` |
| | `PromptIsQuiet` | `QuietAtPrompt` |
| | `NobodyWaitsInVain` | `NoMutualWait` |
| `ClientLoopProofs` | `ClientTypeCorrect` | `ClientTypeOK`, a part of `TypeOK` |
| | `RequestsFit` | `RequestFits` |
| | `MeantSent` | `MeantIsSent` |
| | `OverrunsAreSmall` | `OverrunsAreBounded` |
| | `SentTyped` | `SentWasTyped` |

**`UserTableProofs`**: lemmas on what each handler does to a sound entry. The
cell that a loop stops at is the least one; `Subscribed` and `Unsubscribed` keep
list and flag in agreement; `Updated` appends at the end and keeps the order;
`TimelineRead` leaves nothing before the last cell; `Cleared` leaves a clean
entry.

**`TweetServerProofs`**: its theorems share one inductive invariant, `IInv`. None
of them is inductive alone: names stay unique under `Exit` only because the entry
cleared is the exiting child's own; an index stays good only because a
registration takes an entry that is free, hence nobody's; queues stay in order
only because every tweet in them is not newer than `tweetID`; and the limit is
kept only because `childProcCount` is the number of children that run or are not
waited for, so that is a conjunct too (`Counted`).

The refinement is in the same module: every step of `TweetServer` is a step of `TweetService`
or changes nothing of it. What the service knows of a user is a function of the
user's entry, so half of the proof is about one entry and half about the map from
names to entries. The mapping drops a tweet that an earlier user left in the last
cell. It keeps its order only because a tweet of the user's own is in the last
cell only when all cells before it are full (`OwnTweetsAreLast`): an invariant
that the server's own properties do not need.

**`ChildStepsProofs`**: `TypeCorrect` holds whatever requests overlap. Its
invariant `Control` says which request, which variables and which index a child
has at each of its steps. The rest of the module is a lemma for the next one: as
long as no registration overlaps another or an exit (`RegistersAlone`), a child in
session has an entry of its own under a name of its own (`Seats`), and one that
registers has found its name in no entry that it has passed (`Searching`).

**`DeliveryProofs`**: its hypotheses are `RegistersAlone` (the run `same_name`
shows what happens otherwise), and `TweetsAlone`: a tweet overlaps
neither a tweet nor an exit (the run `two_publishers` shows what happens
otherwise). The code enforces neither: the theorems say under which use of the
server tweets come once and are not lost. Everything else may overlap, and the pairs that `overlaps`
allows meet both. The invariant has layers, each inductive with those before it:

- `EntriesInv`: one child tweets at a time, and `latestTweet` has what that child
  has written so far (`LatestSound`); an entry that is not in use has no
  subscription and no tweet before the last cell (`Entries`); each handler has
  done what its position says (`HasDone`, `Visits`);
- `TornInv`: what has been formatted of a tweet is right (`Formatting`, `Holds`),
  what is queued or was shown was sent (`AllGenuine`), cells before the last are
  addressed to the user (`Addressed`), and a session has been shown at most one
  tweet of an earlier user, after which the last cell has none (`Stray`);
- `OnceInv`: the tweets in a queue differ, and from those the user was shown but
  for the one being read (`Distinct`, `Once`); the tweet in hand is new to every
  user its handler has still to visit (`Fresh`);
- `LossInv`: a tweet that is due to a user waits for the user when its handler is
  past the user or done; before, the handler will still give it to the user
  (`Comes`). That is, the user follows everything, or has a hashtag of the tweet
  at or after the place that the two loops over hashtags have come to
  (`StillToCome`). Subscriptions that run meanwhile keep it so because they
  write over no hashtag in the list; timelines because the cell that is emptied
  holds no tweet that is still due. Only what the property allows ends it: the
  user unsubscribes, is shown the tweet, or leaves, or the queue is full.

**`OverlapProofs`**: its three theorems have no hypothesis on what overlaps. For
`AloneIsAsOne` the property itself asks that nothing overlapped the handler, and remembers the table that it found in
`before`. The invariant, `AtomicInv`, says of the table at each step how it
differs from that one: which entries have been searched or updated, which cells
scanned, emptied or found full, and of `latestTweet` what `LatestSound` says
(`ValidateDone`, `TweetDone`, `SubscriptionDone`, `TimelineDone`, `ExitDone`). At
the last step what the loops have found is what the operators of `UserTable`
define by a minimum: the first free entry, the first subscription that matches,
the first empty cell. So `TweetServer`, whose handlers are atomic, has the table
right as long as the children take turns; the properties above and the runs that
fail say what may go wrong when they do not.

`StayingIsSafe`: the invariant `SettledInv` says of a child that registers and of
an entry that stays what the child has seen of it. If its first loop has passed the
entry, the name there is another; and since the entry stays in use, the second
loop, which looks only for one that is free, goes past it. An exit that is half
done, and a registration that has not written its name yet, are no hindrance: those
entries do not stay.

`UndisturbedIsWhole`: the invariant `WholeInv` says of a tweet that nothing has
overlapped that `latestTweet` has what its child has written so far, and that the
item under construction has the parts of that request; and of whatever is
queued, copied or shown that it was sent, or is of a tweet that was overlapped. It
needs that when two children tweet, both are watched (`Together`): the second of
them may begin at any step of the first, and the parts that it spoils are marked
from that step on.

**`AcceptorProofs`**: the invariant behind `LimitSurvivesSignals` says that the
counter, with the child that is forked and not yet counted, is never less than
the number of children not waited for: the counter may err, but upwards.

**`ConnectionProofs`**: `TypeCorrect` rests on lemmas about `recv`: it keeps the
buffer's length, and leaves everything as it is when nothing has arrived. For
`NoWayBack`, `Lost` says where a stranded client can be: it reads the same number
again and again, for the size and for the text, so that the text begins with a
number and is no message. `Lost` is inductive together with `TypeOK` and with
`HeaderFirst`, that nothing is in `response` before the header is read.

The other theorems of the module speak of executions in which no `recv` was
short, as their properties do. The invariant `Framed` says that client and child
take turns: one hears the other out, handles, and sends a header and a text; what
it has received and what is on its way make up the message that was sent; the
other listens or is gone. The three properties follow from where a turn stands. A
client that is back at its prompt because its `send` failed has fewer replies than
requests; `Framed` allows this only when its child is gone, and then nothing is on
its way to the child any more (`GoneIsDeaf`) and nothing will be answered.

**`ClientLoopProofs`** is about one turn of a loop, so most of it is about strings,
of any length. There is induction in it, over the chars of hashtags and over the
hashtags of a request: `Induction` and `BoundedInduction` follow from the
least-number principle, which the library's `WFMin` gives for the order of the
natural numbers, and state for a set what they usually say of a predicate. A fold is
unfolded by its definition.

- *What is sent fits.* `LoopSound` is the invariant of the loop of `parse_hashtags`:
  as long as there was no error, what it has saved and is reading, written out
  again, are the chars it has read; after an error what was saved is the start of
  them. Hence `SoundTags`: the hashtags found are alphanumeric, few and short,
  whatever is in the array, and the array is exactly these when there was no error.
- *What is well-formed is understood.* The other way round: the loop finds in
  hashtags written out those it was written from (`TagRead`, `ParsedBack`), and
  `parse_client_command` the parts of a well-formed line, up to the 0 behind it and
  no further (`TweetLineBack`, `SubscriptionBack`, `SingleWordBack`).
- *What is sent was typed.* A request that is not refused is the line or the start of
  it, unless what was read goes on behind the 0 (`LineTyped`).
- *What is written past an array.* For each of the three arrays the loop's own limit
  and the terminator behind it bound the bytes, wherever the loop gives up; for a
  well-formed line they are computed from its parts (`FullLengths`).

The invariant, `ClientInv`, says that a request was produced by a turn or is the
first one (`Sendable`), that a line which is not read yet is the one that was meant,
and that nothing is meant when a part of a line is left. For `SentWasTyped` it says
as well that what is left of a line starts at one of its parts (`TypedInv`).

**Only model-checked.** The liveness properties, which the prover does not reach.
What `Requests` says of cJSON (`RoundTrip`, `PrintFits`, `StringRoom`,
`TruncatedIsRefused`, `Reprints`, `CodepointKept`, its `TypeOK`), and that it
implements `ClientLoop`: trees of any depth are printed and parsed by recursive
operators, and in a module with those the prover has no arithmetic.

## What is not modelled

`create_tcp_serv_socket` and `accept_tcp_connection` call the operating system and
end the process on an error; `fork` and `mmap` are taken not to fail. The `print_*`
functions are not called. Of cJSON, what the program does not call; running out of
memory; and `cJSON_Delete`: nothing that is freed is used again, but
`reset_client_variables` never frees the client's requests
(`ttweetcli.c:296`). `handle_invalid_request` cannot be reached from `ttweetcli`,
which never sends `REQ_INVALID`. The end of standard input. A response longer than
`MAX_RESP_LEN`, which a timeline full of escapes may be: the arrays of
`Connection` are as long as the message. `wait_for` only takes time. In
`TweetServer` a client sends its username first and then requests one by one.

## Plan

1. *Done*: `UserTable`, `TweetServer`, `TweetService`; `Acceptor`; `ChildSteps`;
   their runs and theorems.
2. *Done*: `Connection`, `ClientParser`, `JsonItem`, `JsonPrint`, `JsonParse`,
   `Requests`; their runs; `ConnectionProofs`.
3. *Done*: `TweetServer` implements `TweetService`; messages are taken as they
   were sent, in turns; for `ChildSteps`, arrays are kept, and with tweets that
   overlap neither tweets nor exits, none is doubled or lost; a handler that
   nothing overlaps does what its operator says.
4. *Done*: `ClientLoop`; what the client sends is what was meant or typed, and fits.
5. *Done*: `Races`, with every overlap, registrations and exits included
   (`ttweetsrv.c:666`): users that stay are safe, and tweets that are alone are whole.
6. *To do*: cJSON's buffers, for texts of any length.
