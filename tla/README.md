# BANO, in TLA+

BANO connects small radio nodes to a base station that serves them over HTTP.
The repository holds the base (`src/src/base`), the firmware of the nodes
(`src/src/node`) and the radio protocol they share (`src/src/common`). Nothing
here is generated: each definition was written from the code named beside it in
`PROJECT.json` ("map").

## The system

| part | state | operations | interacts with | hard because |
|---|---|---|---|---|
| event loop and ios, `bano_base.c` | nodes, their posted and pending ios, key-value table, timers | post an io, write, read and handle a message, expire a timer, answer HTTP | all others | a reply races the timer of its io; ios move between lists by hand; replies name a key, not a request |
| timers, `bano_timer.c` | list of timers with delays relative to the previous one | add, delete, next, update | event loop, `select` | deletion in the middle, rounding, the right neighbour |
| HTTP server thread, `bano_httpd.c` | pipe, `compl_lock`, `compl_cond`, `is_done`, `compl_err` on a stack | `on_event`, `bano_httpd_complete_msg`, `bano_httpd_fini` | event loop (pipe one way, condition variable the other), camera image | the only concurrency inside the base |
| lists, `bano_list.c` | doubly linked items | add tail/head/before, delete, foreach | everything | deletion during `foreach`; `prev` left NULL |
| sockets, `bano_socket*.c` | file descriptor, partial message | read, peek, write, free | event loop, serial radio | `bano_socket_free` frees all nodes |
| opening and configuration, `bano_base.c`, `bano_parser.c`, `bano_nodl.c`, `bano_dict.c` | nodes, node descriptions | `bano_open`, `apply_conf`, `bano_close` | runs before and after the loop | structs refer to what stands before them; any may fail, and the sockets free nodes too; three waits have no end |
| HTML, `bano_html.c` | growing buffer, dictionaries | printf, include | event loop | boundary of the buffer; a call that fails in the middle of a page |
| camera, `bano_cam.c` | buffers shared with the driver, last image | open, capture, get image, close | event loop, HTTP thread | stale frame, restart of a hung stream |
| SMS, `bano_sms.c` | a TLS session and a socket | `bano_sms_send` | event loop, a server | records cut and joined by the socket; five ways out; the completion of a handshake is told in two places, and the server may ask for another |
| cipher, `bano_cipher.c` | key | encrypt, decrypt | event loop | arithmetic; which nodes use it |
| command line, `main.c` | none | chooses what is posted | event loop | - |
| node firmware, `src/src/node/bano_node.c` | interrupt flags, timer, radio mode | `bano_wait_event`, `bano_loop`, interrupt handlers | radio | interrupts at any instruction; sleep |

What makes each correct:

- *event loop*: an io is neither leaked nor freed twice; it is transmitted a
  bounded number of times and given up only after the last; each browser is
  answered exactly once, in the end, with a value that agrees with the table.
- *timers*: expiry in order, not late, and not early (which does not hold, see below).
- *HTTP thread*: no lost wake-up, no write to a dead stack frame, shutdown ends (which
  it does not always, see below).
- *lists*: they behave as sequences for the use the base makes of them.
- *opening and configuration*: the structs are applied once, in the order of the
  text, includes included; whatever fails, all that was set up is released once (but for one failure,
  see below).
- *HTML*: a page is sent whole, with the last values, or not at all.
- *SMS*: a call releases its session once, asks for its SMS once in each handshake,
  and never waits for a server that waits for it.
- *firmware*: no interrupt is slept through; pin changes are served whatever else
  comes; a node that waits for its timer alone is served each time.
- *base and firmware over the radio*: at least one execution per answered SET; an
  answer belongs to the request it answers (`doc/protocol/tex/main.tex:64-68`).

The hazards, each at its line, with the properties that cover it, are in
`PROJECT.json`.

## Modules

    RequestReply      contract between the HTTP thread and the event loop (abstract)
      ^        ^
    BanoBase  BanoHttpd          each implements it, from one side
      ^
    BanoSystem                   BanoBase + the nodes, and a radio that loses and reorders
    TimerQueue        what the event loop asks of the timers (abstract)
      ^
    BanoTimer                    implements it, in ms
    ItemQueue         what the base makes of a linked list (abstract)
      ^
    BanoList                     implements it, with the pointers
    BanoDict  BanoParser         the dictionary (operators only); the configuration's parser
      ^    ^    ^
    BanoPage  BanoOpen           a page; the opening, from the parsed structs, and the closing
    BanoSms           the sending of an SMS, with the TLS session
    BanoNode          the firmware's loop and its interrupts
    BanoCam           the capture of an image from a streaming driver

`BanoX_proofs` holds the theorems about `BanoX`, and in three places those about a
module close to it: `BanoBase_proofs` about `BanoSystem` too, `BanoTimer_proofs`
about `BanoList`, `BanoHttpd_proofs` about `BanoCam`. What concerns `BanoParser` is
in `BanoOpen_proofs`, what concerns `BanoDict` in `BanoPage_proofs`. `SeqLemmas` has
the facts about sequences that they share. `MCBanoX` gives an instance its constants.

`RequestReply` is why the two sides can be checked apart. `BanoBase` sees the
thread as "idle" or "blocked", and may answer a request once it was piped;
`BanoHttpd` sees the loop as one that reads a request and answers it in its own
time. Both refine the same three steps (submit, read, answer). In the same way
`BanoBase` lets a timer expire whenever it is the head, and puts that of an io
last: `TimerQueue` states just this, and `BanoTimer` implements it.

### BanoBase

| variable | code |
|---|---|
| `nodes`, `store` | `base->nodes`, `node->keyval_pairs` (values; `mtime` is left out) |
| `io[i]` | memory of a `bano_io_t`: request (`msg`, `BANO_IO_FLAG_REPLY`), `via` (`compl_fn`: HTTP or the application's), `retry` (`retry_count`); `sent` is history |
| `posted[a]`, `pending[a]` | `node->posted_ios`, `node->pending_ios` |
| `timers` | `base->timers`, as what each timer is for |
| `writing` | the loop is inside `write_msg` |
| `thread`, `pipe` | the server thread, and the message in `msg_pipe` |
| `answer` | what `complete_httpd_msg` was last given |

| action | code |
|---|---|
| `AppPost` | `bano_post_io` from a callback of the application, as `on_node_get`, `on_node_set` of `main.c` do |
| `HttpSubmit` | `on_event` writes to the pipe |
| `HttpPost`, `HttpRefuse`, `HttpReset`, `HttpOther` | the cases of `handle_httpd_msg` |
| `HandleMsg`, `HandleReply` | `handle_bano_msg`, without and with an io that completes |
| `StartWrite`, `WriteAwaited`, `WriteUnawaited` | `select` reports the radio writable; `write_msg`; `post_io` for one io |
| `ExpireRetry`, `ExpireTimeout`, `ExpireLoop` | the branches of the expiry in `bano_start_loop` |

The loop is one thread, and each handler runs to its end before the next, so
each handler is one action. `write_msg` is split, one io at a time, because an
answer given there is a step of the contract; `writing` keeps everything else
of the loop out, and leaves the order of the nodes open. Messages are arbitrary:
any member of `Messages` may arrive at any time, any number of times or never.
This covers loss, duplication, delay, reordering and nodes that answer nonsense.
All the fields that the properties tell apart are kept; the text of the answers,
encryption, checksums and modification times are not.

### BanoHttpd

One action for each access to what the threads share. `server` and `main` are
program counters. `on_event`'s stack frame is alive while `server \in InEvent`.
`pthread_cond_wait` is `Wait` (unlock and sleep in one step), then either
`Signal` or `WakeSpuriously`, then `Lock`. The end of the event loop
(`select` failed) or a configuration refused after the server was started is
`Fini`, possible whenever the main thread runs the loop or still reads the
configuration. `ns_server_poll` is two states: `poll`, until `Select` returns and sends
the byte of `mg_wakeup_server` back, and `serve`, in which `on_event` may run any number
of times, whatever `is_done` says. `ctl` is the byte: sent by `Wakeup`, waited for until
`Echoed`. Without a bound port (`~ listening`) `ns_server_poll` returns at once and sends
nothing back. `SubmitLast` is the last poll of `mg_destroy_server`, on the main thread:
should it find a request, `on_event` waits there for the loop that has ended. `SendImage` and `ImageSent` are the two ends of the reading of
the camera's image, and `main = "capture"` the time it is rewritten.

### BanoTimer

`rel` is `rel_ms`; the clock has `TicksPerMs` ticks in a ms, so that
`bano_timer_update` has something to round. `left` is history: the ticks until
the moment a timer was armed for, as counted inside `select`. The time the loop
spends elsewhere is deducted from no timer; the code does not promise more.

The list is a sequence, although `bano_list_add_before` forgets to set `prev` of
the new item. This is sound for the base, as `BanoList` shows: only the loop timer (1000 ms, `main.c`)
is ever inserted before another, and it is only deleted when it is the head.
`LoopMs <= RetryMs` is an assumption of the module for that reason: with a loop
timer longer than 1700 ms, ios would be inserted in the middle, and deleted there.

### BanoNode

| variable | code |
|---|---|
| `wake` | `bano_wake_mask`, any non-empty set of events |
| `pc`, `ev` | where `bano_wait_event` and `bano_loop` are; the event found |
| `timer_irq`, `pcint_irq` | the flags the interrupt handlers set |
| `counting`, `raised` | the timer, and the interrupts the hardware has raised and not served |
| `listening`, `received` | the radio's mode; whether it holds a message (`nrf_peek_rx_irq`) |
| `fresh` | nothing has had the time to happen since `timer_setup` |

Each look at a flag is an action, and an interrupt may be served between any two
of them, except between `cli` and `sei` (`pc = "recheck"`). The instruction
after `sei` is executed before an interrupt is served, so `sei; sleep_cpu` is the
end of `Recheck`, and an interrupt raised meanwhile ends the sleep. `fresh` keeps
the timer from firing, and a message from being received, in the few
microseconds from `timer_setup` to the end of the first look at the flags:
without it, a timer could fire endlessly within `bano_wait_event`. What a message
says is left out: `Handle` may send or not. Powering the radio down may or may
not lose what it holds.

### BanoSystem

`BanoBase` with its messages no longer arbitrary: `air` is the set of packets on
their way, `held` the value each node's application holds. The base's transmission
(`Transmit`) puts a packet there, `Deliver` is the base's reading of one, `Lose`
drops one, and any packet may be taken next. The node's program is sequential,
so that a message is handled and answered in one step (`NodeSet`, `NodeGet`), and
its application may refuse a SET, not acknowledge it, or change a value by itself
and notify the base (`NodeChange`). A packet carries the io and the transmission
it comes from as history; no action of the model looks at them, with one
exception, which is a parameter: unless `Late`, a timer expires only when no
packet of its io is on its way. While one io waits at a time this asks something of the
radio and the nodes alone (the base waits 1.7 or 2 s, a packet takes milliseconds, a
handler normally too). While several wait it would ask something of the base that it
does not do: a reply to one makes the timer of the next expire early (`NeverEarly`,
below), with its reply still to come. The instance has one io, and the theorems suppose
that one is pending at a time (`OneAwaited`). `seen` is history: the values the key had
since the request was posted.

### BanoList

`head`, `tail`, `next` and `prev` are the pointers; `Freed` is what freed memory
holds. `Walk`, the items from the head on, is the refinement mapping to the queue
of `ItemQueue`. Two uses are mixed in one list, so as to cover every list of the
base: items that are added last and deleted anywhere, the loop timer's item that
is inserted anywhere and deleted as the head, and `bano_list_foreach` with
callbacks that add items (`VisitAdd`), delete theirs (`Visit`), or stop (`Stop`).
The mapping follows `next` only; the missing `prev` of an inserted item would show
where `bano_list_del` uses it, and the loop timer's item has none before it then.

### BanoCam

`pc`, `cap_count` and `bug_count` are `capture_mmap_enabled`. The driver is
external: it fills the buffers in the order they were queued (`Fill`), at any time
or never, and each ioctl may fail. `Timeout` covers the 500 ms of `select` and its
interruption by SIGINT, whose handler does nothing. A frame is "new" if it was
filled after the capture was asked for; `mem` is the age of what each buffer holds,
and `mem[0]` is read whichever buffer was dequeued, since all are mapped at offset
0. A restart may fail at each of its ioctls; what was mapped and queued until then
stays.

### BanoParser and BanoOpen

| variable | code |
|---|---|
| `conf`, `stack` | the file given, and the calls of `parse_buf` under way: a file and how far it is parsed |
| `structs`, `applied` | `parser->structs`, and how many `apply_struct` was called for |
| `phase`, `err` | where `bano_open` and `bano_close` are, and what they return |
| `nodls`, `sockets`, `nodes`, `held` | the base's dictionary of descriptions, its lists, and `is_httpd`, `is_cam`, `is_sms` |
| `closing` | what is still to be released |
| `frees`, `unlisted` | history: calls of `bano_node_free`; sockets that `bano_list_add_tail` did not add |

A file is the sequence of its tokens. A step of the parser is one turn of
`parse_buf`: a struct with all its pairs (`ParseStruct`), the call for an included
file (`ParseInclude`) and its return (`EndBuf`), or a directive that the parser does
not know (`ParseOtherDirective`), where it stays. Any error ends all the calls and
frees the mapped file twice, which the C library may answer with `abort` (and so it may
in a description: `AbortInNodl`). After that, a step applies one struct or releases one
part. The order of a directory is
any, as it is with `readdir`. Each of `ApplySocket`, `ApplyHttpd` and `ApplyDevice`
may fail for reasons of the system; a bad value makes them fail. `SocketUnlisted` is the
one failure that does harm: there is no memory for the list item of a new socket, and
`bano_add_socket` frees it with `bano_socket_free`, which frees all the nodes and leaves
them in `base->nodes`. The phase is `hung` where the program stays for good: in
`load_nodl_file`, at a directive that is not `.include` (`HangInNodl`), or in
`bano_httpd_fini` (`HangInFini`; `BanoHttpd` says when).
`Expanded`, the text with its includes in place, is the reference that the parsed
structs are compared with.

### BanoDict and BanoPage

`BanoDict` is the dictionary as the code has it: lists by hash, appended to, searched
from the head. `BanoPage` has two of them per node, the keys of the description and
the values that messages set. `html` is the `bano_html_t`; a cell of its `data` is
the piece of text it belongs to, the terminating NUL, or what `realloc` left there.
`Printed`, `Included` and `Resized` are the functions of `bano_html.c` with their
arithmetic. `PagePieces` is the order in which `gen_base_html` appends. A piece has
any length of `Length`; `AppendFails` is any reason for which a call sets `is_err`.

### BanoSms

| variable | code |
|---|---|
| `pc` | the label of `httpsClientConnection` that is next |
| `ssl` | the session of matrixssl: handshake, flags, input and output buffers |
| `up`, `down` | the socket: halves of records to the server, records to the client |
| `server`, `extra` | what the server waits for; what it has sent out of turn |
| `freed`, `hellos`, `asked`, `result` | history: releases, HelloRequests processed, requests written, what was returned |

`Write`, `Written`, `Read` and `Process*` are the branches of the loop, each with what
`matrixSslSentData`, `matrixSslReceivedData` or `matrixSslProcessedData` does to the
session. `send` may take any part of the output, `recv` gives any part of what has
arrived; a record of which the beginning has arrived matters in two places, behind a
Finished and behind a HelloRequest. The server speaks in its turn (`ServerTurn`), sends a
warning, an alert, data, a HelloRequest or nonsense when it likes (`ServerExtra`), or
closes (`ServerGone`). The session is one with a single credit for a handshake that the
server asks for (`rehandshakeCount`, which the library gives back after 20 MB only): a
first HelloRequest is answered by a hello, after which the server goes through all of the
handshake or resumes the session (`ServerHelloTurn`), the next ones by a warning. Each
resets `bFlags`, so that the completion is told once more.

## Runs

| run | instance | shows |
|---|---|---|
| `base` | 3 ios, 2 nodes (one configured with one of two keys, one to be discovered), 2 values, 1 retry, the loop timer | safety of the event loop |
| `base_live` | 2 ios, 1 node, 2 retries, fairness | ios are retired, browsers answered |
| `timer` | 3 ios of 5 ms and a loop timer of 3 ms, 2 ticks per ms | order, not late |
| `timer_early` | 2 ios of 3 ms | the early expiry (below), a violation |
| `httpd` | one server thread, one main thread, requests without end, a port that is bound or not | the handshake, and how a shutdown ends |
| `node` | one node, every wake mask, fairness | no event slept through; pins and a lone timer served |
| `system` | 1 io, 1 node, 1 key, 2 values, 1 retry, 3 packets, none late | an answer is a value the node had since it was asked |
| `cam` | drivers that give one or two buffers, fairness of the program only | captures end, and with one buffer give a new image |
| `list` | 4 items, one of them the loop timer's | the pointers behave as a queue |
| `open` | the repository's configuration, each selection of up to four of five parts in each order, files wrong in one place | structs applied as written; all released after a failure at any of them |
| `page` | 2 nodes, 3 keys of which two share a list, blocks of 4 cells, pieces of 1 and 4 | a page whole and current, or none |
| `sms` | calls without end, up to three records out of turn in each | session released, SMS asked for once in each handshake, no mutual wait |

Why these bounds are enough to meet the interesting cases. Two ios with the same
key and node can be confused by a reply; the third can be in the other list, or
belong to the browser. Two nodes are one to write to and one whose list must not
be touched, and the second may be unknown when the message comes. One retry
gives all the states of an io: never sent, sent, posted again, sent for the last
time; `base_live` has two so that a retry count can be decremented twice. Ios are
interchangeable memory, hence the symmetry of `base` (its properties are
invariants and action properties). Values 0 and 1 are what was asked for and
what was not. Timers need three ios to have one in the middle of a list with
neighbours on both sides, and 2 ticks to lose half a ms in each `select`.
`BanoHttpd` and `BanoNode` have no bound: their state spaces are finite.
`system` has one io, for two with the same key are confused even in time (the
base completes the first that a reply fits), and two of one node shorten each other's
timers; three packets (`MaxAir`) are a
request, a reply and a notification at once. `list` needs three items beside the
loop timer's: one on each side of it, and one to delete next to those. `cam` has
the two buffers of `BANO_CAM_FB_COUNT`. `open` has the parts of a configuration that
depend on each other (socket before node, descriptions before node, server after
socket) in every order, each part missing in some; included files are nested twice.
In `page`, a piece of four cells fills a block of four to the byte, and one of
one cell moves the start of the next to each place in it; two keys in one list are
those that a search may confuse. In `sms`, `MaxExtra` is three: two HelloRequests, of which the first is
accepted and the second refused, and a record that comes with what the client waits for.
In `open`, a socket that cannot be listed meets nodes in the list where a socket or a
server follows a node.

Deadlock is checked in all runs but `httpd` and `open`, where the program really
stops: after `bano_httpd_fini` or in it, and after `bano_close`.

### Fairness

`base_live`: the loop runs (weak fairness of `StartWrite` and `Write`), the radio
becomes writable, and neither the pipe nor the head timer is passed over forever
(strong fairness, because `writing` disables both while it lasts). The code
justifies it: an iteration that expires a timer skips ready descriptors only
once, for the timer is gone after it; one that handles descriptors has deducted
its sleep from the head timer, and a zero remainder makes the next expire. An
iteration that hardly sleeps deducts too: Linux leaves in `select`'s timeout less
than it was given, and `bano_timer_update` rounds that down to ms. Nothing is
assumed of nodes, messages, applications or browsers.

`httpd`: both threads are scheduled, `compl_lock` is not withheld from one of
them forever, `select` ends (at the latest after the 1000 s it is given),
`mg_poll_server` returns once it has served what it found, and the loop answers what it holds, which
is `BrowserAnswered`. Browsers need not ask. Spurious wake-ups have no fairness.

`node`: a timer that counts reaches its limit; the processor serves the two
interrupts and executes an instruction of the program now and then (strong
fairness), which AVR does by executing one after each return from an interrupt.
No message and no pin change need come, and they may come without end.

`cam`: `bano_cam_capture` runs, and its `select` returns, having a time limit. The
driver may hang for good.

`open`: the one thread of the opening goes on. The end of the loop (`Close`) is a
signal and need not come.

`sms`: the client goes on when it can; the socket delivers or not, and nothing is
assumed of the server.

### What the violation shows

`NeverEarly`, in `timer_early`. `bano_timer_del` does not give the deleted timer's
delay to the next one (the code is there, under `#if 0`). After a reply, the ios
sent later are retransmitted and given up early: in the run, two ios are armed for 3 ms,
the first is answered at once, and the second is due after 0 of its 3 ms. It only ever
makes timers early:
`NeverLate` and `TimerQueue` hold all the same, and so do the properties of
`BanoBase`, in which a timer may expire at any time.

### Limits of what holds

What the properties do not promise, because the code does not:

- A read or a write of the radio socket that fails frees all nodes and ios
  (`bano_socket_free`) while `write_msg` iterates over them, or leaves them in the
  list. What the program does from there on is undefined, and not in the models.
- Each `bano_wait_event` starts with `timer_setup`, which clears `timer_irq`: a
  timer that fired while the handler of another event ran is forgotten and starts
  anew, possibly forever. `TimerPeriodic` is what is left of the promise: a node
  that waits for its timer only.
- Replies name a key and no request. With `Late`, the second reply to a GET that was
  sent twice completes the next GET of that key, with a value the node has changed
  meanwhile. `AnswerCurrent` holds while each reply belongs to the io that waits
  (`RepliesOwned`), which is when replies are faster than the timers and one io waits at
  a time: with several of a node, a reply to one makes another's timer expire early, and
  the reply to that one is late however fast the node was. `PageShowsAnswer` holds of
  late replies too, but says only that an answer agrees with the table and the request.
- With two buffers the image of the camera may be an old one: both may have been
  filled before the capture was asked for, and the second one is mapped over the
  first. Once a restart of the stream has failed, no later capture succeeds.
- `CloseEnds` says where a shutdown can hang. The server thread's `on_event` waits for an
  answer that the ended loop will not give; or the thread saw `is_done` and ended before
  it sent back the byte of `mg_wakeup_server` (always so, when the port was not bound and
  it never looks for the byte); or the last poll of `mg_destroy_server` found a request,
  and `on_event` waits on the main thread.
- An SMS is sent from the handler of a message, and the event loop waits with it:
  for ever, if the server neither sends nor closes, or never stops sending warnings or
  HelloRequests, each of which costs the call a bounded number of steps (`Returns`,
  `CallBoundedAlways`). A HelloRequest makes the call ask for the SMS again, once the new
  handshake is complete or refused (`RequestOnce` counts them). Any data, a closure
  and a refused handshake all count as success. A warning that comes in the same
  read as the server's Finished hides the completion of the handshake, and the two
  then wait for each other (the exception of `NeverBothWait`). The beginning of
  another record hides it too, but the record's end then comes, or nothing does.
- An error in a configuration frees the mapped file twice; files that include each
  other overflow the stack (excluded by `ParserAssumption`); a directive other than
  `.include`, in the configuration or in a description, is looked at forever, and
  `bano_httpd_fini` may wait forever (the exceptions of `Settles`).
- A socket that cannot be listed for want of memory, after nodes were added: each of them
  is freed twice (the exception of `Released`). What the program does with memory that
  was freed twice is undefined; the model goes on, or ends the program there
  (`AbortInNodes`).
- An id that two descriptions have and of which the second is refused: the first is
  taken out, the refused one stays (the exception of `NodlWhole`).
- A second `http_server`, `cam` or `sms` struct is set up over the first, which is then
  never released (excluded by `OpenAssumption`).

## Proofs

Each theorem holds for every value of the constants that the named assumptions
allow, and each safety property rests on an inductive invariant, `IInv`, that TLC
had confirmed on the instance first.

Of the liveness properties, three have a part that needs no fairness, and it is
proved: a measure that each step of the code decreases, that no step of anything else
increases (or by how much), and that starts from a bound. It says that the code does
not go round for ever; that it is scheduled, and what it waits for comes, is left to
fairness and to TLC.

*`BanoBase`* (from `ConstantsOK`: configured nodes are addresses, requests and
messages are well formed, the values that stand for "nothing" and for the loop
timer are not taken for others), for every set of nodes, keys, ios and messages and
every retry count: `Spec => []IInv`, with `IInv` the conjunction of `TypeOK`,
`OwnedOnce`, `TimerPerPendingIo`, `SendBudget` and `OneAnswerOwed`, and each of the
five; `ExpiresInOrder`; the action properties `GivesUpLast` and `PageShowsAnswer`; and that
`BanoBase` implements `RequestReply`. None of the five is inductive alone. The
expiry of a timer must find its io in the pending list (`TimerPerPendingIo`), once
and in no other list (`OwnedOnce`); `TypeOK` (`retry \in Nat`) needs that the io
which expires is live; the answer to a browser needs that the io which completes is
the only one that owes it (`OneAnswerOwed`), and that another node's list does not
hold it. There is one lemma per action. What the actions share is stated once: what
it means for an io to be moved between lists (`MoveLists`), freed (`FreeLists`), or
posted (`PostIInv`).
`ExpiresInOrder` is inductive beside `IInv` once it is said without positions
(`InOrder`): no two ios are the one way round in a pending list and the other among
the timers. Deletions from either list keep the order, a new pending io comes last in
both, and in neither before, and the loop timer is not an io.
`IoBounded` is the bounded part of `IoRetired` and `BrowserAnswered`: a new io has
`2 * (RetryCount + 1)` steps left, each write and each expiry takes one from a live io
or frees it, and no step, of the radio or the browser included, gives one back. It
follows from `SendBudget`: what `retry` and `sent` say of an io in either list is at least one step.

*`BanoSystem`*: it implements `BanoBase` (`SysImplementsBase`, when `Messages` is every
message: leaving the radio arbitrary left nothing out). `RepliesOwned` and
`AnswerCurrent` rest on `AirInv`: each request or reply in the air belongs to an io
that is pending and was transmitted no other time since, and an io has one packet
in the air at a time. They are proved under what makes them true, since replies name
a key and no request (`doc/protocol` has no number for one): no reply is late
(`Late = FALSE`), every request is acknowledged (`AllAwaited`: an io that waits for
nothing is freed while its packet is in the air), and one io waits at a time
(`[]OneAwaited`: no two ios have a timer). Without any of the three, `cmp_pending_io`
may complete an io by the answer to another. `OneAwaited` does two things: no two ios ask
for one key, and no timer is shortened by the deletion of another, without which
`Late = FALSE` would say of the base what the base does not do. `OneUserAnswerCurrent`
has no temporal hypothesis: with the browser alone, or with a single io, `OneAwaited` is
an invariant. The instance of the run `system` is one of these.

*`BanoTimer`* (from `TimerConstantsOK`: `LoopMs <= RetryMs`; any number of timers, any
delays and any resolution of the clock): `NeverLate`, and the implementation of
`TimerQueue`. `IInv` is `TypeOK /\ NeverLate`; that the sums of delays never exceed
the time left is preserved by an insertion because it takes from the right
neighbour what the new item adds, by a deletion because the sums only shrink, and by
`bano_timer_update` because it rounds what remains down (`InsertSums`, `SumMonotone` and
`RoundedDown` say what these do to the sums). As no sum exceeds
`RetryMs`, an io's timer goes last; as the head's delay is the least sum, `select`
never sleeps past a timer. `TimerQueue` follows.

*`BanoList`* (lists of any length): `ForeachVisitsAll`, and the implementation of
`ItemQueue`. The invariant is that the pointers hold some sequence `q`
(`Holds(q)`): each `next` is the item after, each `prev` the one before, save that of
the loop timer's item, and what is not in `q` is freed; and that the item
`bano_list_foreach` has read ahead is the one after that which it visits
(`IterOK(q)`). Each operation takes `q` to `q` with one item more or less (`Moves`).

*`BanoHttpd`*: `FrameAlive`, `NoLostWakeup`, `ImageUntouched`, and the refinement of
`RequestReply`. `FrameAlive` needs that the request is in one place at a time
(`OnePlace`: a request held after it was answered would be answered on another
frame) and that `compl_lock` keeps the threads apart between the test of `compl_err`
and the wait (`Apart`). `NeverBothStuck` is the safety side of `Answered` and `CloseEnds`: the
exceptions in `CloseEnds` are the only states with nothing left to go on. An ended loop
that owes an answer is the only case in which both threads wait; once the server thread
has ended, the main thread waits only for a byte that was not sent back, or for the answer
to a request of the last poll; and the server is destroyed once its thread is gone. It
takes besides that the lock is held only where its holder gives it back (`LockHeld`), that
the byte is under way exactly while `bano_httpd_fini` waits for it (`ByteSent`), that
`is_done` stays set until the thread has seen it (`DoneSeen`), and that who waits is owed
an answer (`Owed`).

*`BanoNode`*: `NoneSleptThrough`. What carries it is `TimerLeft`: from
`timer_setup` to the sleep, a timer that is waited for counts, or has set its flag.

*`BanoCam`* (from `FbCountOK`, for any number of buffers): `FramesMapped`, from
`QueuesApart` (a buffer is in one queue, once, and mapped), and `ImageCurrent`, with
`SecondIsNew`: a single buffer that was dequeued and queued again is filled during
the capture before it is dequeued for the second time. `CaptureBounded` is the bounded part
of `CaptureEnds`: a capture takes ten steps at the most, for each of two frames three
restarts of the stream and two steps, and the driver, which fills buffers meanwhile, cannot
make it longer.

*`BanoSms`* (any `MaxExtra`, any cut of the records): `SessionReleased`, `RequestOnce`
and, as long as the server sends no HelloRequest, `NeverBothWait` (which TLC checks with
HelloRequests too). `AskedWhenComplete` says that the request is written because a
handshake was told complete, which needs one more HelloRequest for each time but the
first; `TurnsKept` says whose turn it
is, as a relation between the client's handshake, the server's, what is on its way
in both directions, and what is in the buffers. `CallBounded` is the bounded part of
`Returns`: `Effort` weighs the records that are on their way or still to come in the
handshake, what is to be written, and how far `bano_sms_send` has come. It is 33 at
the call; each step of the client decreases it, no turn of the server's increases it, a
record that the server sends out of turn adds 4, and a HelloRequest that is accepted 23
more, for the handshake and the request that follow it. The request, which is written in
the middle of it all, is counted from the start of each handshake.

*`BanoPage`* (from `PageAssumption`: any block, any lengths, nodes and descriptions of
any number): `PageWhole` and `PageShowsLast`. For the first, the
invariant says that the buffer holds, up to `off`, the text that is due, and that its
size is that of its data. The lemmas follow the functions: `ResizedHolds`,
`FormattedHolds`, `PrintedHolds`, `IncludedHolds`; rounding up to blocks (`Rounded`)
is what leaves room for the NUL. For the second, each dictionary gives the value
that was last set (`ValsShown`), and what was appended and what is left to append make up
the page (`Pending`). The lemmas say what `DictGet` finds after a `DictSet` or a `DictAdd`,
in a list by hash that other keys share (`DictIsMap`, for any hash), and which pieces the
nodes' descriptions make.

*`BanoOpen`* (any files and descriptions): `Released`. `NodesKept`,
`NodesFreed` and `Unwound` say, for each place in the order of the release, what is
left: the list of nodes is empty when the sockets, which free nodes too, are freed. A
node in the list was freed as often as there were sockets that could not be listed
(`unlisted`, one at the most, for it ends the opening), and once more when the list is
released.

*`BanoParser`* (from `ParserAssumption`: files are finite and include each other in no
cycle): `TextKept`. That `Expanded`, a recursive definition, has a value for every
file is itself a lemma (`ExpandedIs`): as no set of files is closed under
inclusion, the files that have one are all of them. `TextInv` says that the frames of
`parse_buf` stand one at the directive that the next one parses (`Standing`), and that the
structs kept say what the frames have passed (`Said`): of each file, the text of its
first tokens with their includes in place (`Pre`). A struct adds its tokens to both
(`StructSaid`, `StructKept`), a directive nothing, and the end of a file adds to the
frame below what the whole of it stands for (`EndSaid`). The theorem supposes
`PlainText`, which the instance of `open` satisfies: no file is called `.include`, and no
pair has `.include` before the name of a file, where the reference would expand what the
parser, which takes any three words for a pair, rightly or not keeps.

*`NodesOnRadio`*, from the same. `Ordered` relates the structs to their text: an HTTP
server that comes before any socket among the structs does so in the text.
`SocketsInv` says that the first socket of the list is the radio unless there is such a
server, and `NodesInv` that a node has the first socket and that there is one. It takes
`PlainBraces` besides, that an accolade stands nowhere but where a struct is opened, or
the text could seem to have a struct that is a value (`key = socket { ...`).

*`NodlWhole`* (from `OpenAssumption`: the files of a directory are finitely many and each
is named after its id; and `PlainText`). Three levels of loading, a file, the files of a
directory in the order of readdir and the directories of a struct, say the same of an
id: a step that does not describe it takes descriptions away at most, and one that does,
when there was none, leaves whole ones only (`LoadNodlVals`, `LoadNodlDirVals`,
`LoadNodlDirsVals`; `OnceTouched` is the induction). So `NodlsInv`: under an id
that the structs applied so far do not describe, the dictionary has nothing, and, if
they describe it once, nothing that was refused in part. `PlacesInv` gives each pair of
the structs a place of its own in their text, so that two pairs that describe an id
are two places of the configuration, as the exception counts them (`TwoUses`).

`SeqLemmas` has what `Append`, `Tail`, `RemoveAt`, `InsertAt` and the two parts of a
split do to the elements, the injectivity and the order of a sequence, and what
`FlattenSeq` makes of it. What is defined by recursion is reached by induction over
sets of numbers (`SetInduction`: a set that has 0 and the successor of each of its
members is `Nat`), which is a fact with no operator for a parameter.

Model-checked and not proved: liveness and all that rests on fairness or `ENABLED`,
which the proof system does not cover (`IoRetired`, `BrowserAnswered`, `Answered`, `CloseEnds`,
`PinServed`, `TimerPeriodic`, `CaptureEnds`, `Returns`, `Settles`), save for the measures and
`NeverBothStuck` above. `Settles` has no measure here: that of the parser is the length of a
file with all it includes, a recursion over the files. The safety invariants, the action
properties and the refinements that the runs check are all theorems, `NeverBothWait` save
for what follows a HelloRequest.

## Not modelled

The components of `PROJECT.json` say part by part what is left out. The largest:

- *Third-party code*: mongoose, lodepng and matrixssl are vendored, and are nine
  tenths of the C code of the repository (about 8000 lines are BANO's own). They are
  modelled where BANO depends on their protocol: `mg_poll_server` in `BanoHttpd`, the
  buffers and flags of a TLS session in `BanoSms`. Image coding, big numbers,
  certificates and ciphers are arithmetic without control of interest.
- *Cipher* (`bano_cipher.c`): XTEA and AES are arithmetic on blocks of 128 bits, which
  a model checker cannot enumerate and of which a smaller width says nothing. With
  it, which nodes are answered in clear is left out.
- *Command line* (`main.c`): what it chooses is in the constants (`AppRequests`,
  `HasLoopTimer`, `NewNodes`, `LoopMs`).
- *Sockets* (`bano_socket_*.c`): libsnrf, which puts messages together from the serial
  link, is not in the repository. The base's use of sockets is in `BanoOpen` and
  `BanoSystem`.
- *Failures after which the code is undefined*: reads and writes of the radio that
  fail, `bano_timer_add` that fails for want of memory.
- *Cameras that cannot stream* and the dummy camera: a read of one image.
- Unit programs, utilities and documents are not part of the running system.
