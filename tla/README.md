# FooServer, in TLA+

FooServer is a small C++ server kit: a `TCPServer` accepts connections on a
`select()` loop of its own thread, a factory makes a `RESTServerConnection` or a
`TelnetServerConnection` for each of them, requests go to handlers registered
with a `ServerCmdQueue`, and a terminal talks to a line editor. This directory
models it. Source paths below are relative to `src/src/`.

## The system

| part | state | operations | what makes it correct |
|---|---|---|---|
| `TCPServer` (`TCPServer.cpp`) | `_running`, `_master_fds`, `_read_fds`, `max_fd`, `_connections`, `_activeConnectionIDs`, `_entryCnt`, `_lastConnectTime` | `begin`, `stop`, `run`, `check_new_connection`, `close_socket`, `isConnectionActive`, `hasActiveConnections` | polled descriptors are open and owned, a listed connection is found by its own socket, ids mirror the list, nothing leaks at the end, `stop` returns, clients are served |
| `RESTServerConnection` | the request being parsed | `didRecvData`, the completion of a request | a reply goes to the client that asked, or nowhere |
| `REST_URL` | header, url and body so far | callbacks of `http_parser` | the request does not depend on how it was cut into chunks |
| `ServerCmdQueue` | nouns and their handlers | `registerNoun`, `queueRESTCommand` | each request is completed once |
| `TelnetServerConnection` | `_closing`, the telnet tracker | event handler, `closeConnection`, `didOpen`, `willClose` | no event uses a connection that closed itself |
| `libtelnet` | option queue, parser state, subnegotiation buffer | `telnet_recv`, `telnet_negotiate` | both ends agree, negotiation ends, chunking is invisible |
| `CmdLineBuffer` | the line, the cursor, the history, an escape state, a wait for a key | one handler per key | what the user sees is what Return runs |
| `CmdLineMgr`, `CmdLineRegistry`, `CmdLineHelp` | registered commands, help topics | run, match and explain a command | completion keeps every choice |
| `TCPServerMgr` | the set of servers | `registerServer`, `removeServer`, `getConnectionList` | it names live servers and connections only |
| `LogMgr` | an output stream, a mutex | `logMessage`, `setLogFilePath` | no line is lost or torn |
| `RESTutils`, `TimeStamp`, `Utils` | none | pure functions | what was escaped comes back |
| `http_parser` (third-party) | state, flags, length, an error | `http_parser_execute` | a request ends where the client ended it, after an error nothing is read |
| `yuarel` (third-party) | none: it cuts the string it is given | `yuarel_parse`, `yuarel_split_path`, `yuarel_parse_query` | no part is lost |
| `hash-library` (third-party) | a partial block, a sum | `add`, `getHash`, `hmac` | a digest does not depend on how the message was given |
| `json.hpp`, `date.h` (third-party) | - | - | - |

How they meet: the controlling thread calls `begin` and `stop`; the server thread
calls into connections (`didOpen`, `didRecvData`, `willClose`); a connection calls
back into its server (`close_socket`); a REST handler may keep its completion
and call it from another thread, where it reads the server's id set and uses the
connection without a lock; the `finger` command of one server reads the list of
another; all descriptors come from the one table of the process.

Hard behaviour: two orders of tearing a connection down, each in several
steps, while descriptor numbers are reused at once; an 8-bit id standing for a
connection; completions that outlive their connection; a loop that must end when
told to; and, in the line editor, four pieces of state (buffer, history index,
screen, escape state) that different handlers change. `PROJECT.json` lists the
hazards with their lines.

## Modules

`TCPServer` - one server, its controlling thread, workers that complete
requests, clients, and the rest of the process as an owner of descriptors.
A *session* is one TCP connection, numbered by its arrival, and its number also
names the connection object made for it, so `_connections` is a set whose order
is that of the numbers. `pc` is the place of the server thread:

| `pc` | code |
|---|---|
| `bind` | `run` to the loop, `:175-203` (`Listen`) |
| `head` | `while(_running)`, `select` (`Select`, `LeaveLoop`) |
| `scan` | the loop over descriptors, `:222-265`: `scan` is `i`, descriptors that are not in the read set are passed over (`Accept`, `AcceptFails`, `RecvBytes`, `RecvRequest`, `RecvBye`, `RecvNothing`, `ScanEnd`) |
| `unlist`, `delete`, `close` | the `recv() <= 0` path: the id erased (`RecvNothing`), then unlisted, deleted, closed |
| `hangup_unlist`, `hangup`, `hangup_delete` | `close_socket`: the id erased (`RecvBye`), then unlisted, closed, deleted |
| `shutdown` | the final loop (`ShutdownClose`, `ShutdownEnd`) |
| `ended` / `off` | the thread returned / was joined |
| `exited` | `exit()` after a failed `select` |

`fdOwner` is the process's descriptor table: a descriptor belongs to nobody, to
the listener, to a session or to another part of the process, and a new one is
always the lowest free number, as POSIX requires. `job` follows the request of a
connection: a handler that completes before it returns is one step
(`RecvRequest` with `deferred = FALSE`), one that completes later is `Check` (the
id test) and `SendReply` (the use of the object), with the server thread free to
run between them. A connection has at most one request under way. What another
thread can see is a step of its own: between the erasure of an id and the removal from
the list a worker's check finds the connection gone while it is still listed, and the
object of a connection is used until it is deleted. Only the making of a connection
(object, id, list, set of ids) is one step, since no other thread knows the object or its
id before `didOpen`.

`SessionService` - what the server promises, without descriptors or a loop:
first come, first served; a session that is served ends because its client left,
because the service hung up on it, or because the service closes down.
`TCPServer!KeepsPromise` is the refinement.

`TCPServerProofs` - theorems about `TCPServer`: descriptors, ids, and the refinement.
`MCTCPServer` - a VIEW for its instance with terminals.

`CmdLineBuffer` - the line editor, one action per key, beside the row of the
terminal it draws on. Each reply is modelled by its effect on cells and cursor
(insert, delete character, erase to end, cursor column), so that "what is on the
screen" is a variable of its own. `upset` is a ghost: it is TRUE after one of the
three keys that are known to part the screen from the buffer (see the findings)
until the next line is drawn. `MCCmdLineBuffer` holds its instances,
`CmdLineBufferProofs` theorems about it.

`TelnetNegotiation` - the option queue of libtelnet at both ends of a terminal
connection. A *link* `<<option, end>>` asks whether that end performs the option.
The end itself keeps it in the `us` half of its state and speaks WILL and WONT,
the other in the `him` half with DO and DONT; the two halves of the code are the
same up to these names, so commands are "on" and "off" and one table serves both
(`HeardOn`, `HeardOff`: `_negotiate`; `AskedOn`, `AskedOff`: `telnet_negotiate`).
The server asks once, in `DidOpen`; its peer is a client that runs the same
library with any table (`accepts`) and asks what it likes. `wish` is a ghost: the
client's last request, until its own table takes the server's side. The model
shows two things worth knowing: what `didOpen` asks for (ECHO, LINEMODE) is not in
`RP_telopts`, so the server refuses it to a client that turned it off and wants it
again; and `telnet_negotiate(WILL, TELNET_FLAG_NVT_EOL)` passes a flag
where an option is due, which asks for option 2.

`TelnetNegotiationProofs` - theorems about it.

`TelnetParser` - the receiver of libtelnet, `_process`, octet by octet, with the
chunk that `recv` returned, `start` (where the pending data begins) and the
subnegotiation buffer. One action `Process(b)` is one turn of its loop,
`ProcessEnd` the end of the chunk, which may come after any octet.
`TelnetOctets` is what a receiver owes: a meaning for each octet that depends on a
mode only, and data handed over before the chunk is gone. It knows nothing of
chunks, `start` or sizes; `TelnetParser!KeepsStream` is the refinement.

`RESTRequest` - one REST connection: the octets of pipelined requests go through
`http_parser` in chunks, `REST_URL` collects what the callbacks hand over, and a
complete request is authenticated and given to the handler of its noun. The parser
is modelled with its states, its marks (where an item starts in the chunk) and
flags; one action per state, each with its error exits, those of an url included
(`parse_url_char`, `UrlAfter`). An octet is a symbol; a capital is a whole word:
`"M"` a method, `"V"` the version, `"L"`, `"T"`, `"K"` the names Content-Length,
Transfer-Encoding and Connection, `"C"` and `"X"` the values chunked and close, `"NL"` an
end of line. `"NUL"` is an octet like others: `on_body` keeps strings, so that of a piece of
a body only what stands before its first NUL stays (`OnBody`, `CString`). `ChunkEnd` may come
after any octet and hands over the piece an item has so far. `torn` is a ghost: a chunk ended
in the url or in a header of the request. `ValidateRequestCredentials` reads the
three headers of a signature as they were collected, torn or not: the key must have a
secret, the date must be within `Window` of `time()`, and the header Authorization must be
the HMAC (`SignedAs`) of path, body, date and key.

`HttpText` - what the text of one request means, read in one go: its url, headers and
body, where it ends, and whether it is refused. It knows the states that follow from
the text (`at`), but no chunks, marks or callbacks, and no request before it.
`Reading(text)` gives the point after each octet. A request of `RESTRequest` has
the fields its text means (`Meant`, `TextAssumption`), so that properties that speak of what the
client sent speak of its octets.

`HistoryFile` - the history file that all terminals of a server share: read when a
terminal connects, truncated and written again after every command that is
recorded. A save is one step per line; it may be refused, be cut short by a full
disk, or by the end of the process, and the last line that reaches the file may be a part
of one, or lack its end: the next terminal takes it for a line. `MCHistoryFile` has its commands.

`TelnetCodec`, `Yuarel`, `HelpFile`, `RESTutils`, `SHA256` - pure algorithms, as
operators on sequences: the payloads libtelnet unpacks in place and the texts it
sends (at the end of a payload of MSSP `_mssp_telnet` reads a sign that is not there, any
of `Behind`); the cutting of URLs, paths and queries; the help file; escapes in a
query; how a message is gathered, padded and signed. What works in place in the
code works on one buffer in the model, with read and write positions. A loop is a
recursive function of its turns.
`Codecs` states what each of them means without positions or buffers (the words
between separators, the message padded as a whole); a behaviour of it picks a codec and
makes its input longer, symbol by symbol. `MCCodecs` is its instance: all inputs up to
a bound.

`TelnetParserProofs`, `RESTRequestProofs`, `HistoryFileProofs` - theorems about
the three state machines. `CodecProofs`, `TelnetCodecProofs` - theorems about the codecs,
the second about those that unpack in place. `MCRESTRequest` - what clients send in its instance.

Operators called a "variant with a fault" belong to no behaviour. Each is a
plausible bug in the definition after it and shows that the named
property would notice it (`mutants` in `PROJECT.json`).

## Runs

| run | instance | shows |
|---|---|---|
| `server_rest` | 3 sessions, 3 descriptors (listener and two clients), ids modulo 2, REST | the id set is that of the connections not being dropped; a completion's check is right when made and wrong later only once its connection is being dropped; a prompt reply is always sent; `SessionService` is implemented |
| `server_telnet` | `begin`/`stop` twice, 3 sessions, 3 descriptors, one taken by others, terminals that hang up | the process never exits in `select`, a listed connection is polled on its own socket, only clients that are gone are reaped, no descriptor leaks, none of another part is closed |
| `server_live` | 2 sessions, enough descriptors, fair server thread | `stop` returns, a leaving client is noticed, a waiting one is served, a server all have left becomes idle |
| `line_edit` | lines up to 3, history up to 2, 2 letters and the blank, 3 commands | cursor, screen, buffer and history agree after every key |
| `telnet_agree` | ECHO and NAWS in both directions, every table of the client, 3 requests | negotiation ends, both ends agree, the user's last word counts |
| `telnet_stream` | 6 octets (data, a command, a verb, IAC, SB, SE), buffer of 2, chunks up to 4 | how the stream is cut makes no difference to what is handed over |
| `rest_request` | two pipelined requests out of some thirty, four of them with signatures, cut everywhere, two times of the clock | requests end where the client ended them, with the body it sent up to a NUL in it; nothing of a request is left to the next; a handler only runs for a path and a body that were signed together, within the window |
| `codecs` | every input up to 2 to 8 symbols, see below | unpacking in place, sending, URLs, help, digests and escapes do what the formats say |
| `history_saves` | two terminals, three commands, histories up to 3 | a written file is the history that changed last, a cut one a beginning of it and at most a part of the line that comes next |
| `server_ids`, `line_room`, `rest_cut` | `server_ids` and `line_room`: the smallest that shows it; `rest_cut`: that of `rest_request` | a statement of the source the code does not keep, see below |

Bounds. Two client descriptors and three sessions let a number be taken again
while another connection is open, and make accept fail for want of a descriptor.
The counter of ids is a parameter (`IdMod`, 256 in the code): with 2 the third
accept takes an id that may be in use. One chunk per socket is enough, because the loop reads
one chunk per round. Backlog 2 gives a queue with an order. A line of three
characters has a start, a middle and an end; a history of two has a line above
and one below. `MaxLine` 5 in `line_room` passes `ALLOC_QUANTUM`. The value of
`ALLOC_QUANTUM` is the code's. `line_edit` uses a VIEW that leaves out the size
of the allocation, and the screen while it is known to differ: neither is read
before it is set again; `server_telnet` one that leaves out ids and the time of
the last accept, which only the idle test and REST completions read; `rest_request` one that
leaves out the requests before the last, once they are completed and checked.
The four links of `telnet_agree` are the four
cases a link can be in: asked for in `didOpen` or not, supported by the server or
not; three requests turn one option off, on and off again while the first answer
is still on its way. `CHECK_DEADLOCK FALSE` stands in runs with one `begin`,
where after the only `stop` and the last client the system really is at rest, in
`telnet_agree`, where it is at rest when everything is agreed, in `rest_request`,
where the client may stop sending or the process die, and in `codecs`, where the longest
inputs end.

In `telnet_stream` a chunk of four octets holds a whole negotiation with data before
it, or the end of one subnegotiation and the start of the next; a buffer of two
overflows, is full, or has room. The requests of `rest_request` are with and without
headers, a length, chunks (of one and two octets, with parameters, with a trailer),
`Connection: close`, without a version, with an absolute url,
with a body that is no JSON, with a NUL as its first or last octet, and the same
requests with a bad octet at each place of their head; two of them in one connection show what
the first leaves to the second. The signatures are of today, of
another day, of another request and of a body with more behind it: a
chunk may tear a date of two digits into one that is within the window, and a header into one
that is the name of another. In `codecs`
the alphabets are the octets that the code tells apart and one it does not; payloads
of seven octets hold two variables with a name, an escape and a value, URLs of six
characters every order of the separators, help files of six lines two topics. SHA-256
works there on blocks of four octets with a length of two, which passes the one
boundary that matters (the length no longer fits behind the message) as blocks of 64
do, and its compression is a function that tells blocks apart. Histories up to three
lines let a longer file be followed by a shorter one; of the three commands one begins like
another, so that what is left of a torn line may be a command somebody ran.

Fairness. `LiveSpec` asks for weak fairness of the server thread (the scheduler
runs it, `select` has a timeout of three seconds, every socket is non-blocking)
of the return of `join`, and of the clock (`Elapse`). `TelnetNegotiation` asks that `didOpen` runs and that
what was sent is received (TCP, and both ends read). Clients, workers and the
controlling thread owe nothing: `stop` may never be called, a client may stay for
ever.

## Proofs

`TCPServerProofs` proves, for every number of sessions, descriptors, ids and calls
of `begin`, that `Spec` implies:

- `TypeCorrect`: `TypeOK`;
- `NeverExitsCorrect`: `select` never sees a closed descriptor;
- `DescriptorsClosedCorrect`: no descriptor of the server survives its thread;
- `ListedIsPolledCorrect`: a listed connection is polled, covered by `max_fd`,
  and on its own socket;
- `NoHealthyReapCorrect`: only clients that are gone leave by the `recv` path;
- `ForeignUntouchedCorrect`: the server thread closes nobody else's descriptor.

The argument. None of these is inductive: a close in the middle of a round is
harmless only because the round's copy of the set has no second bit for that
descriptor ahead of the scan. The invariant `IInv` (theorem `InvCorrect`) is
`TypeOK` with: the kernel's table (an accepted session has one
descriptor, an owned descriptor's session is accepted); what is polled is open
except between the steps of a teardown, where the one exception is `scan`; what is open
of ours is polled and covered by `max_fd`; during a teardown `scan` is a
descriptor of a session and not the listener; the bits of the read set from `scan` on
were readable and still are, since only a client can add to them; and, in the
first life of the server, a listed connection owns its descriptor. Each action is
one lemma's case. `IInv` was checked by TLC before it was proved. Assumptions:
`SizesAssumption`, `FdsAssumption` (finitely many descriptors, all natural
numbers) and `ServiceAssumption`.

It also proves `ActiveMirrorsListCorrect`, `VerdictHoldsCorrect` and
`PromptReplyIsSentCorrect`. An id may be that of several objects. What keeps the set of ids
in step with the connections that are not being dropped (`Kept`) is that an erasure takes
the id of what is being dropped, and of no connection that has its id alone (`Alone`); this
needs neither a bound on accepts nor the first `begin`. As long as the counter has not
wrapped (`FirstLife`), objects made at different times hold different ids (`IdsDiffer`),
and all are alone. What is listed is an object that lives (`ObjectInv`): the reply of a
check that said yes can only go astray once the connection is no longer kept. Only
descriptors need the first `begin`: `ListedIsPolled` says whose they are.

And it proves `PromiseKept`: each step of the server is a step of
`SessionService` or changes nothing it speaks of. What a step needs to know of the
state is `PromiseInv`: a queue only exists with its listener, an accepted session has
a descriptor, a session that did not arrive has no client, one that is dropped in the
`recv` path has lost its client, and only terminals hang up.

`TelnetNegotiationProofs` proves, for every set of options, every table of the client
and every number of requests, `AgreementCorrect`, `LastWordCorrect`,
`OnlyOfferedCorrect` and `FewInFlightCorrect` (and types). None is inductive: a
server at "NO" and a client at "WANTYES" with empty streams would break
agreement. `IInv` says which combinations of two states and two streams occur at
all: twelve, six of them while the request of `didOpen` is unanswered
(`Asking`, `Crossing`). One lemma for each handler speaks of a single link, and the
step lemmas lift it to all of them. The only assumption is `AsksAssumption`.

`TelnetParserProofs` proves, for every set of octets, every size of the buffer and of a
chunk, that the parser implements `TelnetOctets` (`StreamKept`), and its types. The
assumption `NoMccp1` excludes the option of MCCP version 1, after which `start` may
pass the end of the chunk and the code hands over memory it was not given. `TypeOK` says
among the types that `start` never passes the octet after the last one read, and is
inductive (`TypeCorrect`). For each
octet the proof shows first how state, option and buffer follow
`TelnetOctets`, then that the events of the step and what stays pending are what was
pending before and what the octet means.

`RESTRequestProofs` proves the invariants of `rest_request`, for every set of
requests, any number of them on the connection, and every way to cut them into chunks.

- `TypeCorrect`: the assertions `http_parser` makes about itself hold whatever a client
  sends, including octets that are not HTTP: a mark belongs to the state it was set in, a
  body that is being read has octets to come, chunk states are only reached by a request
  that announced chunks. `TypeOK` alone does not say which fields the parser's
  record has; `IInv` adds that.
- `RequestAsSentCorrect`, `FramedCorrect`, `DiesOfItsBodyCorrect`: what is completed is what the client's text means, where that text ends.
  Nothing of this is inductive: a property of finished requests says nothing about one
  that is half read. `TextInv` does: unless an earlier request has ended the connection
  (`Ended`), the octets still to be parsed are the rest of the last request's text from some
  point on, and parser, mark and collected request are what that point of
  `HttpText!Reading` says (`Current`). Length, flags and body agree however the text was
  cut (`Following`), since the pieces of a body are put together, each up to a NUL in it
  (`KeptJoined`: what is kept begins with all that stands before the first NUL and grows by no
  more than was sent); url and headers agree while no
  chunk has cut one (`Whole`). The parser is a little behind the text in two places,
  and `ParserNow`, `RequestNow` and `At` say where: what a header line means to the
  parser, and an empty value, are only taken over with the first octet of the next line. One
  lemma for each state of the parser shows that an octet leads to the next point;
  `Handed` is what a step may do to the record of calls, and `CallsInv` what that
  record says. A text is a function's domain long, and there is no induction to be had; that
  `Reading` is defined at every octet follows from a least one at which it were not
  (`LeastOf`, `PointsExist`).
- `OnlySignedRunCorrect`: with authentication on, a handler only runs for a path and a body that
  were signed together, under a key that has a secret and a date within the window, *also when
  chunks have cut its headers*, where names and values are not those of the text, and when
  signature, date and key come from another request. `SignedInv` is what survives the
  cutting: every value and url that is collected was cut out of the text of the last request
  (`Pieces`), and a request begins by forgetting what an earlier one left. It does not say that
  the request is the one that was signed: a signature may be sent again until its window ends.

The assumptions: `TextAssumption`, the fields of a request are what its text means, a whole
request or one that is refused (this defines what "sent" means; a client that stops in the middle is a
run that stops in the middle of the text); `SignAssumption`, no piece of a text is an HMAC of
what nobody signed, for this request or another; `JsonAssumption`, no JSON has a NUL in it; and
`RequestAssumption`. TLC evaluates
all of them for the requests of `rest_request`, whose texts are written down octet by octet.

`HistoryFileProofs` proves `LatestKept`, for all terminals and commands and any number
of lines, also when a line is written in part. The invariant adds to `FileIsLatest` the types, and
that a save under way is not one known to have failed; `Beginning` and `EndsTorn` say what a cut leaves of the history.

`CmdLineBufferProofs` proves all five invariants of the line editor, for all
characters, commands and keys, and lines and histories of any length: `TypeCorrect`,
`CursorInLineCorrect`, `ScreenIsLineCorrect`, `BufferIsHistoryLineCorrect` and
`HistoryIsCleanCorrect`. The first four are inductive together (`InvCorrect`) once it is
added that a command which waits for a key left an empty buffer and no history line
behind: its completion draws the prompt and the buffer without looking at either. The
work is in the keys whose echo is relative to the cursor; `PartsOfRow` says that the
row, cut at the cursor, is the prompt with the line cut there, so that a character pushed
into the row (`TypedIsSeen`) or pulled out of it (`DeletedIsSeen`) is the one that entered
or left the line. `HistoryIsCleanCorrect` assumes that the file held a clean history:
`readHistoryFile` takes its lines as they are, so a file written by another hand, or a
line cut by a full disk, may bring in a blank.

`CodecProofs` and `TelnetCodecProofs` prove all seven invariants of `codecs`, for inputs of
any length over any alphabets (octets where the format has octets, any characters in a
URL). Each codec is a recursive function of the turns of its loop. The library's induction
theorems cannot be used, so each proof goes in three steps. A lemma named `..Turns` shows that
the function exists and has the value of the loop's body at each turn. A lemma named `..Step`
shows that one turn keeps an invariant, which says how the state of the loop relates to the
meaning of the part of the input that is behind it. `UpTo` then gives it for all turns: it is
induction over the set of turns for which something holds, from well-foundedness (`LeastOf`).

- `DecodeCorrect`: `parse_query` and `urldecode` give the words that were escaped,
  wherever escapes stand. What makes it hold is that an escaped word has no `&` and no `=` in
  it (`FirstSign`).
- `SendCorrect`: what `telnet_send` and `telnet_send_text` hand to the socket reads as it was
  meant, an IAC as data and a line end as a line end. The receiver's mode after a piece is
  the one it had before (`ReadAsSent`), so pieces can be joined.
- `HelpCorrect`: after every line, the topics that were loaded are those that were closed, and
  the open one is what follows the last start (`LoadStep`).
- `UrlCorrect`: every cut keeps what was there in two parts and a separator, and the cuts are made in
  such an order that nothing is cut twice (`SchemeKeeps`, `CredentialsKeep`, `PortKeeps`). For
  paths and queries, the n-th word or parameter of the result is the n-th in the text
  (`NthIs`, `CountTo`), up to the limits `MaxParts` and `MaxQueries`.
- `HashCorrect`: between calls, what was digested and what is in the block are together the
  message so far (`Taken`), however the calls cut it; padding gives blocks whose contents
  depend on the message only (`DigestIs`). That `digest` may be asked for in between is part of
  the theorem. For the signature, a key that was masked twice is masked once (`MaskedTwice`).
- `StringsCorrect`, `EnvironCorrect`: libtelnet writes the strings of a payload to
  the front of the buffer they are in. The write position stays behind the read position
  (`Copying`), so what is still to be read is as it came; a string that was unpacked stands there
  with a NUL behind it (`Unpacked`, `Stored`), and later ones are written behind it
  (`StoredStays`). `Mssping`, `Zmping` and `Environing` say this of all strings so far, with the
  place in the input each comes from. No string depends on the octet behind the payload
  (`Behind`), and as many entries are announced as there are values. The code before a
  string is never stored, which leaves room for the NUL behind it (`KeptToFew`). An octet of
  ENVIRON is literal if an escape that is not literal itself comes before it (`LiteralIs`):
  the loop that counts the entries and the one that fills them agree on which octets
  are codes, so that as many are filled as were counted (`EntriesIs`).

The assumptions: `FormatAssumption`, which kinds of symbols and which beginning the inputs of a
codec have; and `SizesAssumption`, octets lie behind a payload, a block has 1 to 255 octets, room for the length of the
message and one octet more, and a query may hold at least one parameter. Of the
compression of blocks, for which `HashOctet` stands, the proofs use only that it gives octets.

Only model-checked: the liveness properties, `StopReturns`, `DropIsNoticed`, `QueuedIsServed`
and `IdleInTheEnd` of `server_live` and `Settles` of `telnet_agree`. Fairness is stated with ENABLED, which is
beyond the prover. Every other property that a run finds to hold is a theorem.

## Where the code and its comments part

Shown by a run:

- `TCPServer.cpp:390`, "every entry id unique": the counter is a `uint8_t`
  (`server_ids`). Properties about ids therefore speak of connections that have their id
  alone (`Alone`), or of the first `IdMod` accepts (`FirstLife`).
- `CmdLineBuffer.hpp:140`, "actual end of buffer": `append_data` grows the
  buffer by the wrong measure (`line_room`).
- `http_parser.h:86-88` announces that a callback for data "will be called arbitrarily many
  times for each string". `on_header_field` and `on_header_value` keep pieces as if they
  were whole: a header cut by `recv` reaches the handler cut, or as two (`rest_cut`).
  So does a cut url (`on_url`); only `on_body` puts the pieces together. Properties
  about url and headers are stated for requests that were not torn.

Met on the way, and visible in the definitions named here:

- `TCPServer.cpp:271`, "this will terminate all connections": objects and ids
  survive a `stop` (`ShutdownClose`). Properties about the list are stated for the
  first `begin`.
- `RESTServerConnection.cpp:63`, "check if connection dropped": on another thread
  the answer may be stale when it is used (`Check`, `SendReply`).
- `CmdLineBuffer.cpp:383`, "clear the buffer": `?` forgets the history index (`Help`).
- `CmdLineBuffer.cpp:345`, "ignore empty lines": a line of blanks stays in the
  buffer (`ReturnBlank`).
- `CmdLineBuffer.cpp:447`, "can we extend the choice..": the common prefix may be one
  letter too long (`Tab`).
- `REST_URL.cpp:118-123`: octets after a NUL in a body are lost, and which ones depends on the
  chunks; `HistoryFile!WriteFails`: a line torn by a full disk is a command for the next terminal.
- `libtelnet.c`, MSSP: a payload that ends with a VAL counts an entry that is never
  filled, and the type of the next is read behind the payload; ENVIRON: one that ends with an escaped escape is refused (`Mssp`, `Environ`).
- `CmdLineHelp.cpp:82`: a TOPIC-END without a start gives the lines before it to
  a topic without a name, and a line with a label renames the topic it stands
  in (`Load`).

## What the models assume and leave out

- `socket`, `bind`, `listen` and `fcntl` succeed: the code exits or only logs otherwise.
- Reads that race (`_running`, the id set) are single steps that see a value that
  was written; the C++ program has undefined behaviour there.
- Signals (`EINTR`, `SIGPIPE`) and descriptors at or above `FD_SETSIZE`.
- A terminal that closes itself while libtelnet is still in the middle of a chunk:
  the connection is deleted and then used. In `TCPServer` a "bye" is the last thing in
  its chunk.
- Completions of terminal commands on other threads, and long lines that wrap
  on the terminal.
- In `RESTRequest`: responses, upgrades, folded header lines, limits on sizes. Words (a method, the
  version, the names and values the parser looks for) and CR LF count as one octet, so that they
  are not cut inside; the methods are one, and not CONNECT. CR or LF alone, tabs, commas, signs and keep-alive
  are not sent, and "NUL" stands for all control characters. What is signed is a record of
  path, body, date and key; the bar that separates these in the text that is
  digested is none of the octets. JSON is a set of bodies.
- Texts of replies, formatting of times, and the compression function of SHA-256.

## Not modelled

- `TCPServerMgr` and `finger`: a race on another server's list, through pointers to servers
  that may be gone. Every interleaving of interest is undefined behaviour with no outcome
  the build bounds, and without them it is a list.
- `LogMgr`: the same for the stream that `setLogFilePath` replaces outside the mutex.
- `json.hpp`, `date.h`: third-party headers, three quarters of the repository's
  lines, of which the program uses a handful of functions. The share of the whole that the
  models stand for is small for that reason.
- MD5, SHA-1, SHA-3, Keccak, CRC-32: in the repository, not in the program.

## Plan

What is left to do, in this order:

1. Completions of terminal commands on other threads, composed with `CmdLineBuffer`.
2. Folded header lines and the limits on sizes in `RESTRequest`.
