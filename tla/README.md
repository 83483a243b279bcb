# A TLA+ model of smtp-nel-filter

`smtp-nel-filter` reads TCP streams through libnids, follows the SMTP and MIME
dialogue of each, hands events to the rules of a NEL engine, and stops tracking a
session the rules deny. It never talks to either side: it *guesses* the server's state
from what passes by. This directory specifies the parts of it that keep state or parse
text, checks them with TLC and proves their main properties with TLAPS.

## 1. Inventory

| component | state | operations | who calls it |
|---|---|---|---|
| TCP events (`src/src/tcp.c`) | none of its own | `process_tcpdata`: establishment, data, close, reset become calls of `process_smtp`; a stream libnids gives up makes none | libnids |
| session table (`src/src/smtp.c`) | pool of `smtp_info`, free list, hash buckets, `smtp_num` | `smtp_init`, `new_smtp_info`, `search_smtp_info`, `free_smtp_info`, `smtp_cleanup` | `process_smtp` |
| session tracking (`src/src/smtp.c`, `src/src/command.re`) | `curr_parse_state`, `last_cli_event_type`, `mail_state`, `permit` | `process_smtp`, `parse_smtp_command`, `parse_smtp_ack`, `smtp_close_connection` | `process_tcpdata` |
| command and reply parsers (`src/src/*.re`) | write the session's state; own what they allocate until an event takes it | one parser per command, one per reply | `parse_smtp_command`, `parse_smtp_ack` |
| message content (`src/src/message.re`, `fields.re`) | stack of MIME parts, `new_part_flag` | `parse_smtp_message` and the parsers of fields, body, preamble, epilogue | `parse_smtp_client` |
| buffers of a session (`src/src/smtp.c`) | `cli_buf`, `cli_data_len`, `cli_buf_len`, `svr_data`, `svr_data_len` | append, `sync_*_data`, `reset_*_buf`, enlargement | all parsers |
| header fields (`src/src/mime.c`, `address.c`, `path.c`, `content-type.c`, `disposition.c`, `_time.c`, ...) | none: a parser is called again on everything that has arrived | recursive descent, answering accepted, refused or "call me again with more" | `fields.re`, the parsers of MAIL and RCPT |
| body decoding (`src/src/body.c`, `mmapstring/`) | none between two pieces | `smtp_mime_body_parse`: base64, quoted-printable, plain | the actions of `smtp.nel` on text events |
| object pools (`src/src/mem_pool`) | free nodes chained through their first word, count, mutex | create, `alloc_mem`, `free_mem`, destroy | the parsers of commands, event constructors |
| containers (`src/src/clist`, `chash`, `charconv`) | cells, ends, count of a list | new, append, foreach, free | the parsers of paths and addresses |
| rules (`src/rules`) | NEL's own | verdicts through `smtp_deny` and `permit` | every `nel_env_analysis` |
| start-up | - | option parsing, `smtp_init`, the calls that start libnids and NEL | `main` |

The program is one thread driven by libnids' callbacks. What interleaves is outside
it: two endpoints that each send when they like, segment boundaries anywhere, streams
that come and go, memory that is granted or refused. What is hard follows from that:

* a reply is attributed to the *last command seen*, so everything rests on the tracker
  and the server being in the same place;
* a verdict of the rules takes effect at the next test of `permit`, and several events
  (`eoh`, `eot`, `eob`, `eom`) have no test behind them;
* segments that do not fit are dropped and the session goes on; the server's buffer
  loses room to every reply consumed by the default cases of `parse_smtp_ack`;
* sessions outlive streams that libnids gives up, and addresses are used again;
* every parser may meet the end of a segment at any character, must say whether the
  text is wrong or only not all there, and is called again from the beginning; an
  answer that more text would take back, or a cut that swallows part of a delimiter,
  is seen only with the right segments;
* the stack of MIME parts survives messages and segments, and every way out of a part
  must pop what was pushed;
* bodies are decoded a piece at a time with nothing kept from one to the next;
* every allocation of a command may fail, between others that did not;
* some results are those of locals that no path has set.

What makes each part correct: for the tracker, that it agrees with the server in every
dialogue it is meant to follow, closes a session only for a cause that is known, and keeps a denied session from
moving on; for the table, that every entry is in exactly one place and the data of a
stream reaches its own session; for the buffers, that they stay in bounds and do not
block; for message content, that the stack of parts follows the message and is balanced
when it ends; for fields, that legal lines are read as they are meant however they are
cut, and that every call returns; for decoding, that it inverts encoding within its
buffers; for memory, that a pool stays a chain and no block is freed twice or lost.

## 2. Modules

| module | what it is |
|---|---|
| `SmtpSession` | one session beside the real dialogue of a client and a server |
| `MCSmtpSession` | its instances for TLC |
| `SmtpSessionProofs` | its types; the tracker and the server; denied sessions |
| `TcpStreams` | libnids' streams (external), shared by the two table modules |
| `SessionTable` | what the session table promises: a bounded set of sessions |
| `SmtpTable` | the table with its pointers, which implements `SessionTable` |
| `MCSessionTable`, `MCSmtpTable` | their instances for TLC |
| `SessionTableProofs`, `SmtpTableProofs` | the promise's consequences; the pointers and the refinement, for every table |
| `SmtpBuffers`, `SmtpBuffersProofs` | the two buffers of a session in bytes, and that they stay in bounds |
| `SmtpMessage` | MIME structure: the stack of parts beside the message the client sends |
| `SmtpMessageProofs` | that the stack is balanced, and that it follows the message |
| `SmtpText` | the lexical parsers of `mime.c`: white space, comments, words, lists, parameters |
| `SmtpAddress` | addresses, the envelope's paths, message identifiers |
| `SmtpContent` | the MIME fields and dates |
| `SmtpFields`, `MCSmtpFields` | a field on its way to its parser, a piece at a time; lines and alphabets for TLC |
| `SmtpFieldsProofs` | what the parsers answer, for texts of every length |
| `MmapString` | the growing strings bodies are decoded into |
| `SmtpBody`, `MCSmtpBody`, `SmtpBodyProofs` | the decoders turn by turn; their instance; buffers, bounds and meaning, for bodies of every length |
| `MemPool`, `Clist` | pools and lists as records and operators on them |
| `SmtpStorage`, `MCSmtpStorage` | what the commands allocate, hand on and free, with memory refused anywhere |
| `SmtpStorageProofs` | pools, lists and ownership, for every amount of memory and any number of mailboxes |

### SmtpSession

The *tracker* half of the state is the `smtp_info` of one connection: `open`, `parse`
(`curr_parse_state`), `last` (`last_cli_event_type`), `mail` (`mail_state`), `permit` as
a set of bits, both buffers as sequences of lines, and `svrOff` for the distance
`svr_data - svr_buf`. `why` records what closed the session; the code only prints it.
The *dialogue* half is what the filter cannot see: the server's transaction, the line
it expects in an AUTH LOGIN dialogue, the commands it has not answered, the rest of a
line or a reply cut by a segment boundary, and `orderly`, which says that the dialogue
so far is of the kind the tracker was written for.

An action is one segment: `ClientData`, or one of the ways server data arrives
(`ServerReplies`, `ServerCoalesces`, `ServerResumes`), or the end of the connection
(`Teardown`). Each runs the whole handler: the test of room, the copy, the choice of
parser, the parser with its error paths, the analysis of the event (`Analyse`: any
verdict, then the test of `permit`), and the close that `process_smtp` adds to a
negative result. Each command and reply parser is an operator of its own, since they
differ in small ways that matter: `AUTH` is recorded before it is parsed, `EHLO` wants
all lines of the reply, `DATA` and the reply to a message switch the parse state, `VRFY`
and `EXPN` replies may vanish, `HELO` may be skipped, and replies nobody parses move
`svr_data` for good.

Abstractions. A line is a verb and a form (whole, with an argument the parser refuses,
or cut); an argument's grammar is the choice between the first two. The rules are a
choice of verdict at each event. What a segment of message content contains is a
choice too: some events, some part of the buffer consumed, and the end of the message
only where a CRLF.CRLF stands whole in the part of the buffer not consumed. Locals that
are not initialised are a choice (`SkippedCmd`). An incomplete command is either
forgotten (`SMTP_ERROR_CONTINUE` after `reset_client_buf`) or refused, since the helpers
that find the cut differ.

Orderly dialogues take turns, one line to a segment, replies whole; and they leave out
what the tracker does not follow by design: a granted `SEND`, `SOML`, `SAML`, `BDAT`,
`TURN`, `ATRN` or `STARTTLS`, a message the server does not accept, `NOOP` (which
leaves the previous command in place to receive its reply), and `HELO` when it is
switched off. Five properties are restricted to them; those on denied sessions and on
buffers are not.

### The session table

`SessionTable` is the abstract specification: `sessions`, a set of pairs of a
connection and the number of its stream, and `lost`, the number of entries that a failed
allocation leaves outside every list. A search finds the newest session with matching
addresses, in either direction, including the comparison of the wrong port that the
code makes for the second direction. `SmtpTable` has the pool's `next_free`, the
buckets' `next_node` and `prev_node`, `smtp_num`, and each entry's address and hash; the
refinement mapping takes the entries linked into some bucket for the set. That the one
implements the other (`Implements`) is checked by the run `table` and proved in
`SmtpTableProofs`. `TcpStreams` supplies the streams: established, delivering, ended, or
given up without a call.

### SmtpBuffers

Lengths in bytes: what `process_smtp` appends, what `sync_*_data` and `reset_*_buf`
give back, the enlargement by `SMTP_BUF_LEN` of a client buffer that a message header
fills exactly, its limit (`MaxGrowth`, 10 in the code), and the movement of `svr_data`.
How much a parser consumes is a choice within what the segment holds.

### SmtpMessage

The client's half is a message: where it is (`at`), the type its header has declared, the
boundaries of the multiparts it has open. The tracker's half is `part_stack`,
`part_stack_top`, `new_part_flag` and the lines of the client buffer with `cur_token`. A
`Segment` calls `parse_smtp_message`; each turn of its loop (`Turn`) is one call of the
parser of fields, body, preamble or epilogue, which consumes lines, pushes, pops or
answers, and `Finish` is the code behind the loop: the enlargement of the buffer, the
test for corrupt messages, the end of the message. A line is a kind (a Content-Type, a
delimiter of some boundary, text, a full stop, ...) and a form that says how much of it
the segment has. `Malformed` lets any line come anywhere, `Scraps` lets a segment end
with less text than a boundary is long.

### Header fields

`SmtpText`, `SmtpAddress` and `SmtpContent` have one operator per parser of the library,
from a text, a sequence of characters, and an index to what it answers, the index it leaves
and the value. They are built from a few combinators: one after the other (`AndThen`,
`Then`), alternatives (`Else`), optional parts (`Opt`), and `Loop`, which takes what a
turn answers at every index and goes round while a turn says "again" (`Turn`, `Many`,
`StructMultiple`, `StructList`). They carry the distinction the code makes everywhere between
`SMTP_ERROR_PARSE` and `SMTP_ERROR_CONTINUE`. A loop that would never end answers "spin",
a path that frees a list it has not got answers "null". What the code does by recursion or
by `while` is a function over the indices of the text, never a recursive operator, so
that it can be proved about. The keyword of the field has been read before; its index is
where the parser begins.

`SmtpFields` is the machine around them: a text arrives in pieces, a segment may end
after each, and then the parser is called on everything there is. What it answers first
is what the filter acts on (`said`); what it would answer now is `now`. The properties
compare the two, and both with what the line means. The parsers are a constant of the
machine, `Parser`, whose value in every run and theorem is `Library`, the parsers above by
field; as a constant TLC evaluates it once.

### Bodies

`SmtpBody` is `smtp_mime_body_parse` on one piece after another. A turn of a decoder's loop
is an action (`QpEqual`, `QpSoftBreak`, `Base64Char`, ...), with the runs of literals
that quoted-printable copies at once and the quantum of base64. `Meaning` says
independently of the decoders what an encoded text means: `Reading` reads it one character
at a time, as a whole and without regard to pieces, and `Octets` takes the bits of base64's
values (`SixBits`) by eights. What `malloc` and `realloc`
answer is a choice, `MmapString` has the growth by powers of two. A byte read behind the
piece is `Behind`, one computed from a variable never set is `Unset`.

### Storage

`SmtpStorage` follows HELO, EHLO, USER, PASS, MAIL and RCPT from one allocation to the
next: names and texts from the pool of strings, addresses, events, the cells of the
list of a path. An action is the code between two allocations, with the way out it takes
when memory is refused. Events belong to NEL until `Release`. `MemPool` chains its free
objects and grows by `MEM_POOL_REALLOC_LEN`; `Clist` links its cells both ways. Contents
are left out: a block is an address.

## 3. Runs

| run | question | bounds |
|---|---|---|
| `orderly` | does the tracker stay with the server through every command and reply code, and what may close the session on the way? | all 20 verbs, a code for every branch of every reply parser, all verdicts; HELO and VRFY switched off; one command outstanding; six lines of server buffer, so that `svr_data` moves until replies are dropped; states behind a dialogue that is no longer orderly are not explored (`OrderlySoFar`), since these properties say nothing of them |
| `dialogues` | where may a denied session linger, and does it ever move on, in any dialogue? | a transaction, AUTH and its dialogue, an extension; forward and deny; segments cut anywhere; two commands outstanding, answers together or apart; buffers of two lines, which fill up |
| `table` | are the lists sound, and do they do what is promised? | three entries in a table of three buckets, two of them used; a connection that mirrors another from port 25; four streams: enough to exhaust the pool, to unlink head, middle and tail, and to reuse an address with a stale session in place |
| `promise` | what does the promise mean for callers? | the same with five streams |
| `buffers` | do the buffers stay in bounds, and what can fill them to the last byte? | eight bytes, two enlargements, segments from one byte to more than a buffer |
| `mime` | does the stack of parts follow a message the tracker was made for (`Followed`), and is its end seen? | three multiparts open, messages in messages, a stack of five entries, four lines of buffer; cut after any line and inside a delimiter, but into no scraps; once a close delimiter is cut bare nothing is claimed |
| `mime_any` | is the stack in bounds and balanced, and does the parser return, whatever is sent? | lines in any order, segments shorter than a boundary; a stack of four entries, which overflows |
| `fields` | are legal lines read as they are meant, is no answer taken back, does every call return? | every legal line of `CalledTexts` and `LibraryTexts`, with white space and comments wherever the grammar has them, and every text of up to five pieces of the alphabets (two comments inside each other need four); cut at every character but those of `Careful` |
| `body` | does what is decoded fit, is it what was encoded, does every call return? | bodies of seven characters in base64, a quantum and the best part of another, and of five in the two others, a code and a soft break in one; runs of two literals; memory refused at any allocation |
| `storage` | do pools and lists stay whole, is anything freed twice or lost? | sixteen blocks, so that the memory also runs out; a pool of one object that grows by two; two mailboxes in a path; two events kept by the rules while the next commands run |

In `fields`, `Uncut` is a parameter of the machine: the characters behind which no segment ends.
`Careful` leaves out those of section 6, and only those; `Anywhere` leaves out none.

Each property of these runs fails when a plausible bug is put into the code (the
operators marked *Mutant*): a dropped test of `permit`, a password taken for a user, a
free list without an end, a new entry linked behind the head, one enlargement too many,
a reply to EHLO of which only the first line is understood, a part popped once too often, a comment that ends at the first parenthesis, a buffer
that grows after it is written, and so on.

`CHECK_DEADLOCK FALSE` is set where the system really stops: a session is over, no
stream is left to be established, a text or a body has arrived, the program has used a
pointer it must not use (`storage`).

Two further runs show where the code and its own comments disagree:

* `helo`: `var_disable_helo_cmd` lets the command pass and merely leaves it
  unanalysed (`HeloNotPassed`), unlike its comment and unlike VRFY and EXPN;
* `comment`: a segment that ends behind the closing parenthesis of a comment keeps the
  parser in its loop for ever (`Returns`).

The other `Find*.cfg` are run by hand; section 6 says what each shows.

### Fairness

Two specifications assume weak fairness, and both for the same reason: a call that has
begun goes on, since the program is one thread and nothing in the parsers waits.
`SmtpMessage` has it on `Parse` (the turns of the loop of `parse_smtp_message` and the
code behind it), `SmtpBody` on `Turn` (the turns of a decoder). Neither has it on the
arrival of a segment or a piece. With it `Returns` says that every call comes to its end.
In `SmtpFields` a call is one step, and `Returns` is the invariant that no loop spins.
All other properties are safety properties: no endpoint owes a segment, so
a session or a table may stop at any time.

## 4. Proofs

All theorems hold for every value of the constants that meets the named assumptions of
the modules (verbs and codes are among those SMTP has, capacities are positive, a
session table has at least one bucket, connections end in port 25, ...).

* **Types of the session** (`SmtpSessionProofs`). `TypeCorrect`: `TypeOK` is inductive as
  it stands. The work is in the buffers: a joined segment keeps to the tokens and to the
  capacity that `ClientFits` and `ServerFits` tested.
* **Agreement** (`SmtpSessionProofs`). `Agreement`, `Attribution` and `DisabledRefused`
  are not inductive: whether a reply goes to the right parser
  depends on what was outstanding before, and whether the tracker is in the right mode
  depends on how the reply before was read. `InStep` is their strengthening: *between*
  two exchanges parse state and last event are those of the server's transaction and
  AUTH dialogue, *within* one the last event is that of the one command outstanding,
  and the buffers are empty. A client segment goes from between to within, a server
  segment back; the lemmas `ClientInStep` and `ReplyInStep` are the two halves, with one
  step per command and per reply parser.
* **What ends a session** (`SmtpSessionProofs`). `NoSpuriousClose` is an action property: a step
  that closes the session of an orderly dialogue does so for a cause in `Ends`, which says
  for each when it may come. The lemmas `CommandCloses`, `MessageCloses` and
  `AckCloses` name the causes each handler has, in any dialogue; `InStep` before and after the
  step leaves those of `Ends`: no syntax error, no mailbox but in the answer to VRFY or EXPN, no
  content refused but the server's. The peers and the rules apart, three closes of legal sessions stay
  possible, because the code makes them: VRFY or EXPN answered with a mailbox that
  the grammar refuses, a skipped command (`Skipped`) whose result no path has set, and
  message content that is refused; whether that content was legal is `SmtpMessage`'s question.
* **Denials** (`SmtpSessionProofs`). `DeniedOnlyInGaps` is strengthened by `InMessage`
  (message mode only after DATA or an event of a message), without which the reply to
  a message could be one to anything. `DenialsFinal` is an action property from the same
  invariant.
* **The promise of the table** (`SessionTableProofs`). The invariant adds to the three
  properties that streams are numbered in the order they are established, no two
  sessions have the same number, and a live stream's session is newer than any stale one
  with its addresses.
* **The table** (`SmtpTableProofs`). `TableInv` says that there are a sequence `f`, the free
  list, and for each bucket a sequence `ch`, such that the pointers are those of the
  sequences (`Lists`), no entry stands in two places (`Placed`), and entries grow older
  along a bucket (`Ages`). That a pointer walk yields the sequence is a lemma about
  functions, so that the rest is about pushing on and removing from a sequence: `Singly`
  for the free list, `Doubly` for a bucket. The four invariants of the run `table` follow from
  it, and so does the refinement: the entry a search returns is the session the
  promise names, and the free list is empty exactly when the promise has no room.
* **Buffers** (`SmtpBuffersProofs`). `BuffersInv`: the properties with `TypeOK`, whose
  last conjunct (the buffer's size is one of `Sizes`) is what the enlargement needs.
  `HeadersNeverFull` says that a command or a header never leaves the client buffer exactly
  full; that it leaves room for the next segment is not true (`HeaderLeavesRoom`, section 6).
* **Messages** (`SmtpMessageProofs`). `MessageInv` is `TypeOK` with three parts: `StackInv`
  (`PartsNest`, and what the parser of each state finds at the top), `LinesInv` (the lines
  that declare a multipart have a boundary), `EndInv` (once the end is answered nothing is
  left on the stack; in an orderly dialogue that end is the client's, so that nothing of a
  message is left to be taken for the next). `PartsNest` and `BalancedAtEnd` follow.
  One step per parser, and under it one per way out of the parser.
* **The stack follows the message** (`SmtpMessageProofs`). `OpenParts` and `EndSeen` speak of
  a client that is ahead of the tracker by the lines of the buffer that are not read yet.
  `FollowInv` therefore relates the two by a *path* (`Path`): the positions in the message
  before each of these lines and behind the last one, of which the first is what the stack
  says and the last where the client is, and each leads to the next by the line between
  (`Reads`). A segment extends the path at its end, a turn of a parser takes its first step; one
  lemma per parser says that the parser takes the step the line means, one per way of
  searching for a boundary that it finds the right one and nothing behind it.
  Both speak of the messages `Followed` describes, and only of those: each part of a multipart
  declares its Content-Type, a line of text stands before the final full stop, the nesting
  fits the stack, no close delimiter is cut bare. Legal messages outside, such as one with an
  empty body, are closed or misread by the code (section 6).
  `MessageFollowed` and `MessageEndSeen` have one hypothesis, `~Scraps`: no segment ends with less
  of a piece than its boundary is long. Without it they are false, and `FindHeld.cfg` shows
  why: the text is given to the body's events and a delimiter that begins in it is missed.
  That a boundary differs from the words for other types of content
  (`BoundariesAssumption`) is a convention of the model.
* **Bodies** (`SmtpBodyProofs`), for bodies of any length in any pieces. `CallInv` bounds
  where the decoder is by what it was given, `RunInv` the literals it has counted (from which
  `InBounds`: a run ends at most one byte behind the piece, and there only behind a cut code),
  `CodeInv` the code it is in; `Quanta` bounds what base64 writes by what it has read, `Holds`
  says that a string's length, with its end, is within what was allocated. The growth is
  the least power of two that is enough; that there is one is proved by
  counting the subsets of a finite set, and that there is a least one by the order of the
  naturals, so that no induction over data is needed.
  `AsEncoded` compares the stream with `Meaning`. `SentInv` says that the piece is the end of
  what was sent, `ReadingsOfPrefix` that what has been read of a text does not depend on
  what follows. In quoted-printable (`QpInv`) the stream, what is decoded of the piece and
  the literals not yet copied are together what a reader has read who stands where the
  decoder stands (`At`), at the beginning of a code or behind a return. The argument turns on
  `AstrayForEver`: a reader who meets no code stays astray, so a text that ends well is one
  in which every code the decoder meets is complete. In base64 (`B64Inv`) every four values
  have made the three bytes of their twenty-four bits (`Quartets`, `OctetsAre`, by the
  arithmetic of each byte), and the values of the quantum begun are the last ones read. The
  text as it is (`BinaryInv`) loses the line break of its last piece only, as no piece before
  ends in a return or a line feed. The inductions along a text are over its positions
  (`UpTo`), from the least counterexample.

* **Storage** (`SmtpStorageProofs`), for any amount of memory, pools of any size and any number
  of mailboxes. A pool is `Whole` if there is a sequence without repetition whose elements
  `next` chains and `num` counts, numbered from the end so that freeing appends to it; a list
  `Holds` the elements of a sequence if there is one of cells, between two `NULL`s, that `next`
  and `previous` link (`Linked`). The lemmas of the first part say what each operation
  does to the sequence. `StorageInv` is the invariant about the state:
  memory in use is memory there is (`HeapInv`), pools are whole and hold nothing that
  is in use (`PoolsInv`), every text, name and node has one owner (`TextsInv`, `HeldInv`, `NamesInv`),
  the list has the mailboxes parsed (`ListInv`), and which locals are set is known at every
  point between two allocations (`Shape`). The last is what makes it inductive: whether
  the way out of a failed allocation frees what it should depends on what the
  function has allocated by then. There is one lemma per action (`...Keeps`). `TypeOK`, `PoolsSound`,
  `ListInOrder` and `FreedOnce` follow; `LostOnly`, an action property, needs for each action what
  the program knows before and after it (`...Loses`), under the same invariant.

* **Fields** (`SmtpFieldsProofs`), for texts of any length in any pieces, with the parsers of
  the library (`Parser = Library`). `FieldsInv` is the machine's invariant: what has arrived
  is a beginning of the line or some pieces (`Sent`), `now` is the parser's answer to it
  (`Called`), `said` its answer to some beginning of it (`Said`); the lemma `FieldsSent` proves it. The
  rest is about the parsers, each as a function of a text and an index, with one lemma
  for every parser and combinator. A fact about a loop is proved from the turn that breaks it
  furthest to the right in the text, since the next turn begins behind it; that needs no
  induction principle.

  *What they answer* (the `...Answers` and `...Are` lemmas): a verdict of the parser's own kind
  and an index of the text, not before the one it was called at, and behind it where the loop
  around it relies on that. `FieldsTyped` and
  `ParsersReturn` follow. The latter says, of all fields, that no parser is caught in a loop
  (`said.v # "spin"`) if no comment opens in the text; it needs that, since a comment that
  ends with the text spins (the finding `comment`). Of the fields outside `Freeing`, the lists of
  addresses and the X- fields, it says in addition that they free nothing they have not got.

  *What they accept* (`GrammarFollowed`): the answer to folding white space is the longest
  beginning of the text with that form; a comment ends where a reader that
  counts parentheses and skips quoted pairs has come back to none. The first holds of every text, the
  second of texts without line breaks: inside a comment the parser takes only line breaks
  that fold. `WspsIs` says exactly where a run of white space ends, `Nesting` that a reader who
  is at depth d behind a turn of the parser's loop was at depth d before it, and
  `InsideCloses` that the loop ends at the first parenthesis that closes the comment.

  *What they take back* (`AnswersStand`): for the fields in `Standing` an answer stays what it
  is when more of the text arrives. For one text that begins another (`Begins`) the answers to
  both are compared, with three strengths. `Firm`: the answer stands, if it is one (not
  `Undecided`). `Kept`: it stands, or accepts all of the shorter text, and
  may then be taken further by the longer one. `Settled`: it stands and does not end with the
  shorter text. A run of characters is only kept, what ends with a delimiter is firm,
  and white space is settled, as it ends before a character that is there. Parsers in sequence compose
  (`FollowKept`, `FollowSettled`, `FollowFirm`) because a parser called at
  the end of the text is undecided there; this is what `Steady` asks of the turns of
  a loop, and `LoopFirm`, `TurnsSettled` and `StructListSettled` conclude for the loop. The hypotheses
  are the limits of the claim: `said` is not "spin" or "null" (`Returns`), and for the fields
  in `Addressed` the text nowhere contains `<Undisclosed-Recipient:;>` (`Disclosed`), which
  `address.c` compares with only when all of it has arrived, and takes for an address
  until then. `Standing` leaves out the fields whose parsers are not stable: they
  end in optional white space or unstructured text that a fold could still follow, or refuse a
  name that is not all there (section 6). For them `Final` holds with the cuts of `Careful`
  only, and stays with TLC.

  The prover knows nothing of the characters of a string. What the proofs need of that is
  assumed of constants and evaluated by TLC: that strings in `Texts` and `Alphabet` consist of
  characters (`Spelt`), that keywords have a length (`KeywordsAssumption`,
  `UndisclosedAssumption`).

Only model-checked:

* `Meant` and `Answered` of `fields`: what the value of a line is, line by line, is a matter of
  evaluation;
* `Final` for the fields outside `Standing`; `Returns` of `fields` where a comment opens, and its
  "null" for the fields in `Freeing`; `CommentIsBalanced` in texts with line breaks;
* `Returns`, as a liveness property of `mime_any` and `body` under fairness.

Liveness, ENABLED and induction theorems over data are out of reach of the provers used here.

## 5. Not modelled, and what can be trusted

* **Session**: arguments of commands are the choice between accepted, refused and
  incomplete; the numbers that replies put into events (`user.re:95` reads them from
  three bytes in front of the reply), the tables `cmd_allow` and `auth_allow` that EHLO's
  reply fills, which nothing reads but the rules. Agreement after a dropped segment, in a
  pipelined dialogue, or after a connection from port 25: it does not hold there, and
  nothing in the repository says it does.
* **TCP events**: an event with new data for both sides, of which `process_tcpdata` would give
  only the server's to the parsers; libnids reports one side per event.
* **Table**: `smtp_cleanup`, which runs after the last event.
* **Fields**: memory exhaustion inside the field parsers, the rules' verdict on a field and
  the events of attachments, upper case in keywords, numbers of more than nine digits. TLC's
  texts are bounded. What is proved holds of every text; the other properties (section 4) may
  fail for a longer one, but the combinators are few and each is met by many of the lines.
  `turn.c` answers the same to every text.
* **Bodies**: strings backed by files (`MMAP_UNAVAILABLE` is defined, so they are not built);
  the operations of strings that have no caller.
* **Storage**: an address belongs to one kind of block and is never used again for
  another; `destroy_mem_pool` (no caller) and the pool's mutex (one thread). Commands
  other than the six allocate events only.
* `chash` and `charconv` are linked and not called by the tracker.
* The NEL engine is outside the repository, and so is what `smtp.nel`'s order of events
  makes of them: any verdict at any event stands for both. A property that holds does so
  whatever the rules say.
* **Start-up**: option parsing and the calls that start libnids and the engine.

## 6. Where the code does something else

What the models show of the code beside the two findings of section 3. A configuration in
parentheses reproduces it, and must end in a violation: `tlc -config X.cfg M`, with
`MCSmtpSession` for the session, `SmtpBuffers` for buffers, `SmtpMessage` for messages,
`MCSmtpFields` for fields.

Session:

* `SMTP_PERMIT_DROP` is 3, not the 4 its comment says, so `permit & SMTP_PERMIT_DROP` holds
  of an alert and closes the session (`FindAlert.cfg`).
* The rule *RCPT TO must have been seen before DATA* denies a pipelined DATA although RCPT
  has been seen, because `mail_state` follows the replies (`FindDataRule.cfg`).

Buffers:

* `parse_smtp_message` enlarges the client buffer only when a header fills it exactly
  (`message.re:2107`). A header that leaves less room than the next segment is not
  enlarged, and `process_smtp` drops that segment and every later one that does not fit
  (`FindRoom.cfg`).

Messages:

* The test for corrupt messages closes a legal message with an empty body, or with nothing
  between its close delimiter and the final full stop (`FindCorrupt.cfg`).
* A segment that ends with less text than a boundary is long leaves the text to the body's
  events, and the delimiter it begins is missed (`FindHeld.cfg`).
* A close delimiter with nothing behind it, not even CRLF, takes the parser past the end of
  the lines it has (`FindPastEnd.cfg`).

Fields:

* Text in front of a cut that ends in CRLF is accepted without the folded line that
  follows (`FindFold.cfg`); a cut between a blank and the end of the line refuses the field
  (`FindBlank.cfg`), one inside a source route the path (`FindRoute.cfg`).
* A comment in front of a parameter's name is refused, cut or not (`FindCfws.cfg`).
* A keyword longer than what is left of the message asks for more, for ever if the
  message is over (`FindShort.cfg`); `smtp_resent_sender_parse` starts to read at the end of the text and
  always asks for more (`FindSender.cfg`).
* The names of days and months are refused at the end of the buffer, and the zone `UT` is
  never matched (`_time.c`); a message identifier cut behind `<` is refused and
  `smtp_parse_unwanted_msg_id` does not pass on its index; Content-Language wants a comma in
  front of its first tag (`language.c`); Resent-Bcc answers `TRUE`, which is not
  `SMTP_NO_ERROR`; a group without addresses is refused (`address.c:697`); an extension
  token frees a token that was not set.
* `address.c:841` compares 25 bytes of whatever stands there; `content-type.c:917` refuses a
  boundary of more than 128 characters (`TooLong`), and forgets the two hyphens and the NUL that share
  its 129 bytes; an empty boundary makes a multipart whose delimiter is `--`.

Bodies:

* Nothing is kept between two pieces, so a code cut by a segment is lost or decoded twice;
  `body.c:356` reads one byte behind a piece that ends in `=X`; a lone character of base64
  is joined with a value that was never set (`body.c:193`).
* When memory is refused `smtp_mime_body_parse` hands on an uninitialised `result` with the length
  0; `smtp_mime_text_stream_new` has no `return` (`mime.c:702`).

Storage (the places `FreedOnce` and `LostOnly` name):

* `path.c:249` frees a list twice, `helo.re:360` a host name; `user.re:200` measures a
  string that is not there.
* The host name is lost at `ehlo.re:1108`, the user's name at `user.re:236`, and the
  name of an earlier HELO or EHLO when a second one replaces it (`helo.re:315`,
  `ehlo.re:1052`).
* `clist_concat` leaves the count of the list it has emptied; `clist_count` as a macro names a
  field that does not exist. Neither is used by the tracker.

## 7. Plan

What is left, in order of use:

1. `SmtpFilter`: table and sessions composed, with several streams and address reuse; that
   no stream's bytes reach another's session.
2. The parts of a message as `SmtpSession` sees them: that `SmtpMessage` implements the choice
   of events and of what is consumed there.
3. `EhloParameters`: the lines of the reply and the two tables they fill.
4. Proofs: `Final` for the fields outside `Standing`, with the places they are cut at
   restricted as in `Careful`; `CommentIsBalanced` with folded lines; that what a parser accepts
   is legal, for more than comments and white space.
