# macer in TLA+

macer derives passwords from a Trezor: for a `user@host` identity it asks the
device for a public key and then for an ECDH session with that very key (or, in
the legacy format, for a signature), and prints the secret as bytes or as
BIP-39 words. This directory is a verification development of that program: TLA+
modules translated from the C++ sources, TLC configurations that check them on
small instances, and theorems checked by TLAPS. All paths are relative to the
repository; `PROJECT.json` maps each definition to the lines it models.

    tlc -workers 2 -config session.cfg MCTrezorSession    # a run
    tlapm TrezorSession_proofs.tla                        # the proofs

## The system

| Component | Source | State it keeps | Operations | Model |
|---|---|---|---|---|
| Main program | `src/main.cpp:194-311`, `src/usb.cpp` | options, libusb context, device list, handle, claimed interface, secret, output buffer | `main`, `usb::run`, `open_and_run`, `device::~device` and the like | `Macer`, `Program` |
| Command line | `src/main.cpp:58-206` | `struct program`, position in `argv` | `process_argument` and the handlers | `Arguments`, `Program` |
| Trezor session | `src/trezor/usb.cpp:97-211, 285-353` | step of the dialogue, `peer_key`, secret; outside the process: the USB queues and the session of the device | `run`, the handlers of the replies, the PIN, passphrase and button prompts, `get_path` | `TrezorSession`, `PasswordService`, `PacketSession`, `KeyPath` |
| Packet framing | `src/trezor/usb.cpp:63-94, 213-249` | packet buffer, message read so far | `send_message`, `send_buffer`, `read_message` | `Framing`, `PacketChannel` |
| Password prompt | `src/password.cpp`, `src/main.cpp:254-259` | terminal settings, pending line, password | `do_password`, `password_prompt`, the pause | `PasswordPrompt` |
| Wire codec | `src/wire/`, `src/wire/protobuf/` | writer: depth, id and stream of each level; reader: rest of each open object | `to_bytes`, `from_bytes` with everything they call | `Varint`, `ProtobufWriter`, `ProtobufReader`, `Wire` |
| Messages | `src/trezor/common.*`, `src/trezor/crypto.*` | none | fields and their numbers | `Messages` |
| Byte slices, streams | `src/byte_slice.cpp`, `src/byte_stream.cpp` | reference-counted storage, buffers that grow | allocate, append, take, share, release | `ByteStream`, `ByteSlice` |
| SHA-256 | `src/crypto/sha256_cp.c` | byte count, 64-byte buffer, digest | init, update, final, and all in one | `Sha256`, `HashUsers` |
| BIP-39 encoder | `src/crypto/bip39/encoder.cpp` | none | `encode` | `Bip39`, `HashUsers` |
| Known devices, endpoint choice | `src/trezor/usb.hpp:40-43`, `src/usb.cpp:163-171`, `src/trezor/usb.cpp:254-285` | tables, descriptors | `select` | `Interfaces` |
| USB transfer | `src/usb.cpp:92-148` | bytes left | `read`, `write` | in `PacketSession`: a whole packet, or failure |
| expect | `src/expect.hpp` | code, storage of a value | constructions, assignments, moves, destruction, comparison | `Expect`, `Result` |
| error, logger, traits | `src/error.*`, `src/logger.*`, `src/wire/traits.hpp` | | | none |

**How they interact.** `main` parses the command line, asks for the existing
password if told to, and calls `usb::run` until a device is found. `usb::run`
takes a snapshot of the bus, opens the first device that a known vendor matches
and runs `trezor::usb::run` on it with the interface claimed. That function
is a dialogue of whole messages: each message is encoded by the wire codec into a
byte stream, which becomes a byte slice, which is cut into 64-byte packets. A
reply is put together from packets and given to the handler of its message id;
the handlers of the prompts ask the person on the terminal and send the answer
from inside `read_message`. The secret returns to `main`, which takes a slice of
it, encodes it in the chosen format and prints it in one write.

**What is hard here.** macer is one thread, so the concurrency is with its
environment:

- The host, the device and the person take turns that nothing enforces. A read
  has no timeout (two sides that wait for each other hang), a write has one
  (a message may arrive although the run failed).
- The device outlives the process. Killing macer, unplugging or a write timeout
  leaves replies in the device's queue or prompts on its screen; the next run
  sends Initialize and takes whatever comes first as the answer. Replies carry
  no request identifier.
- The same happens inside a message: a run that dies between two packets leaves
  the device waiting for the rest, or the rest of a reply in the queue.
- The terminal is shared by successive prompts, and what is typed early or on
  the same line is read by a later one.
- Output is buffered, and every one of the exits of `main` and of the USB code has to
  leave the right things printed, closed and freed.
- The codec, the framing, the streams and SHA-256 have boundaries: the last
  packet, the last byte of a varint, the deepest level, the last block.

**What makes each component correct.** Session: a printed password is the one of
its identity and passphrase and its owner approved it; runs end. Framing: a
queue of whole messages. Prompt: answers come from what was typed to the
question, and the terminal is restored. Main: the shape of the output, no
secret after a failure, resources released. Command line: nothing given is
dropped. Codec: what is written is the encoding of the message, what is read is
what an encoding says, nested objects stay inside their parent. Slices: exact
reference counts, immutable bytes. SHA-256: the padded blocks of the standard;
its users: a phrase, and a path, that hold every bit of what they are made from.
expect: each object is a value or an error, and destroys its value once.

## The modules

### TrezorSession, PasswordService, MCTrezorSession

`TrezorSession` is `trezor::usb::run` at the granularity of messages. `phase` is
the place in `run` ("initialize", "status", "request", "peerKey", "ecdh", "secret",
"returned"), `handler` the prompt handler running inside `read_message`,
`toDevice` and `fromDevice` the USB queues, and the device's variables (`waiting`,
`job`, `locked`, `cached`, `protection`) its dialogue. There is one action for
each write, for each kind of reply in each handler, and for each answer of the person; the device
is modelled from what the code relies on (external). `Kill`, write timeouts and
unplugging are faults, counted up to `MaxFaults`; a new run starts on the queues
and the device the last one left. A key is named by what it was derived from, so
that "the right password" is an equation. `entered`, `approved` and `clean` are history:
the passphrase typed in this run, the key the owner approved last, and whether the
run is clean, that is, began with nothing under way between the two sides and was
not interrupted since. An earlier run may have been: what counts is whether it
left anything.

`PasswordService` is the promise: a run ends with nothing, or with the key of its
identity and typed passphrase that the owner approved. `ImplementsService` is the
refinement, with the mapping in `TrezorSession`. It is a promise for some runs only
(`Promised`): those that are clean, after any number of faults, and every run while there
was at most one fault. Their password is mapped to itself, that of any other run to
nothing, so nothing is claimed of it; the run `session_stale` shows what it may be. Since a
second fault can end the promise of a run that is over (the device is unplugged after it),
`PasswordService` may `Forget` a password then.

### Framing, PacketChannel, MCFraming

`Framing` has both loops with the packet's bytes: the first packet of a message
("?##", id, length), continuation packets, zero padding, the reused buffer, and a
reader that may die between two packets or meet a stray one. `PacketChannel` is a
queue of messages that are received as sent, in order, at most once.
`Unambiguous` says of the bodies that none has "##" at the beginning of a continuation
packet: a reader that starts in the middle of such a message takes the rest for a
message of its own, and the protocol cannot tell them apart. It is an assumption of
the refinement theorem, and `MCFraming` checks it of the bodies of the run.

### PacketSession, MCPacketSession

The layer between the two: sessions whose runs die between any two packets. A
message is its kind, whether the present run sent it or caused it, and a number
of packets; the contents are those of `TrezorSession`, the bytes those of
`Framing`. `unwritten` is what `send_message` still has to write, `reading` what
`read_message` has collected, `device` the same on the device, which collects
packets as `read_message` does and passes over one that continues nothing
(external). `Kill`, `WriteTimesOut` and `Unplug` are the faults; `GiveUp` is the
person who interrupts a run that hangs. `debt` counts the packets interrupted
messages lacked, `spoiled` the runs that failed without a fault of their own:
`DamageIsBounded` says the second never exceeds the first.

The module also shows a limit of the protocol, which is why `OwnAnswer` speaks of
one fault: after two, a whole reply may be left over, and then every run may
return the answer to the request of the run before, for ever.

### PasswordPrompt

One terminal: `line` is what the driver edits, `input` what it has passed on, and
each character carries the question it was typed for. The program's actions are
those of `do_password` (switch echo off, read a character, restore),
`password_prompt` (confirmation) and the pause of `main`. The person may do
anything; `habits` records what macer does not provide for (typing ahead of the
program, typing up to the limit, ending the pause with another key than Enter),
and each property names the habits it tolerates.

### Arguments, Interfaces, Macer, Program, MCProgram

`Program` is `main` as a whole. It composes two instances: `Arguments`, the
handlers of the options, with its `prog` the command line as parsed so far (`parsed`); and `Macer`,
what `main`, `usb::run` and `open_and_run` do with it. `Begin`, the end of the
loop over the arguments, gives `Macer` its `prog`. `wanted` records what the accepted command line asked for,
so that `OutputAsAsked` relates the first argument to the last byte printed.

In `Macer`, `pc` is the place, `ports` what is attached (changes at any time),
`list` the snapshot, `stdout` the buffered output. A device is its vendor,
product and descriptors; `Interfaces` holds the tables of the devices macer knows
and `usb::select`. A session ends with any outcome `TrezorSession` has, including
secrets of 32, 33 and 64 bytes. `SessionEndpoints` says nothing of interfaces
with other endpoints than interrupt endpoints: the mask in `select` lets bulk and
isochronous ones pass.

### Varint, ProtobufWriter, ProtobufReader, Wire, Messages, MCWire

`Varint` is the encoding of numbers, with the width of the type and the size of
a byte as constants. `ProtobufWriter` has the level, the ids and the streams of
`protobuf_writer`, one action per call; `ProtobufReader` the source and a span
per open object, one action per field. `Wire` extends the reader and has an
instance of the writer, `Out`: what one has written, or anything else, arrives at the other.
`Messages` has the schemas of `src/trezor/common.*` and `src/trezor/crypto.*`. `MCWire` holds a
reference definition of the encoding and of decoding (recursive, hence not in a module with proofs), the
messages of the code, and byte strings nobody encoded.

### ByteStream, ByteSlice, MCByteSlice

A heap of blocks with a count and bytes. `ByteStream` has growing, appending,
taking the buffer, and the failed allocation; `ByteSlice` adds the slices: from a
stream, clone, `take_slice`, `get_slice`, `remove_prefix`, assignment,
destruction and the shrinking that may move a block. A slice that lost its bytes keeps the
pointer behind them, as in the code (`src/span.hpp:94`), although `src/byte_slice.hpp:140` says
that `data()` is null then; nothing reads through it, since the size is 0. The sizes of the
spans a slice is made from are assumed to add up to a `size_t`: the `throw` for the case that
they do not (`src/byte_slice.cpp:165`) is left out. `text` and `content` are history.

### Sha256, Bip39, KeyPath, HashUsers

`Sha256` is init, update with any chunk, final. The compression function is
abstracted to the list of the blocks it is given; an uninitialised byte has its
own value, so that padding made of old bytes would show. `Bip39` and `KeyPath`
have the bits of the words and of the key's path, told apart by their places.
`HashUsers` composes them: `bip39::encode` and the path of `trezor::usb::run`
use a hash object that earlier uses left in any state, and the phrase and the
path are compared, bit by bit, with what the standard (BIP-39, SLIP-13's purpose 17)
puts there.

### Expect, Result

`Expect` is `expect<T>`: a code, and storage in which a T is constructed and
destroyed by hand. Objects are constructed, copied, moved, assigned and destroyed in any order, copies may throw; `alive` counts the
Ts. `Result` is the promise: each object that exists is a value or an error, it is made
once, from what its constructor is given, and changes only when it is assigned, moved from,
has its value taken or a copy fails on it. A refinement alone would not notice an assignment
that does nothing, which is a stutter, nor one that takes the result of a third object: both modules
therefore have the history variable `called`, which names the last call, its object and its
operand (the other object, the value or the code), and a call of `Expect` must do what the call of
the same name does in `Result`.
`expect<void>` is the case of a T with one value.

## The runs

| Run | Question | Bounds, and why they are enough |
|---|---|---|
| `session` | Are the passwords of clean runs right and approved, in every order of prompts? Does a clean run leave the next one a clean start? Is one fault harmless? Do these runs implement the promise of `PasswordService`? Is `Lockstep` invariant? | 2 identities, 2 passphrases, 5 runs, 2 faults: two interrupted runs, one that suffers from them, one that finds what that one left, and a clean one after it. Two values tell "mine" from "other" |
| `session_faults` | Can host and device wait for each other? Does every run end? | 3 runs with 3 faults: every run may be interrupted |
| `session_stale` | (violation) Is a printed password always confirmed? | 2 faults: two interrupted runs and a victim |
| `framing` | Do packets carry a queue of messages? | Packets of 11 bytes: 2 bytes of data in the first, 10 in the others. Bodies of 0, 2, 3, 12, 13 and 23 bytes lie on both sides of each boundary; one id needs two bytes |
| `packets` | What does a run that dies inside a message do to the next ones? | Messages of 1, 2 and 3 packets each way; 3 faults, in any of any number of runs: two interrupted messages in a row and an interrupted recovery |
| `prompt` | Does each prompt get its own answer, unseen? Is echo restored, is every question over? | 2 questions (a confirmation is two), lines of at most 3 characters, a password of at most 3: lines reach the limit; every habit |
| `prompt_anykey` | (violation) The same with "any key" | As `prompt`, with lines of 2 |
| `program` | Does the output match the command line? What is released, which device and which endpoints are used? | Command lines: all of 3 words, and all of 4 whole options, so that every format meets every other option in every order. 2 ports, 3 changes of the bus: a device that comes after the snapshot and one that goes during it. 3 devices: the interface second with a debug interface behind it, no interface, unknown product |
| `wire` | Is writing exactly the encoding and reading exactly its inverse, and refused otherwise? | Bytes of 5 bits (4 of them data), tags of 7 and sizes of 9 bits: the last byte of a number has room for only some of its bits, as with 7 of 8 bits and 32; 4 levels instead of 100 |
| `memory` | Are counts exact and bytes immutable, also when allocation fails? | 3 blocks, 2 streams, 2 slices (3 symmetric sets): sharing, moving and growing at once |
| `phrase` | Are the blocks those of the standard, and the phrase and the path made of the right bits? | Blocks of 8 bytes with a length of 2; messages of up to 33 bytes, so that every size `encode` accepts, and those next to them, occur; 2 hashes reuse the object |
| `expect` | Is each value destroyed once? Does each call hand on exactly the value or the error it names? | 3 objects (a source, a target, a bystander), 2 values, 2 errors, 2 codes of value 0 |

Deadlock is checked in `packets` and `expect`, which never stop. It is switched off in the
others: the program ends there (`returned` with no runs left, `exited`,
everything written and read), and that is meant. What must not stop early is stated as a
property instead (`NoMutualWait`, `RunEnds`, `EverySentArrives`, `QuestionEnds`,
`AttachedIsFound`).

### Fairness

- `session_faults`: weak fairness of the host's steps (the code never pauses
  except in a read or a prompt), of the device's replies, and of the person at
  the keyboard and at the device. None for starting a run, and none for faults. Without a person
  who reacts a run does not end, and the code does not claim it.
- `framing`: the writer finishes a message it began and the reader does not
  pause; both are plain loops. Nothing forces a message to be sent, a fault or a
  process to die.
- `packets`: the host's and the device's steps, as above; the person interrupts a
  run that hangs and runs macer again. `Recovers` needs the last two: the code has
  no timeout and no retry.
- `prompt`: the program's loop, and a person who began a line sooner or later
  presses Enter.
- `program`: the steps of `main`, which include the person answering its questions.

### Disagreements found

- `session_stale`. `README.md:5` says the identity is shown on the device for
  verification before the password can be generated. `run` accepts the first
  reply that is not an error as the status and the first reply with bytes as the
  key or the secret. Two interrupted runs can leave two replies in the queue; the third run then
  takes a public key for its secret, 33 bytes pass the size check of `main`, and
  it is printed although nobody confirmed anything. With one fault this cannot
  happen, however many runs follow (`OneFaultCorrect`), and a clean run is right after
  any number of them (`ConfirmedCorrect`).
- `prompt_anykey`. `src/main.cpp:254` says "press any key when ready". The terminal
  is in canonical mode and `getchar` takes one character, so after any key but
  Enter alone the rest of the line answers the next prompt.

## The proofs

`TrezorSession_proofs`, from `ConstantsAssumption` only, so for any number of identities,
passphrases, runs and faults:

- `TypeCorrect`: `Spec => []TypeOK`. `TypeOK` is inductive with `TypeInv`, which
  bounds what the host and the device may put into a message.
- `LockstepCorrect`, and from it `PasswordCorrect`, `ConfirmedCorrect` and
  `CleanCorrect`: the password of a clean run is the right one, its owner approved
  it in that run, and the run leaves nothing behind, so that the next one is clean too.
- `OneFaultCorrect`: `Spec => []RightAfterOneFault`, for any number of runs after the
  fault.
- `Refines`: `Spec => ImplementsService`, for the runs that are `Promised`. It takes
  `Lockstep` and `RightAfterOneFault` at the step that returns, and that a run that loses its
  promise while it is in progress ends with nothing.
- `AwaitedCorrect` and `NoMutualWaitCorrect`: in every run, clean or not, what a reading
  host waits for is under way or its owner is being asked, so that host and device
  never wait for each other.

`PasswordIsCorrect` is not inductive: it speaks of the last step, and a
state with a wrong reply in the queue satisfies it. The strengthening `Lockstep` says that in a
clean run there is at most one message between the two sides,
and that it is the one the phase of the host and the dialogue of the device call
for (`WireInStep`); that the device's session has the passphrase typed in this run
(`WalletInStep`); that `peer_key` is the public key of this identity in that wallet
(`PeerInStep`); and what the result then is (`ResultInStep`). TLC checks the same
`Lockstep` in `session`. The step proof has a case for each action of the host
and of the device; the helpers they share (sending, replying, refusing,
proceeding, receiving, taking) have a lemma each. `Awaited` cannot use it, since after
a fault there may be any number of messages. It looks at the last one only: behind
it the other side has nothing left to do, and it is of a kind that gets an answer, or is one.

`RightAfterOneFault` speaks of runs that are not in step, so it needs what they are
instead. `Trailing` says what one fault leaves, and for how long. Either one
request or answer of the interrupted run is left (`OneLeft`), or an answer is that is in front
of the status (`InFront`), or the next run has started on it
(`Restarting`). If that run takes an old answer for the status, it is one
answer behind from then on: it takes the features for the key it asked for (`Late`), and
these have no bytes. If it meets an old prompt, the device
refuses what comes in the wrong order, and the run ends with the refusal (`Refusing`,
`RefusingRequest`). Each of these ends in a state that is in step again or has one
message left once more, and none of them returns a password.

`PacketSession_proofs`, from `PacketAssumption`, for messages of any number of
packets and any number of faults between any two of them:

- `HangsCorrect`: `Spec => []HangsInsideCutMessage`.
- `DamageCorrect`: `Spec => []DamageIsBounded`.
- `OwnAnswerCorrect`: `Spec => []OwnAnswer`, for one fault and any number of runs after it.

What makes it hard is that a queue may hold cut messages, each followed by others. `Leads(a, q,
b, whole)` says that the packets of `q` take a reader from the place `a` to the place
`b`; a place is what the message at hand still lacks, and how many packets the messages before
lacked and how many of them were failures. The host's queue leads the device to where the host
stopped writing, and the device's queue leads the host to where the device stopped
replying. `Awaited` and `Asked` are why a read is answered: unless the device is
inside a message, or has one in front of it, something is in the queue of the host. `Afforded` is the account
behind `DamageIsBounded`: the runs that failed already, together with the packets
that are still to be missed in both queues and in the device, never
exceed the debt. Each action moves packets from one item of the account to another.

`OwnAnswer` is about the state in which a run returns, and says nothing of the runs between the fault
and that state. `OneFault` is what is true in all of them, and one of two things. `CutShort`:
the fault has cut the write of a message, and the packets written since complete it before the
device meets a whole one. Nothing is on its way back, and what completes the message damages it:
its answer is a failure, which ends the run. Or `Orderly`: every message in the queues is whole
(`Aligned`), and the last one is what the host waits for (`Wanted`), on its way to the
device, in the device, on its way back or with the host (`Latest`); up to the status after the
fault the message in front may be of any kind, or be only the end of one
(`Trailing`). The messages before the last are requests for the status, or its answers,
of runs that came to nothing (`Older`), which a host that has had its status passes over.
Before the fault there
is at most one message at all (`Clean`), so that only one can be cut or left behind; that is
where a second fault breaks the argument.

`Framing_proofs`, from `FramingAssumption`, for packets of any size and any set of
messages:

- `HeaderRoundTrip`: `read_message` gets back any 16-bit id and any 32-bit length that
  `send_message` put into a header. TLC sees the few ids and lengths of `MCMessages`, the
  theorem all.
- `PaddingCorrect`: `Spec => []PaddingIsZero`.
- `Refines`: if `Unambiguous`, `Spec => ImplementsChannel`. `Chain` is the invariant:
  each packet of the wire has what is left of a message at its place, and between
  two messages the channel has one less. `Unambiguous` is what tells a first packet
  from one of the others, so that a reader that finds itself inside a message skips
  the rest of it.

`Libraries_proofs`, the codec, from `ReaderAssumption` and `GroupAssumption` (integer types of any
width, any number of bits in a byte, objects nested to any depth):

- `SpansCorrect`: `WireSpec => []SpansNest`, for messages of any size, fields that are
  `WellFormed` (what `to_bytes` can be called with) and any bytes in place of those
  written. `ReaderInv` says that the source is bytes and that a reader
  that is reading has a span; that each object lies inside its parent is kept because whatever is read
  next (a tag, a number, a string, a skipped field) ends inside the span it is read from
  (`KeyEnds`, `NumberEnds`, `BytesEnd`, `SkippedEnds`) and every enclosing span shrinks
  by the same bytes (`AdvanceKeeps`). `WriterInv` says that the streams of the
  writer hold bytes.
- `VarintRoundTrip`: what `write_varint` makes of a number, `protobuf_uvarint` reads as
  that number, whatever comes behind, from exactly those bytes, if the type has room for
  it. `LeftFor` is the invariant of the loop: at byte i, the value added up so far and 2 to
  the power of the shift times what is left make the number. That nothing is refused follows
  from the same equation: the bits of a byte, shifted, are no more than the number, so there is room
  for them (`TooLarge`), and a byte that is not the first and has nothing left to say is
  not written (no needless zero).

`WriteVarint` and the library's `FlattenSeq` and `MapThenSumSet` are recursive functions, of which the
prover knows only the definition. `LeastNumber` takes the place of induction: the
least number for which a claim fails is not 0 and follows one for which it holds. It shows
that such a function exists and is unique (`SumExists`, `MadeExists`, `MadeAlike`), and then that
the order of the additions does not matter (`SumSteps`). The prover knows nothing of `^`
either: that the powers of 2 up to `SizeBits` are numbers is part of `ReaderAssumption`, and
`PowersOfTwo`, the two equations that define them, is a hypothesis of `VarintRoundTrip`.

`Libraries_proofs`, expect, from `ExpectAssumption` (finitely many objects, any values and
errors): `ValuesCorrect`, `Spec => []EachValueDestroyedOnce`; `Refines`, `Spec
=> ImplementsResult`; and `EqualCorrect`, `Spec => []EqualIsSameResult`.
`EachValueDestroyedOnce` together with the types is
inductive. `Balance` does the counting once for all steps: a step that
gives or takes the value of one object changes `alive` by what it changes the set
of holders. `ResultStep` shows of each operation that it is the step of `Result` that its
name and operand ask for.

`ByteSlice_proofs`, from the assumptions on sizes, for any number of blocks,
streams and slices: `CountedCorrect`, `ImmutableCorrect` and `StreamCorrect`, the
three invariants of `memory`. `Valid` is their common strengthening: each block
of the heap belongs to one stream, or has as many slices as it counts; each slice
with bytes lies inside a block that holds its text; each stream has a buffer of its own with
what was written to it. In the middle of an assignment the count of a block includes a temporary;
`Valid` therefore has one anonymous holder more, and each operation is composed of a
few changes that keep it (a holder more or less, a block freed, a buffer
handed over), with a lemma for each.

`Program_proofs`, from `ProgramAssumption`, for any values and command lines, devices,
ports and changes of the bus:

- `ReleasedCorrect`: `Spec => []ReleasedOutsideSession`. It is inductive by itself:
  whatever a step is, it leaves `usb::run` only through `LeaveUsb`.
- `MeaningCorrect` and `ValuesCorrect`: `NewFormatFixesMessage` and `EveryValueCounts` always hold. Both
  speak of an accepted command line only; `Counted` says what is true of the options
  handled so far, `ParserInv` that `struct program` records them. That the phrase
  cannot come from the command line itself is an assumption on `Values`.
- `OutputCorrect` and `FailureCorrect`: `OutputAsAsked` and `FailurePrintsNoSecret`
  always hold, whatever the size of what the device returned. `PrintInv` carries what
  stdio holds through `main`: nothing, then the old password if one is asked for,
  the same until the end. It also relates the command line to `prog`
  (`Understood`) and the secret to the format, from the cut until it is written.
- `EndpointsCorrect`: `Spec => []SessionEndpoints`, for devices with any number of
  interfaces, settings and endpoints. `DeviceInv` carries what the scan has passed over
  and what `select` found from the list to the session.

`HashUsers_proofs`, from `ShaAssumption`, for any size of block and of the length
behind the padding, and any number of messages of any size:

- `DigestedCorrect` and `UsersDigested`: `Digested` always holds, of `Spec` (chunks of any sizes) and
  of `UsersSpec`. `Streaming` is what it needs: while a message arrives, block k and
  the beginning of the buffer have exactly its bytes from where that block starts. `Quotient` (there
  is one quotient and one rest) says which block a byte belongs to after a chunk, and
  `Zeros` how many zeros the standard asks for, with the three ways the end of a message may
  lie in its block. `Standard` and the blocks are compared piece by piece (`InPieces`):
  joining the blocks would need induction over their number.
- `PhraseCorrect`: `UsersSpec => []PhraseIsStandard`. `WordsSoFar` is the invariant of the loop;
  `Sizes` and `IndexType` say that no word asks for a bit behind the checksum.
- `PathCorrect`: `UsersSpec => []PathKeepsDigest`, from the bits of the five numbers
  (`Numbers`).

`PasswordPrompt_proofs`, from `PromptAssumption`, for passwords, lines and numbers of
questions of any size: `EchoCorrect`, `ScreenCorrect` and `AnswersCorrect`, the
three invariants of `prompt`. `EchoRestored` needs the converse, that the echo is
off whenever a password is read (`Switched`). With it, a person without habits never
has a line half typed, and what is shown is no part of an answer (`ScreenInv`).
`OrderInv` is the argument about the shared input: what can be read answers the
question on the screen (`Own`), Enter is the last of it (`EnterIsLast`), between two
questions nothing can be read (`Blocked`), and what is typed and kept together is
shorter than the limit, so that `Full` cannot end a question early (`Short`, `Few`).
Nothing behind an end of the input counts: no read gets past it (`Open`).

Only model-checked:

- Liveness under fairness, out of the prover's reach: `RunEnds`, `EverySentArrives`,
  `QuestionEnds`, `Recovers`, `AttachedIsFound`.
- `WritesExactly`, `ReadsExactly` and `RoundTrip`. They compare the codec with the grammar
  of `MCWire`, whose operators are recursive, and the prover has no theory of such operators.
  What the proofs add to them is below the grammar: the numbers (`VarintRoundTrip`) and
  the extents (`SpansCorrect`), for all sizes.

## What is not modelled

- SHA-256's compression and the list of words: data and arithmetic with nothing
  to interleave. A word is the bits of its index.
- The loop of `transfer` around libusb's partial transfers (`src/usb.cpp:99-109`): a
  transfer moves a whole packet or fails. What a device does with half a packet
  is not known here.
- The alternate setting of the interface: nothing activates the one `select`
  chose; the devices have one setting per interface.
- Parts no caller reaches: `byte_slice::take_buffer`, the operations of the codec
  that only throw.
- The terminal after a signal during a prompt: `do_password` installs no handler
  (`src/password.cpp:72`), and what the shell restores is outside the repository.
- Logging, the texts of errors, traits, build files.
- The configuration descriptor `open_and_run` asks libusb for (`src/usb.cpp:78`): the
  code never gives it back, so `ReleasedOutsideSession` speaks of the list, the
  handle and the interface only.
- libusb, the terminal driver and the firmware are outside the repository; they are
  modelled as environment, from how the code uses them.

## Order of the modules

Session first (it carries the program's promise), then
framing below it and the packets between them, the prompt and `main` around it, then the libraries
(codec, slices, hash, expect). Every safety property that a run checks is proved,
except the three of `MCWire` above. What could be added is a theorem about a whole
message: that the reader gives back each field that the writer was given. It would rest on
`VarintRoundTrip` and on the grammar stated as a function of the depth instead of a
recursive operator.
