# logger-huffman: a verification project

TLA+ models of *logger-huffman*, a C++ library that collects the LoRaWAN frames
of temperature loggers, decodes them, and hands completed measurements to a
database as SQL. This directory holds the modules, the TLC configurations that
check them on small instances, and proofs checked by TLAPS. All line numbers
refer to the repository.

## 1. Inventory

A *plume* ("kosa") is a string of up to 28 thermometers with a logger. It is named
by a serial number and a production year. A measurement is sent as several frames
of at most 24 bytes: a *first* frame (types 4a plain, 48 delta, 4c Huffman), which
carries plume, year, measurement and number of frames, and *next* frames (4b, 49,
4d), which carry the plume's serial number, the measurement and the number of the frame, but
not the year.

| Component | Files | State | Operations | Interacts with |
|---|---|---|---|---|
| Frame formats | logger-huffman.h/.c, platform.h | none | extract headers, convert temperatures and differences | used by all |
| Plume collector | logger-collection.h/.cpp | `koses`, a vector of `LoggerKosaPackets` (id, start, header, items, expected count); during a call a temporary `LoggerCollection` | `put`, `add`, `addHeader`, `rmExpired` | base loader (callback by address), clock |
| Pointers and loaded bases | logger-collection.h/.cpp | `item.collection`, `packets.plumePackets`, `baseKosa` | copy constructors, assignments and destructors that `push_back` and `erase` call; `loadBaseKosa`, `updateKosaAfterCopy` | collector, reading, base loader |
| Row of an entry | logger-collection.cpp | none | `toStrings`, lists of values | reading, SQL clauses |
| Reading of sensors | logger-collection.cpp | the items of an entry, the loaded base | `get`, `getTemperature` | codec, collector |
| Parser interface | logger-parse.h/.cpp | a collector and a passport descriptor | `loggerParsePacket(s)`, `loggerSQLInsertPackets`, `loggerRemoveCompletedOrExpired`, `flushLoggerParser`, `doneLoggerParser`, `loggerParserState` | collector, SQL clauses |
| Program around it | README.md:89-121 | none of its own | receive, save, remove, finish | parser interface, radio |
| Huffman codec | util-compress.h/.cpp | a bit writer/reader, a tree | encode and decode buffers, streams, logger frames | builder, reading |
| Frame builder | logger-builder.h/.cpp | frames under construction | `build` (plain), `build` (delta), `buildHuffman` | codec, formats |
| SQL clauses | logger-sql-clause.h/.cpp | none | text of tables and rows | parser interface |
| Base loader | logger-collection.h, dumb-logger-loader.* | the base measurement | `load` | collector |
| Measurement time | logger-huffman.c, logger-collection.cpp, strptime.cpp, util-time-fmt.cpp | `measurementHeader` of an entry | `setHdr`, `assign`, `measured`, the difference of two headers and its way back; parsing and printing of dates | collector, base loader, SQL clauses |
| Passports, argtable3 | third_party | external | | |
| Command line tool | logger-huffman-print.cpp | options | one put, one output | all |

What makes each correct:

* *collector*: a plume has one entry; an entry holds frames of its plume only, in
  the order they came, each once; `completed()` means that a whole measurement is
  there; what is completed is saved before it is removed; memory is freed.
* *codec*: decoding gives back what was encoded; the bits that fill up the last
  byte never decode.
* *pointers*: whatever the vector moves, what an item is read through is its own entry;
  a loaded base has one owner.
* *headers*: voltages and time of day arrive as measured, and what is measured later is
  dated later.
* *database*: the base measurement that is asked for comes back as it was received.
* *builder and reading*: the first frame says how many frames there are; no
  frame exceeds 24 bytes; whatever the order of arrival, a sensor's value is the
  one that was measured.

What is hard: the library is sequential, with no locks; the difficulty is in the
*environment* (frames lost, repeated and reordered, several loggers at once, the
clock that advances between two calls or between two iterations of a loop,
saving and removing as separate calls) and in *numeric edges* (bits across
bytes, padding, frames that are not full, counts rounded twice). `PROJECT.json`
lists every hazard with its line.

## 2. Modules

| Module | Models | Extends |
|---|---|---|
| `LoggerHuffman` | frame types, header fields, plumes | |
| `LoggerKosaCollector` | the vector of plumes; `put()` and `rmExpired()` | `LoggerHuffman` |
| `PlumeMap` | abstract: a map from plumes to items | |
| `LoggerParse` | the C-style interface: save, remove, flush, close | `LoggerKosaCollector` |
| `LoraGateway` | loggers, radio, and the user's program | `LoggerParse` |
| `BaseTable` | the rows in the database, the query for a base measurement, and the parsing of its answer | `LoraGateway` |
| `KosaStorage` | where entries are, whom pointers refer to, and who owns a loaded base | |
| `MeasurementHeader` | time and voltages of a measurement, from the logger to the row | |
| `HuffmanTable` | the codewords and the padding | |
| `HuffmanCode` | abstract: encoding and decoding of bits | `HuffmanTable` |
| `UtilCompress` | util-compress.cpp: byte buffers, masks, tables, tree | `HuffmanTable` |
| `LoggerBuilder` | the frames of a measurement | `HuffmanTable` |
| `LoggerItem` | their arrival and the reading of sensors | `LoggerBuilder` |
| `KosaRow` | the row a plume becomes: lists of values by place | `LoggerItem` |
| `LoraGatewayProofs` (collector, its refinement of `PlumeMap`, and gateway), `BaseTableProofs`, `KosaStorageProofs`, `MeasurementHeaderProofs`, `HuffmanCodeProofs`, `UtilCompressProofs`, `LoggerItemProofs` (builder, reading and row) | theorems | the module proved about |
| `SequenceLemmas` | lemmas on the operators of the community modules: least and greatest elements, sums over sets, flattened sequences; induction | |
| `MC*` | small instances for TLC | |

Definitions whose comment begins with `Mutant:` stand for a plausible bug; no
specification uses them. Replacing the definition that follows one of them by
it makes TLC refute the property named in `PROJECT.json`.

### The collector (`LoggerKosaCollector`)

`koses` is the vector, `capacity` its capacity (libstdc++'s doubling), `values`
the frames of the running `put()` still to be decoded, `c` and `mhs` the
temporary collection and the headers, `loop` and `it` the loop over `koses` that
runs and its iterator. An action is one iteration of a loop of the code:
`PutFrame` (`LoggerCollection::put`, `put1`, `putRaw`), `AddItem`
(`LoggerKosaCollector::add`), `AddHeader` (`addHeader`), `RmExpired`. Between two
actions of a call only the clock (`Tick`) may move, as the library is not
re-entrant. `Matches`, `Find`, `getFirstHeader`, `getKosaYear`, `Add` follow the
functions of these names with all their early returns.

Two details of the code are kept because they matter. `push_back` reallocates with
the copy constructor of `LoggerKosaPackets` (1854), which leaves
`expectedPackets` behind; `erase` moves entries by assignment, which keeps it. And
after `push_back` the code takes `&koses[0]` for the new entry (2260).

Abstractions: payload bytes are left out, a frame is well formed, one string given
to `put()` is one frame, and a RAW value is one buffer. `kosa_year` and `packets`
in the record of a *next* frame are the truth that properties compare with; no
operator that stands for code reads them. `age` counts ticks since `start` and stops once expired. An
uninitialised `kosa_year` (the constructor at 502 leaves it unset, `putRaw` uses
it) is any member of `JunkYears`.

### The gateway (`LoraGateway`)

The loop of README.md:89-121. `air` holds, for each logger, the frames sent and
not received; the radio delivers up to `MaxBatch` consecutive frames in one call,
loses, repeats (up to `MaxRepeats`) or reorders them, as far as the constants
allow. `saved` is TRUE between `loggerSQLInsertPackets()` and
`loggerRemoveCompletedOrExpired()`; `OtherThread` lets whole calls come in
between. These actions are not in the repository as code (the README prints
them) and are marked external in the map.

### The database (`BaseTable`)

`BaseTable` adds what follows saving: a clause that `loggerSQLInsertPackets()` returns
becomes a row of `table` (the program executes it in the same iteration), `Ask` is
`loggerBuildSQLBaseMeasurementSelect()` and its answer `value`, padded with blanks or
not, and `ReadGap`, `ReadByte` and `EndOfValue` are the iterations of `readHex()` and of
`loggerParseSQLBaseMeasurement()` around it. A character is a blank, or a digit known by
its frame and its place in it, so that a packet that is cut, run into the next or out of
step by one digit shows. The address of a row is the one its frames came from: the library
leaves it to an extra value of the program. `Ask` waits until the answer would be another
row, which only bounds the model. `LIKE '4a%'` looks at the first frame of the row.

### Pointers (`KosaStorage`)

An address is a block of memory and a place in it; `block` is the block the vector
occupies, and 0 stands for the stack of `add()`. An entry holds the pointer of each item,
its own `plumePackets` and its `baseKosa`; `heap` says for which plume a base was loaded,
or that it was deleted. `push_back` with and without room (`PushInPlace`,
`PushReallocating`) copies with the copy constructor (1854), which renews
`plumePackets` and leaves `baseKosa` behind, but copies items with their pointers;
`updateKosaAfterCopy` is applied to the first entry, as at 2260. `Erase` assigns member
by member, where `LoggerItem::operator=` (683) keeps the pointer of the item it writes to,
unless the vector of items has to grow, which any of them that gets longer may do. `Get` follows the pointers as
`getByDiff()` does; it happens only if they lead to living entries, for what a destroyed
object holds cannot be modelled. Which frames belong to which plume is the matter of
`LoggerKosaCollector`, and items are those of differences, the only ones that are read through
their pointers.

`shifted` records that an entry was erased in front of another. The three invariants hold
until then; after it TLC finds each of them violated (the list below).

### Time and voltages (`MeasurementHeader`)

`header` is the header the entry of one plume keeps, `sent` the measurement last
received, `base` what the loader gives, with what the logger had sent then. `PutRaw`
copies the header (`add`), `PutPlain` makes it go through `setHdr`, `mktime`,
`localtime` and `assign` (`addHeader`), `PutDelta` and `PutHuff` add the differences
`HDR_delta` to the base header first, with the wrapping of `int8_t` and `uint8_t`. For
a Huffman header the code reads the differences from a string that was freed (1591):
they are the true ones or any of `FreedDiffs`. How a logger takes the difference is
`LOGGER_MEASUREMENT_HDR_delta()`, the library's own; the frame builder writes constants
instead (see below). `mktime` and `localtime` are the C library's: a calendar from
2000 with leap years, a zone without summer time, days, months and seconds that carry
over. A `time_t` is a day and a second, so that numbers stay below 2^31.

### The codec (`UtilCompress`, `HuffmanCode`)

An input of `UtilCompress` names an encoder and a decoder: `compressLogger()` with
`decompressLogger()` (two bytes are copied first), and the functions of buffers and
streams with each other. Bytes are encoded one by one into a bit buffer, the padding is
appended, and the result is decoded bit by bit through the tree, by the buffer reader or
the stream reader, which know the end differently: the encoder of streams encodes one
byte more, the 255 that `get()` returns at the end (395). `HuffmanCode` is the
same on sequences of bits and codewords. `HuffmanSpec` states that the first
implements the second, under the mapping `BitsOf`. `InputsAssumption` leaves out
`compressLogger()` of fewer than two bytes (`srcSize - 2` wraps, and the code
reads on behind its string); `LoggerBuilder` has a phase `"undefined"` for it.

### Builder, reading and row (`LoggerBuilder`, `LoggerItem`, `KosaRow`)

`value` is a measurement: temperatures, a base, which of the three functions builds
it (`kind`), and whether `HTON2` of logger-huffman.c swaps bytes (`hostSwaps`; the C++
units always swap). A frame is its header fields, its *uncompressed* data bytes, and
the bytes it takes on the air; that compression can be left out is what the theorem
`CodecRoundTrip` shows. Temperatures are exact
sixteenths of a degree. The base of the decoder is complete: sensors 0 to n - 1. `items`
are the frames that have arrived, in the order of arrival; `get` and `getTemperature`
read them, and `toStrings` makes of what they read the row that goes to the database.
`CommaString` is the loop of the two list functions, `Entry` what it prints of one sensor:
as many missed values as the sensor's number exceeds the count of values printed before.

## 3. Runs

Passing runs:

| Run | Question | Bounds |
|---|---|---|
| `LoggerKosaCollector` | does the vector implement a map of plumes? | ten batches with every packet type, serial number 28 in two years, erased year 255, lost first frames, RAW with a stray continuation, a base for one logger; 3 entries of up to 3 items before a put, entries expire after one tick. 882,000 states |
| `BaseTable` | is completed whole, whole completed, and completed saved, and saved first? does a base measurement come back from the database as it was received, and does its parsing end? | one logger of four frames of two bytes, up to two in a call, lost in any combination, every loop interleaved with the clock; answers with and without two blanks around. 5,900 states |
| `GatewayLive` | is memory freed, and are two loggers ever mixed? | two loggers with two frames each, reordered, one repeated, delivered at any time or never, also between saving and removing; the program may flush and finish. 343,000 states |
| `HuffmanCode` | does the code round-trip on bits? | all sequences of up to 3 of 5 bytes that represent short and long codewords, tags, and tags whose byte looks like padding |
| `UtilCompress` | does `decompressLogger()` undo `compressLogger()`, and do its buffers and tree implement the code? | two skipped bytes, then all pairs of the nine table bytes and four others, words of 4 and 85 of up to four bytes, and every byte value: every bit offset and every length of padding; the functions of buffers and streams on words of up to two bytes. 6,700 states |
| `KosaStorage` | do pointers and loaded bases follow the vector? | three plumes, three bases, up to three items of an entry, three blocks (capacities 1, 2 and 4). 24,300 states |
| `MeasurementHeader` | do voltages, time of day and order in time survive the header's way? | dates at the ends of months and years and seconds apart, two pairs of voltages at the ends of a byte, with and without a base. 6,900 states |
| `LoggerItem` | are frames built, do they fit, are sensors read as measured, and where do they stand in the row? | 0 to 28 sensors (0 to 17 and 20 for plain; each remainder by five occurs), differences of one and two bytes, positive and negative, both byte orders of the host, arrival in every order and of every subset. 25,800 states |

`LoggerItem` leaves out measurements for which the code is known to go wrong (first
delta frames that are not full, differences of exactly eight bits, one byte left for the
last Huffman frame): see the findings and the list after them. The bounds suffice because nothing in the code depends on numbers
beyond equality, the two special years, the vector's capacity (1, 2, 4), and the
remainders by 5, 6, 8 and 20, all of which occur. In `KosaStorage` three plumes and
blocks of one, two and four entries give every kind of step (pushed with and without room,
erased in front, in the middle and behind); the proofs show that the bounds hide nothing. In
`MeasurementHeader` the dates are the ones where something carries over (29 February, ends
of January, of months with 30 days and of December), and the voltages the two ends of a byte.

`ReadIsMeasured` says what is needed before a value can be trusted (`Readable`):
nothing for temperatures; for differences that their width is known (`WidthIsKnown`), and
for Huffman frames besides that all earlier frames have arrived. `getFirstHeader()` looks at
the first item only, so the width is known when the first frame came first, or when it is
the one byte the code assumes otherwise. Within that, order of arrival and missing frames must
not matter. `AllIsRead` asks for the same; that it must not need to is what `WidthNotFound` is about.
`RowIsInPlace` says the same of the row, as far as the code keeps it: up to the first
value after the first gap, a value's place is its sensor; what happens after that is in the list below.

Runs that TLC finds violated, each a finding in `PROJECT.json`:

| Run | What TLC shows |
|---|---|
| `GatewayTwoLoggersCompleted` | the second plume in memory is never completed (`&koses[0]`, logger-collection.cpp:2260) |
| `WidthNotFound` | a measurement of two frames of two-byte differences, the second one first: `getFirstHeader()` finds no first frame (logger-collection.cpp:1763), and with both frames there the differences are read as single bytes and belong to wrong sensors |
| `MeasuredLate` | a plain measurement of 31 December is dated 31 January: `setHdr()` gives the month as `tm_mon` (logger-collection.cpp:1487). README.md:347 prints February for a frame that the code dates in March |
| `BaseNotFound` | two frames, the second one first: the row begins with 4b and the query never finds it (logger-sql-clause.cpp:393) |

### Other disagreements met while modelling

These have no run of their own. Most can be seen with the modules as they are by changing
the constants of a run, as said in the last column.

| Where | What the code does | To see it |
|---|---|---|
| logger-collection.cpp:1225 | a next frame that arrives before its first is filed under year 0, and the plume is never completed | `BaseTable` with `Reorders = TRUE` and a `Load` that knows no plume: `ReceivedIsCompleted` |
| logger-collection.cpp:1694 | completion counts items: a repeated frame makes up for a lost one | `BaseTable` with `MaxRepeats = 1`: `CompletedIsWhole` |
| logger-collection.cpp:2263 | with two loggers, the first plume takes the second one's smaller count and is completed early | two loggers of three and two frames: `CompletedIsWhole` |
| logger-collection.cpp:1780 | next frames of two plumes with one number and two years are filed under the year of the first in memory | two such loggers: `OnePlume` |
| logger-collection.cpp:1909 | the measurement is not part of the key: two measurements of one plume become one entry | a logger that sends two |
| logger-parse.cpp:172 | saving and removing are separate; README.md:107 says "Do it in another thread", and a plume completed in between is removed unsaved | `BaseTable` with `OtherThread = TRUE`: `CompletedIsSavedFirst` |
| logger-parse.cpp:149 | `loggerSQLInsertPackets()` never frees memory, which README.md:155 says it does | read from the code: the loop erases nothing |
| util-compress.cpp:395 | `encodeHuffmanStream()` encodes the 0xff that `get()` returns at the end | `Symbols` in `UtilCompress` |
| util-compress.cpp:211 | `BitStreamReader` takes the end of an empty stream for a first byte | read from the code; the model's streams are not empty |
| util-compress.cpp:590 | `compressLoggerBuffer()` and `decompressLoggerBuffer()` write to a copy of the output buffer | read from the code |
| util-compress.cpp:471 | nine sensors: one byte of differences is left for the last frame, and `compressLogger()` encodes minus one of it | nine sensors in `HuffmanMeasurements`: `FramesAreBuilt` |
| logger-builder.cpp:53 | the first Huffman frame has the count of plain frames, whatever `buildHuffmanChunk()` produces | `LoggerItem`: `PacketsAreCounted` |
| logger-builder.cpp:253 | `setMeasureDeltaHeader()` always writes 10 seconds, and absolute values for differences of plume and year | read from the code |
| logger-collection.cpp:1010 | `getTemperature()` places next delta frames at the Huffman offset, 0 | `LoggerItem`: `AllTemperaturesAreRead` |
| logger-collection.cpp:2081 | with a frame missing, the lists of a row repeat the gap before every later sensor | `LoggerItem`: `MissedAreSubstituted` |
| logger-parse.cpp:172 | what expires between saving and removing is removed unsaved | `BaseTable`: `SavedFirst` |
| logger-sql-clause.cpp:391 | the query also returns a plume that expired incomplete | read from the code; `GivenBackIsSaved` holds of such rows, too |
| README.md:201 | prints the column `loraadr`, the code has `loraaddr` | |
| logger-sql-clause.cpp:250 | extra values are the same for all rows of one call, so an address is right only if one logger is saved at a time | the model gives each row its own |
| logger-collection.cpp:2261 | `updateKosaAfterCopy()` is called for `&koses[0]` whichever entry was pushed: the items of a second entry point to the local entry `add()` has destroyed | `KosaStorage`: `ParentsAreThere` |
| logger-collection.cpp:2227 | after erasing an entry in front of another, items and bases refer to other plumes' entries, and a base is deleted that is still referred to | `KosaStorage`: its invariants without `~shifted` |
| dumb-logger-loader.cpp:15 | the dumb loader assigns a whole entry, so the copy shares `baseKosa` with it and both delete it | read from the code |
| logger-collection.cpp:1076 | `delta_sec` is added twice, and the byte of seconds wraps | `LongestDelta` of 99 and a measurement at 15:18:38: `DeltasKeepOrder` |
| logger-huffman.c:370 | the difference of seconds is cut to eight bits: five minutes become 44 seconds, and 88 after the second addition | read from the code |
| logger-huffman.c:304 | both conversions take a month of 1..12 for `tm_mon`; differences over the end of a month are wrong by up to three days | `HDR_delta` of 31 January and 1 February |
| logger-huffman.c:305 | `LOGGER_MEASUREMENT_HDR2time_t()` takes years from 2100 on | only differences are used |
| logger-collection.cpp:1512 | `assign()` sets `pcnt` and `used` to zero, which README.md:352 prints as 25 and 2 | read from the code |
| logger-collection.cpp:1591 | differences of a Huffman header are read from a freed string | `PutHuff`; `VoltagesAreMeasured` without the exception of `"huff"` |
| logger-builder.cpp:37 | with a base of fewer sensors, the first delta frame counts frames that line 340 does not build | bases are complete here |
| logger-builder.cpp:366 | a first delta frame that is not full is resized by bits, beyond 24 bytes | five sensors in `DeltaMeasurements`: `FramesFit` |
| logger-collection.cpp:445 | differences of 128 to 255 sixteenths are sent in one byte and wrap | differences of eight bits in `DeltaMeasurements`: `AllIsRead` |
| platform.h:38 | `BYTE_ORDER` is undefined where logger-huffman.c includes it, so `HTON2` does nothing there: frames built on a little-endian host carry the low byte of a temperature first, those of loggers the high byte | `hostSwaps = FALSE`, and compare the data with README.md:347 |
| logger-collection.cpp:89 | with a Huffman frame missing, the values of the frames after it go to other sensors | `ReadIsMeasured` without `Readable` |

### Deadlock and fairness

Deadlock is checked in `LoggerKosaCollector`, `KosaStorage` and `MeasurementHeader`. Elsewhere `CHECK_DEADLOCK FALSE` is
said because the system may really stop: all frames received and the program
finished, or everything decoded.

`FairGatewaySpec` (run `GatewayLive`) and `FairTableSpec` (run `BaseTable`) assume weak fairness of
`Call` (a call that has begun goes on: single-threaded code that never waits), of
`SaveReady`, `EndSave`, `RemoveReady`, `EndRemove` (the program keeps calling the two
functions, as README.md:107-116 tells it to) and of `Clock` (time passes). Nothing is
assumed of the radio, nor that the program ever ends. In `BaseTable` the program never
ends (`Ends = FALSE`), for `doneLoggerParser()` gives up what is still in memory.
In `BaseTable`, `Parse` is fair as well: a function that never waits. Nothing obliges the
program to ask for a base.
`FairSpec` of `LoggerItem` assumes weak fairness of the building steps: they are one
function without waiting.

## 4. Proofs

A theorem holds for every value of the constants that satisfies the named assumptions of
the module it is about (batches are sequences of frames, bases have ids, waits are natural
numbers, sources are sequences of bytes, temperatures lie between -125 and 125 degrees and
a plume has at most 28 sensors) and the hypotheses the theorem itself names. Those are
given in the last column.

| Theorem | Says | Needs |
|---|---|---|
| `LoraGatewayProofs`, the collector | | |
| `TypeCorrect`, `KosesAreUnique`, `ItemsAreOfTheirPlume` | `[]TypeOK`, `[]UniqueKoses`, `[]ItemsAgree` | |
| `CollectorImplementsMap` | `Spec => MapSpec`: the vector of entries implements the map of `PlumeMap` | |
| `LoraGatewayProofs`, the program | | |
| `GatewayTypeCorrect` | `[]GatewayTypeOK`, for every traffic, radio and number of loggers | |
| `SavedBeforeRemoved` | `CompletedIsSavedFirst` | `~OtherThread` |
| `PlumesAreNotMixed` | `[]OnePlume`, over a radio that loses, repeats and reorders | frames with headers (`NoRaw`), own bases (`LoadIsOwn`), no serial number in two years (`OneYear`) |
| `CompletedHasAll` | `[]CompletedIsWhole` | the same, one measurement of a plume, no repetitions, measurements of equally many frames |
| `LastFrameCompletes` | `[]ReceivedIsCompleted` | one logger, `LoadIsOwn`, a radio that does not reorder |
| `BaseTableProofs` | | |
| `TableImplementsGateway` | `TableSpec => GatewaySpec`: what holds of the program holds of it with its database | |
| `GivenBackCorrect` | `[]GivenBackIsSaved` | |
| `KosaStorageProofs` | | |
| `StorageTypeCorrect`, `FirstStaysInPlace`, `NoneEverReadsAnother`, `BasesStayOwned` | the four invariants of `KosaStorage` | |
| `MeasurementHeaderProofs` | | |
| `HeadersAreTyped`, `VoltagesCorrect`, `ClockComesBack` | `[]TypeOK`, `[]VoltagesAreMeasured`, `[]ClockIsKept` | |
| `PlainKeepsOrder`, `DeltaKeepsOrder` | the action properties `LaterIsLater` and `DeltasKeepOrder` | |
| `HuffmanCodeProofs` | | |
| `CodeInvCorrect`, `DecodedIsWhatWasEncoded` | `[]CodeInv`, `[]RoundTrip` | |
| `UtilCompressProofs` | | |
| `CodecTypeCorrect`, `CodecRoundTrip` | `[]CodecTypeOK`, `[]DecodedIsEncoded`, for every input, encoder and decoder | |
| `CodecImplementsCode` | `Spec => HuffmanSpec`: buffers, masks, tables and tree implement `HuffmanCode` | |
| `CodecInvCorrect` | `[]CodecInv`, the inductive invariant of the three | |
| `LoggerItemProofs` | | |
| `TypeCorrect` | `[]TypeOK`, of frames of every kind, also those that do not fit | |
| `PlainFramesFit`, `DeltaFramesFit`, `HuffmanFramesFit`, `EveryFrameFits` | `FramesFit` | differences: `FirstIsFull` |
| `PlainReadIsMeasured`, `DeltaReadIsMeasured`, `HuffmanReadIsMeasured`, `EveryReadIsMeasured` | `ReadIsMeasured`, which itself asks for `Readable` | differences: `FirstIsFull`; differences and Huffman: `WidthSuffices` |
| `PlainAllIsRead`, `DeltaAllIsRead`, `HuffmanAllIsRead`, `EveryAllIsRead` | `AllIsRead`, which itself asks for `Readable` | the same, and a base with a value for every sensor |
| `WidthIsEnough` | `WidthSuffices` | a build that swaps bytes, magnitudes that do not take exactly eight bits |
| `RowStaysInPlace` | `RowIsInPlace` | as `EveryReadIsMeasured` |

The hypotheses leave out what section 3 lists as going wrong. `Readable`, inside the
properties of reading, leaves out the orders of arrival in which the code does not know how wide
differences are (logger-collection.cpp:1763). `FirstIsFull`: a first delta frame
that is not full grows beyond 24 bytes (logger-builder.cpp:366). `WidthSuffices`:
differences of exactly eight bits are sent in one byte and wrap (logger-builder.cpp:229);
`WidthIsEnough` shows that these are the only ones on builds where `HTON2` swaps. On
the others differences are taken of numbers whose bytes are exchanged, where a magnitude may
not even fit an `int16_t`; the theorems with `WidthSuffices` hold there as well.
A base of fewer sensors makes the first frame promise frames that are not built
(logger-builder.cpp:37), and there is nothing to add a difference to. `OneYear`,
`MaxRepeats = 0`, one measurement of a plume, equally many frames, one logger and no
reordering each exclude one line of the list in section 3, for which the property is
violated. `NoRaw` and `LoadIsOwn` are about the program around the library: LoRaWAN frames have
headers, and a loader returns the base of the plume it is asked for.

*Collector.* `UniqueKoses` is not inductive alone: pushing an entry keeps it
because `Find` returned 0 for the new id, which excludes entries of the same
plume, whether or not the id has the wildcard year; and an entry's id must not
change under `Add`. The inductive invariant is `TypeOK`, `UniqueKoses` and
`ItemsAgree`; the lemmas state what `Find`, `Add`, `PushBack`, `EraseIf` and the
decoding of a frame preserve. `RemoveAt` is expanded to the subsequence it denotes.

*Refinement.* As no two entries have one plume, "the entry of plume p" is one entry, and the
entries are a function of plumes (`MapOf`), the only one that agrees with every entry
(`MapOfIsTheOne`). With that, `AddItem` is `File` or, for the wildcard year, `Refuse`; an
erasure is `Forget`; putting a frame is `Decode` or `Extend`; all other steps stutter.

*Saving before removing.* Types follow from the collector's lemmas, which hold of any batch
of frames, and from the sequences the radio cuts. For `CompletedIsSavedFirst` the invariant
must say what the saving loop has done so far (`PassedIsSaved`: the entries before the
iterator are saved), what holds until the removal has ended (`AllIsSaved`: nothing in memory
completes without being saved, and no `put()` runs), and which loop runs when
(`LoopsAlternate`). The clock does not disturb it, as completion does not depend on it: that
is why the theorem is about completed entries and not about expired ones. With `OtherThread`
it is false.

*The way of a frame.* A frame goes from the air to `values`, to the temporary collection and
to an entry. `StepMoves` says that every step of the program, of the radio and of the clock
does one of five things to the frames: none moves, some are lost, received, one is decoded,
or one filed. All that follows is proved over these five and no longer over the actions.
`FramesAreSent`: what is anywhere was sent, and an item's id agrees with its frame.
With `OneYear` this gives `OnePlume`. For `CompletedIsWhole` two numbers
that happen to be equal must mean that two sets are: no frame is in two places
(`FrameOnce`), so items are as many as frames, and the only count told is that of the
measurements (`Counted`), so an entry of as many frames of one measurement holds all of them.
For `ReceivedIsCompleted` it is enough to follow the first frame (`FirstIsFirst`):
it waits, is decoded, is filed, is the first item of the only entry, or is gone; that every
frame of a measurement is in memory excludes all but one of these.

*Database.* `TableSpec` only adds variables, so that it implements `GatewaySpec` by the
identity, step by step, and the invariants of the gateway can be used. `GivenBackIsSaved`
is about the end of a parsing; the invariant says where its iterations are. The string is
blanks, then for each packet its digits and a blank, then blanks (`Padded`), and
`Progress` says in which of these `pos` is and how much of which packet `r` holds.
Where the i-th piece of a flattened sequence begins (`EndOfPiece`) is proved by induction
in `SequenceLemmas`.

*Pointers.* An item of the first entry points to it, one of another entry to that entry,
to the stack, or to a block left behind: this disjunction is what is inductive, for a
reallocation turns the second into the third. Blocks are never used again, so no pointer into
a block left behind comes back to life. For the bases it is the count of owners: the copy
constructor leaves none, and the destructors of the old block delete all.

*Voltages and dates.* The byte a difference was added to was the base's, so that `int8` of
the difference, added modulo 256, gives the measured byte. For dates the calendar comes first: the
table of days is monotonic, a day lies in exactly one year and in exactly one of its months
(`YearOfDay`, `MonthOfDay`), so that `localtime()` of what `mktime()` carried over is the one
date it stands for. `ClockInv` says
what the header of an entry was made of: the measurement sent, or the difference of it to a base,
whose header was made in the same way. Order in time then follows by arithmetic: a month's
shift moves two times of one month by the same days, and within 98 seconds neither `int8_t` nor
`uint8_t` wraps.

*Code.* `RoundTrip` needs to know that the decoder stands at the beginning of a
codeword (`Aligned`), that each codeword stands where the marks say (`Written`),
and what fills the rest (`Filled`). That at most one codeword fits at a place is
the lemma that no codeword is a prefix of another; that none fits into the
padding is the lemma that `Filler` has no codeword among its beginnings. Both are
finite case analyses over `Code`.

*Buffers and tree.* What a byte holds is said bit by bit (`Bit`, from the highest), and a byte is
the sum of its bits, so that masks and shifts become linear arithmetic over eight numbers
that are 0 or 1. A `push` replaces a part of a byte by adding a difference times a power of two
(`Splice`); that this writes the bits of the value and no others needs that the bits it replaces are
zero, which is not what `CodecTypeOK` says: the inductive invariant has it as `Clean`. A push over two
bytes is two of these (`WrittenTwice`), a tag with its byte two pushes, and `EncodeSymbolWrites` says
of all ten rows of the table, and of every byte behind the tag, that `Code` of the symbol is what is
written. The sums of lengths in `Ends` are then the marks of `HuffmanCode`. For the decoders both
readers are shown to peek the same bits (`ReaderBits`), in one byte or over two. A node is an inner
node or terminal (`Children`), a terminal node is the codeword of its symbol (`Terminals`), and
`AtNode` says that the bits of the path stand before the next bit. So a step to an inner node
stutters, one to a terminal node is `Decode`, and so is a tag with its byte: the byte
popped is the one encoded, as the bits of a byte determine it (`TaggedByte`). The decoder
gives up inside a codeword, inside a tag's byte or at the end of the buffer; that then no codeword
fits is that none ends at or before an inner node (`InnerIsNoCode`) and that a tag needs ten
bits. The invariant of `HuffmanCode` holds of the mapped state and gives `RoundTrip`, to which
`Copied` adds the bytes that `compressLogger()` copies.

*Builder and reading.* For each of the three builders a function of `value` alone gives the
frames the measurement is divided into (`PlainFrames`, `DeltaFrames`, `HuffFrames`). The
inductive invariant says that `retVal` is a beginning of it, that the counters stand where
the number of frames built says, and that each item is one of these frames, no two
the same. But for the width of differences, the reading is then a statement about a set of
frames, whatever their order: the values of one frame are placed from an offset computed from its number, and the proof is that the builder
took them from there. For differences that is arithmetic with 6 and 20 bytes; for
Huffman frames the offset is the sum of what the items before hold. How wide the
differences are read comes from the first item (`DataBits`). Hence `Readable`.
That `get()` overwrites nothing is that the places of two frames do not meet; that
every sensor is read when all frames have arrived is that as many items as frames, each
another one, are all of them.

*Huffman frames.* The attempts differ in their sizes. `HuffSizes` relates the two; that the
size is not zero when both are equal is needed: in a state without it, one frame of no
sensors is taken for the whole measurement. The halving ends with frames that fit, or with
frames of one sensor: those fit because no codeword is longer than ten bits
(`LongestFrame`), which is why `HuffmanFramesFit` needs no hypothesis.

*Types.* `TypeOK` needs bounds of the counters and of the frames' data for
measurements of every kind, also those that do not fit: `TypeInv` gives the form of each
frame (`IsFrame`), the bounds of `ofs`, `sz1` and `sz2` for each kind, and that an item is one
of the frames.

*Row.* Up to the first gap every entry has one value, in the gap none, and the first value
after it is preceded by as many missed ones as the gap is wide: the ends of the pieces are
computed by induction over the sensors (`OneGapInPlace`). After a second gap it is false
(the list in section 3).

Induction over the naturals is done with a set: of the m for which a statement
holds one shows that zero and, with each m, m + 1 belong to it (`SetInduction`).

Only model-checked: liveness (`Freed`, `CompletedIsSaved`, `ParseEnds`, `BuildEnds`), which
is out of the prover's reach, for its backends support neither fairness nor `ENABLED`; and
whatever a property claims beyond the hypotheses above, on the instances of the runs. No module declares a `RECURSIVE`
operator.

## 5. Not modelled

* Text: SQL dialects and `CREATE TABLE`, JSON, tables; parsing and printing of dates (`strptime`).
* Passports (reals), argtable3.
* Values of RAW measurements, `pcnt` and `used` of a header.
* The command line tool: option parsing, then one `put` and one output.
* Time zones and summer time; a calendar before 2000.

## 6. Plan

Done: the collector, the gateway, the codec, builder and reading, pointers, headers, the
table of base measurements; every safety property and both refinements of the runs are proved,
within the hypotheses of section 4. Left:

1. The composition of `KosaStorage` with the collector, so that erasures happen when plumes
   expire, and that of `BaseTable` with the reading of differences.
2. The command line tool as another user of the parser: one put, then one output.
