# TLA+ models of LasMarionetas

LasMarionetas rebuilds, in C and C++, the libraries of an old game: a small
COM-like object framework ("GZCOM"), the image library GIMEX, and a proxy DLL
that patches the original program. This directory models the parts with state,
ordering or arithmetic that tests hardly reach, checks them with TLC and proves
the most important facts with TLAPS. Paths below are relative to the repository.

## The system

| Part | Source | State it keeps | Operations | Hard behaviour | What makes it correct |
|---|---|---|---|---|---|
| Critical section | `src/framework/rz/rzcriticalsection_*.cpp` | a recursive platform mutex, a plain `lock_count` | Lock, TryLock, Unlock, IsLocked, IsValid, Release | threads; reads of the count without the mutex | exclusion, exact counts, progress, a recursive lock to its callers |
| COM directors | `rzcomdlldirector.cpp`, `src/plugin` | COM pointer, child array, class map, reference count | InitializeCOM, AddDirector, AddCls, GetClassObject, AddRef/Release, CanUnloadNow | any order of registration; directors reached by several paths; unloading in use | every child is initialised, every class is found, counts are exact, unloading is safe |
| Reference counting | `rzstring.cpp`, `rzcmdline.cpp`, `rzautorefcount.h`, `rzsysservptr.h` | a count per object, a pointer per wrapper | QueryInterface, AddRef, Release, operator= | classes that count differently behind one interface; objects made in vain | count = references, freed exactly when unreferenced |
| Row codecs | `src/gimex/src/targagimex.c`, `bitmapgimex.c` | position in the row, the row, the file | write and read packets, rows, images | packet limits, padding, rows without an end mark | what is read is what was written; every loop ends |
| Pictures | the same files, `pnggimex.c`, `jpeggimex.c` | header, palette, depth | open, info, read, write | pixel depths, palettes, masks, row and column order, greys, conversions from any format to any other | a picture is shown as its file means it, and is the same when written and read again, but for named losses |
| GIMEX dispatcher, gimexconv | `gimex.c`, `gimexconv.c` | current codec, context | is, set, find, open, info, read, write, close | calls for a context after the codec changed; ignored failures | the codec that suits best is found, whole pictures come out, memory is returned, what the model counts as undefined has named causes |
| JPEG | `jpeggimex.c` | two stream managers, the marker's flag, context | info, read, write, callbacks of libjpeg | buffers that end anywhere, files cut off, disks that fill up, error jumps | the decoder gets the file's bytes in order, the GIMEX marker is recognised, success means written whole, reading ends |
| PNG | `pnggimex.c` | context, libpng's structures | the same | error jumps past the ends of functions | memory is returned, no jump into a function that has returned; pictures, as above |
| FSH, NULL codecs | `shpgimex.c`, `nullgimex.c` | none | constants | none | enter the dispatcher |
| Command line | `rzcmdline.cpp` | text and arguments | construct, insert, erase, switches | text and arguments made from each other; quotes and white space | arguments end where the text says, a joined text splits back, a switch is found under its name |
| Random numbers | `rzrandom.cpp`, `rzrandomsuper.cpp` | seed; 624 words and an index | seed, next, next of a range | a loop unrolled in three, boundaries of the array, widths | the words follow the twister's recurrence, a range gives all its numbers and no other |
| Dates and times | `rzdate.cpp`, `rztime.cpp` | a Julian day; seconds | conversions, weekdays, summer time | ends of months, years and centuries; the hours of the changes | days follow the calendar, local time follows the clock's rules |
| Hash of the game's file | `src/hookproxy/sha1.cpp`, `hasher.cpp` | a block, counts of bytes, a digest | Hash, Result | parts of blocks, padding, more data after a result | the digest is that of the message however it was cut |
| Hook proxy | `src/hookproxy`, `src/framework/hooks` | loaded payload, page protection | attach: load, hash, choose, hook | one of several system calls fails | a game is hooked wholly or not at all, and with its own payload if the digest was still there; its memory is protected again |
| Strings, atomics, entry points, interfaces, miniposix, STLport | see `PROJECT.json` | | | | not modelled: see "Not modelled" |

How they meet: the game (not in the repository) loads a library, gets its
director, and asks it for class objects; the objects are reference counted and
used through wrappers, from threads that share critical sections. A tool calls
GIMEX, which calls the current codec, which moves rows through its row codec.
The proxy library hashes the game's file to choose the payload that hooks it.
Command lines, random numbers and dates are used by one thread at a time and
know of no other part.

## Modules

| Module | Models |
|---|---|
| `RecursiveLock` | the abstract specification: what callers of a critical section may rely on |
| `RZCriticalSection` | both implementations, every call split where another thread can come in |
| `RZCriticalSection_proofs` | type correctness, exclusion, exactness, refinement |
| `RZCOMDllDirector` | the directors of one library |
| `RZRefCount` | the counted objects, their clients and the wrappers |
| `RZCom` | a library in use: directors and objects together, loading and unloading |
| `RowStream` | the loops over an image's rows, shared by both formats |
| `TgaRows`, `BmpRows` | the packers and unpackers of a row |
| `ImageRows` | an image through a file with either of them |
| `ByteStream` | the abstract specification: what a decoder may rely on in its source |
| `JpegDestination`, `JpegSource` | libjpeg's stream managers and the parser of the GIMEX marker |
| `JpegFile` | JPG_write, JPG_info and JPG_read on files one after the other |
| `GimexDispatch` | the table of codecs and the search by extension |
| `GimexCodecs` | the codecs as a program sees them: memory, files that are cut off, full disks |
| `GimexConv` | gimexconv's `main` |
| `GimexColours` | colours, indices and pictures, as the codecs pass them on |
| `PngPictures`, `JpegPictures` | what `pnggimex.c` and `jpeggimex.c` tell of a file and make of its samples |
| `GimexPictures` | headers, palettes, depths and pixels of Targa files and bitmaps; pictures converted between the four formats |
| `RZCmdLine`, `RZRandom`, `RZDate` | command lines; both generators; dates and times |
| `SHAEngine` | the hash's blocks and padding |
| `ProxyDll` | the attach of the proxy library, with the hash of the game's file |
| `Sequential` | the last six, one at a time |
| `Induction` | induction over the natural numbers, quotients, recursions and joined sequences, for the proofs about data |
| `RZCom_proofs` | what the recursions over child arrays reach; counts, references, the COM and lookups |
| `ImageRows_proofs` | the round trip of both row formats, and the size of a Targa file |
| `JpegFile_proofs` | writing, the source's refinement, the buffers' bounds, the mark |
| `GimexConv_proofs` | the search for a codec; the converter's pointers, memory and result |
| `ProxyDll_proofs` | the digest and the hooks |
| `Sequential_proofs` | the calendar and summer time; command lines; both generators |
| `MC...` | instances for TLC |

### Critical section

`owner` and `depth` are the platform mutex (`pthread_mutex_t`, made recursive at
`rzcriticalsection_posix.cpp:34`, or `CRITICAL_SECTION`), `lock_count` the
plain integer beside it, `pc[t]` and `reg[t]` a thread's place in a call and its
register, `held[t]` what its caller takes itself to hold, `ret[t]` what its last
call returned. `++lock_count` is `IncLoad` and `IncStore`, `--lock_count`
`DecLoad` and `DecStore`; the value returned is one more load (`EnterReturn`,
`UnlockReturn`). `TryFail` differs in the two builds: the posix one falls
through to `return lock_count`. `IsValid` is `IsLocked` without the result.
`Release` is for the last user; `Construct` stands for a new object in the
same memory. Callers keep the discipline of `cRZLock`: they leave as often as
they entered, and believe a TryLock whose result is not zero.

Lock's own failure path returns 0 when `pthread_mutex_lock` fails. A recursive
mutex fails only at its nesting limit (EAGAIN), which is beyond an `int32_t`
count in practice; the model has no action for it, and nesting is bounded by
`MaxDepth`.

Runs:

- `critsec`: three threads, depth 2, both builds, TryLock on win32.
  `MutualExclusion`, `OwnLeave` (every Unlock reaches the mutex as its owner),
  `CountExact` (the count is exact although it is read without the mutex),
  `ImplementsRecursiveLock` (refinement), `SomebodyEnters` (liveness). Three
  threads are one inside, one waiting and one that tries; depth 2 is the
  smallest with a nested entry and exit.
- `critsec_posix_trylock`: with TryLock on posix callers can be misled, and
  then Unlock by a thread that does not own the mutex happens. The one property
  left to ask is that calls that promise not to block return all the same
  (`NonBlockingReturns`).
- `critsec_trylock` (violation of `MutualExclusion`): the posix TryLock that
  fails returns the holder's count, which is not zero.
- `critsec_unlock` (violation of `UnlockReturnsRemaining`): Unlock reads the
  count after it gave up the mutex.

Fairness: each thread that is in a call and not blocked goes on (`WF` of
`Inside`), and a caller that is inside leaves in the end (`WF` of
`CallUnlock`), because cRZLock's destructor does it. Nothing obliges a caller
to enter, and the platform mutex is not assumed fair: `SomebodyEnters` says
that somebody gets in, not who.

### Directors and objects

`mpCOM[d]` stands for the three values `InitializeCOM` copies together.
`Visits[d]` is the order in which the recursions over child arrays reach the
directors below d; `AddDirector` appends all of `Visits[c]` since it
copies the child's descendants as well. `ProviderIndex` is GetClassObject's
search: the first director in that order whose factory serves the interface;
`InVain` are the factories called on the way whose object refuses. Nesting is
acyclic, because the recursions have no other end.

An object is its class and its count, modulo `Width` (2^32 in the code, 4 in
the run, more than the references that exist). `cRZString::QueryInterface`
adds a reference, `cRZCmdLine::QueryInterface` does not; `Released` has the two
ways of deleting. A client owns what it was given and releases it once.
`Assign`'s order, release before AddRef, is in `Swapped`.

Runs:

- `com`: three directors (a child of a child, a child of two parents), one
  class ID with a type 1 and a type 2 factory that serve different interfaces,
  two memory blocks, one wrapper, child arrays of at most two, one reference
  to each director. `ComReachesChildren` and `LookupComplete` relate what the
  arrays say to what a recursion finds; `DirectorsCounted`,
  `CountsReferences` and `FreedExactly` relate counts to references. The
  directors below the root and the blocks are interchangeable (SYMMETRY). The
  game is one that counts what it holds before it unloads.
- `com_unload` (violation of `UnloadSafe`): a game that goes by CanUnloadNow,
  which returns true for a director that is referenced.

`OnStart` puts the director on the framework's list of hooks and no unload
takes it off (`hooked` survives `Load`): the list belongs to the game, so
no property speaks of it.

### Rows

A file is a sequence of bytes and pixels. `image` is what the caller has,
`row` and `at` the place in it, `taken` how much of the file has been read and
`got` what was read. Both formats begin at the bottom row. One turn of a
writer's or a reader's loop is one action, and the end of a row another.

`TgaRows`: a packet's head is the flag 0x80 for a repeat and the count less
one; `MaxPacket` (128) is both the limit and the flag, so a packet that is one
too long turns into the other kind. `Stored` is what the file keeps of a
pixel: in the code a channel without its low bits, or a grey value.
`deep` is `bpp > 8`, where two equal pixels are a repeat that pays.

`BmpRows`: runs of a length and a pixel, literals of 0, a length and the
pixels, padded to an even number. The writer ends a line with 0 and 0; the
reader aligns itself to four bytes after a line and steps over a 0 and 0 that it
meets before the next. `retval` is BMP_readline's result, which begins as 0 and
is set only where the reader meets a 0: BMP_read reads no further row after one
in which it met none (`BmpSkipRow`; `bitmapgimex.c:64`, `773`, `783`). A 0 is
met in a row that has a literal, or before one whose predecessor ended where the
reader was aligned already, so that it did not skip that end of a line. The
writer's side of this is the history variable `escapes`, the rows in which a
reader will meet a 0; no guard reads it.

Runs:

- `rows`: every image of one row of up to ten pixels of two colours, of two rows
  of up to five, and of one row of three colours of up to five, with packet
  limits 4 (Targa), 7 (run) and 6 (literal), so that rows exceed each of them
  and alignments of 0 and 2 bytes both occur; and images of three rows with and
  without literals, in which a row behind one that is all runs is met and not
  met. `RoundTrip` is the writer and the reader agreeing over several rows that
  nothing separates: the rows that come back are exactly those that the reader
  gets to (`Reached`: all of a Targa image, and of a bitmap those with only rows
  below them that have a 0), and the result is true exactly if the last row has
  one, too. So an image of one row 0 is read completely and the result denies
  it, and of two rows that are all runs the upper may be left out. `NothingLeft`
  says the same of the bytes: when the reader has got to the top row, all have
  been read, `NeverExpands` the economy that the look-ahead in TGA_writeline is
  for, `TgaFinishes` its termination. CHECK_DEADLOCK is FALSE: the program stops
  when the image is read.
- `rows_bmp_tail` (violation of `BmpFinishes`): a row of three pixels or
  more that ends in one or two pixels after a run keeps the writer's loop
  turning without a change. It starts at rows 0 0 0 1. The rows that
  get through are those `RoundTrip` speaks of for bitmaps.

Fairness: one sequential program that is not suspended (`WF` of `Next`).

Left out here: failing reads, the first of BMP_write's two passes (it computes
the size and writes nothing), and the line buffer that a reader fills (the byte
that pads a literal as long as the line is read behind it, `bitmapgimex.c:249`;
`GimexCodecs` counts it as undefined). Headers, palettes and pixel depths are in
`GimexPictures`.

### JPEG streams

`file` is what is on the disk, `out` the destination manager's buffer and
`buffer` the source manager's; a gread takes a chunk, a gwrite as much as there
is room for. libjpeg between the two is external: it produces the bytes of a
picture (`made`), and reads bytes up to a marker, gives the APP13 markers to
`JPG_markerparser`, skips what other markers hold (`StartSkip`, `SkipBuffer`)
and stops at the end mark. `JPG_readgimexmarker` is one static flag for all
files and both calls. jpeg_read_header returns at the code that begins a scan
(`SOS`), and both calls look at the flag there and not later: `gimex_marker` is
what they have seen, `header` says that they are past that place, and
JPG_info's `sub_type` (`jpeggimex.c:452`) and JPG_read's order of channels are
taken from it. A file whose end mark comes before a scan ends in libjpeg's error
(`"headless"`). `ErrorExit` is the long jump out of either call.

The run `jpeg`: a buffer of 4 bytes for 4096, a mark of three bytes for
`GIMEXARGB`, 16 values of a byte, pictures with segments that hold an end mark
or what looks like the GIMEX marker, scans of up to three bytes, files from
elsewhere whose marker is wrong, longer, too short, or behind the beginning of
the scan, or that have no scan, disks with room for 0 to 14 bytes or all, and
two files one after the other, since the flag outlives the first. With these,
markers, skips and the end of a file fall on each place of the buffer.
`WrittenWhole` is the write's result against the disk, `ImplementsByteStream`
the refinement to a stream without buffers, `MarkRecognised` what JPG_info tells
and JPG_read goes by, which is the flag at the beginning of the scan, against
what the file holds before it (`HasMark`, by its bytes alone, which TLC
evaluates on each of these files and on each place where it may be cut off:
`KindAssumption`), and `ReadReturnsAtLast` the termination that the end marks
behind a file are for. Fairness is `WF` of `Compress` and of `Decompress`,
because a call is one sequential function that runs to its end; no call has to
be made. A marker too short for the mark makes the parser compare an array that
has not been written: both outcomes are in the model, and the property excepts
such files.

### Dispatcher and gimexconv

`gCurrentGimex` is the current codec; `Places` is the order of GIMEX_find's two
loops and `Located` what they come to, including the abouts that an allocation
failure hides (`lost`). Names are values: what follows the first point of a
file name, as gimexconv's `strstr` takes it. `instance`, `info` and `buffer`
are main's three pointers, `blocks` what has been allocated and not freed,
`put` and `room` the destination's disk; a gwrite is two bytes, so that it can
be taken in part. A source is a name, a format, how much of the file is there
(`Kept`), whether it has a palette, and its `Traits`: a palette with alpha, a
PNG of fewer than 8 bits, a packed bitmap, a bitmap of 16 bits without masks.
A packed bitmap may be read only in part (`ReadInto`), because a row of nothing
but runs ends the reading. The model comes to `"undefined"` where the code

- uses a pointer that was not set, or a context that was closed or is another
  codec's;
- reads or writes outside of a row's buffer (`Overrun`): the samples of a PNG of
  fewer than 8 bits (`pnggimex.c:480`, `115`, in the buffer of
  `gimexconv.c:115`), the padding of a packed bitmap, the pixels of 16 bits
  without masks, and the alpha of a grey PNG three pixels on (`pnggimex.c:218`);
- takes a count that was not set for the size of an array (`num_palette`,
  `pnggimex.c:581`; `AlphaPalette`);
- jumps to a function that has returned (PNG's `PngEnd`), or frees what a jump
  of JPG_write may have unset (`row_buff`, `jpeggimex.c:569` and `643`).

This list is of the kinds that the model counts and not of all there are:
bytes of fresh memory that are read and passed on, for example, are not
counted. Files that are too short make `PNG_is`, `BMP_is` and `TGA_is`
look at bytes they did not read: both answers are possible.

Runs:

- `gimexconv`: files of six formats under nine names, whole or cut off at three
  places, and of every trait, to every codec, with disks of eight bytes or fewer
  (the longest destination has eight), two rows, one failing allocation.
  `FindsBest` compares the search with a ranking over the whole table;
  `Converts` says that with memory, a sound source and room the destination has
  the whole file although main looks at almost no result (a sound source is none
  of those kinds that are read wrongly or in part); `UndefinedOnly` names the
  causes of what the model counts as undefined; `MemoryReturned` holds also when
  an allocation fails, and excepts what the code never frees: a bitmap's line
  buffer, everything when the destination's name has no point, and what the
  error jumps of libpng and of JPG_write pass by. CHECK_DEADLOCK is FALSE: the
  program ends.
- `gimexconv_write` (violation of `WriteReports`): a picture that was
  written whole, and GIMEX_write returns false.

Left out: the values of GINFO's fields and pixels (they are in
`GimexPictures`), libpng's and libjpeg's own memory, GIMEX_about
in main, whose result is only printed.

### Parts on one thread: the run `sequential`

`Sequential` puts the next six modules side by side: Init chooses one `part`,
which goes through its own steps while the others rest. They share nothing, so
nothing is gained by letting them take turns, and one run covers them all. No
fairness is stated, because no property is about what happens in the end, and
CHECK_DEADLOCK is FALSE because a part stops when it has done all its bound
allows. Where the code departs from what its comments, formats or callers
expect, the property states the exact condition, as an equivalence: it fails if
the code does worse, and it also fails if the code does better. The sections
below name those conditions.

#### Command lines

`mzCmdLineText` and `mArguments` are the two forms, characters are strings of
length one. `CmdInit` is the two constructors, `InsertArgument` and
`EraseArgument` change the arguments and make the text anew; the questions
(`Find`, `FindSubString`, the switches) are operators. `Scan` is one turn of the
splitting loop.

- `SplitsAtWhite`: splitting is compared with a definition that counts quotes
  before each place.
- `TextSplitsBack`: a text made by joining arguments without quotes splits
  back exactly if there is one at least, none is empty (but one alone may be) and
  none has more than one white character.
  `rzcmdline.cpp:386` opens a quote for each white character and closes one.
- `SwitchAnswers`: a switch is found under its name in any case; a switch with
  a value, "-name:value", is never found, since the name is compared from the
  marker on; `FindSubString` makes the text lower when the case counts and the
  arguments when it does not.

`EraseArgument` outside the arguments erases past the end; `undefined` marks it
and nothing more is done to such a line.

Bounds: texts of up to six of a space, a quote and a letter; one argument of up
to five characters that may be a switch; two arguments of up to three; six
characters are two arguments of which one has quotes with a space inside.

#### Random numbers

`mnIntegerSeed` is the congruence's state; `mTwister`, `mpNext` and
`mnRemaining` the twister's. A word has `Bits` bits (6 for 32), the array
`TWIST_SIZE` words (5 for 624) with a period of 3 (397), which keeps the order
of the three loops of the reload; 11 draws are two reloads. `behind` is what
the second loop reads when it runs one word past the array, which in the code
is `mpNext`: an address, 0 while the constructor runs.

- `TwistIsTheRecurrence`: the array before and after a reload is one sequence
  of the recurrence, as if the loop had not been unrolled, but for its last
  word. The second loop has overwritten it when the third makes it, so that its
  top bit is another word's. Whatever lies behind the array has no effect.
- `EveryNumberComes`: every number of a range comes from some word and no other
  does, for limits whose difference exceeds a signed word too, and tempering is a
  bijection.

#### Dates and times

`mnJulianDate` goes on by a day, `mnTime` by an hour. `Jday`, `Mdy`,
`DayOfWeek`, `Previous`, `BeginDST`, `EndDST` and `LocalHours` are the code's
arithmetic.

- `DaysOfCalendar`: following days against a definition by the lengths of
  months. The days are the ends of February of 1900, 1904 and 2100 and 1200 days
  from December 1998, with the leap year of a century that has one.
- `SummerTime`: local time against the rule, in zones 0, 6 and -3, in years
  whose 1 April is a Sunday, a Monday and a Saturday. The changes are late by the
  zone's hours, since universal time is compared with local time, and when 1 April
  is a Sunday, summer begins on the 8th. 1974 and 1975, of which the code has the
  dates in a table, are excepted.

#### Hash and proxy library

`engine` is SHAEngine's members; a digest is the sequence of bytes that reached
`Process_Block`, so the arithmetic of a block is abstracted and the order, the
padding and the counts are not. `DigestOfMessage`: a result is the digest of all
that was hashed exactly if nothing was hashed after a result taken inside a
block. Result resets the count of bytes that wait (`sha1.cpp:112` says that one
may continue). Blocks are 4 bytes with 2 for the length, data comes in chunks of
0, 1, 3 and 6 bytes up to 9: two blocks and every position in them.

`ProxyDll` is DllMain's attach: `dllStep` is its place, each call of the system
either succeeds or takes the code's way out (`Try`). The game's file is read and
hashed through a buffer of 8 bytes, shorter, as long as and longer than it.
`memory` is the protection of eleven pages, and a layout's `data` is the
address that the file gives. Get_Hash returns the text of the digest inside its
own engine (`proxydll.cpp:95`, `sha1.h:55`), whose memory is free again when
strcmp reads it (line 122). `NamesOf` is what the comparison may come to: the
digest's own entry if it is still there, and any entry of the table or none if
it is not; the history variable `intact` says which it was.

- `HooksOfThisGame`: what is hooked at the end is one payload at all its sites,
  or nothing, and it is the payload of this very file if the digest was intact.
  That is less than the comment of `proxydll.cpp:99` promises ("the payload dll
  name we expect for the binary"): nothing assures it.
- `PutBack`: when no call failed, protection is as it was exactly if the range
  taken for the data is apart from the code. `mapview.cpp:75` takes that range
  without the base of the image. The run goes through seven such ranges: on the
  code, beside it, on other memory and on none.

#### Pictures

`stored` is the file: its header's fields, its palette and rows of values.
`info` is GINFO, `pixels` the picture; `GIMEX_info`, `GIMEX_read` and
`GIMEX_write` are the calls. A word of a bitmap is the set of its bits, so that
masks are sets. A PNG has a colour type, a depth and perhaps values that are
transparent; a JPEG has a colour space, `argb` standing for four channels behind
the GIMEX marker, and libjpeg is taken to lose nothing. A written picture is
read and may be written once more (`MaxWrites` 2), to any of the four formats,
by gimexconv (`plain`: it clears the packing and the kind of header) or by a
program that leaves the info as it is.

BMP_read stops behind a packed row of nothing but runs. Which rows are such is
in `BmpRows`; here any row of a packed bitmap may be the last that is read
(`RowsRead`), the rest of the buffer stays unset, and the history variable
`whole` says whether all were read.

`PicturesKept` has three parts. `ReadAsStored` compares what is shown of a file
that was read to its end with what the format means by it (`Meant`); `Misread`
is where they differ:

- Targas of 15 to 24 bits with columns from the right (`TGA_flipline` takes a
  pixel for a byte);
- greys beyond `cmap_length`, which is all of them in a usual grey Targa;
- Targas with an alpha bit of 0, which is looked at and taken back;
- bitmaps of 15 bits without masks, which are read in steps of four bytes, and
  rows whose form is not the header's;
- PNGs of fewer than 8 bits (`png_set_packing` makes bytes of them, and the
  buffer has `bpp` bits for each pixel, so that rows lie over each other), and
  PNGs other than with a palette that say of a value that it is transparent;
- JPEGs of cmyk (`JPG_readcmyk` writes one of three bytes).

`KeptWhenWritten` compares a picture before it is written and after it is read
back, but for what the format cannot keep (`Kept`): it is the same exactly if the
file is read to its end and the picture is not `Spoiled`, which is

- an index that the palette's count does not reach (`grey_buff` is not set for
  it), a grey as high as that count;
- a bitmap of 16 bits, whose pixels are cut to 0;
- a packed bitmap that is not of 8 bits with a plain header;
- a palette with alpha behind a V4 header (indices are written under a header
  of 32 bits), or one of which no entry has any alpha, which is read as opaque;
- a Targa of a picture with 16 bits of alpha (from a PNG), whose descriptor then
  says that the columns begin at the right, if that shows;
- a PNG of a palette of fewer than 8 bits, of greys that are not their own
  indices, or of greys with alpha; and one of a palette with alpha in which a
  pixel has a colour behind the first `trans` whose alpha is not 255. `trans` is
  any number up to that of the colours (`TransCounts`): png_get_PLTE does not set
  `num_palette` when it gets no place for the palette (`pnggimex.c:582`), and
  libpng takes no more alphas than colours. An array of a size that cannot be
  filled is in `GimexCodecs`;
- a JPEG of greys with an index behind them whose colour is not grey.

JPG_info tells of no alpha, also behind the marker, so that the other formats
drop it; JPG_write takes the kind of an INFOEX bitmap for a wish for the marker
(`AsksMarker`) and writes four channels without being asked. `Kept` says
so.

`PlaceKept`: an offset left of the origin, or below it, comes back as another,
and no other does.

Bounds: four patterns of one or two rows and up to three columns of two values
(an odd width, a repeated pixel, one pixel), every depth, both orders of rows
and columns, four palettes (colours, greys, black and white, no opacity), masks
of 555, 565 and 8888, PNGs of every type with 8 and 16 bits and, where they have
an index, 1 and 4, JPEGs of every space. Two values suffice where a pixel is
converted by itself; the widths show what depends on neighbours.

The run has 151 170 distinct states.

## Proofs

`RZCriticalSection_proofs` holds for any set of threads, any `MaxDepth` and
either build. Its assumptions are those of the module (`NoThread` is not a
thread, the bounds are natural numbers, the builds are the two), and, where a
theorem says so, `TryLockReports`: callers do not use the posix TryLock. The
violation run shows that exclusion fails without it.

- `TypeCorrect`: Spec => []TypeOK. TypeOK is not inductive: a step that adds to
  `held` needs a bound made at the call (`Room`), and a leave needs an owned
  mutex to be owned at least once (`OwnedOnce`). It needs no assumption on
  TryLock.
- `Exclusion`, `OwnersLeave`, `Exactness`: the inductive invariant `IInv`
  says what each window of a call leaves true. `Levels(t)` counts what the
  caller holds and one more while t is between the mutex and its caller;
  the mutex's `depth` is the owner's levels (`OwnedMutex`), everybody else
  has none (`OthersOut`), `lock_count` is the depth, or one behind in the two
  windows `Behind`, and a register that is about to be stored is up to date.
- `Refinement`: every step is a step of `RecursiveLock` under
  `claims <- held`, or a stutter: the entry takes effect when the call returns,
  the exit when Unlock is called.

`RZCom_proofs` holds for any directors, children, classes and answers of
factories, any objects and any finite set of wrappers. `FactoryAssumption` says
that factories make objects of the classes there are; `MaxChildren` and `MaxRefs`
bound a child array and what is held of a director.

- `LibraryTypes`: Spec => []TypeOK.
- `DirectorCounts` (assuming `GameCounts`, a game that counts what it holds):
  every director's count is what is held of it, and an unloaded library's
  directors are not held. Without the assumption the run `com_unload` has a
  counterexample.
- `ObjectsCounted`, `ObjectsFreed`: an object's count is the number of its
  references, raw and wrapped; nothing referenced has been freed, and nothing is
  left that is not referenced but a command line nobody called AddRef on. `ObjInv`
  adds to the count that it is in the range of the counter; it needs
  `ReferenceAssumption`, that the counter is wide enough for the references
  there can be. Counting wrappers takes the cardinality theorems of the library:
  `PointerMoves` says what an assignment does to the number of wrappers that
  point to an object. Each operation of `UseObjects` has a lemma. The second half
  of `FreedExactly` is `KindInv`: a string's count is above zero, since both ways
  of making and of releasing one leave it so or free it, and what GetClassObject
  makes in vain is gone when it returns (`RefusedGone`).
- `ComReaches`, `LookupCompletes`: the COM is where the library's director leads,
  and a lookup finds a class exactly when a director below serves it. Both compare
  arrays with recursions over them (`Visits`), and the first part of the module says
  what these come to. Who calls AddDirector does not nest a director in itself, so
  that each has a rank above its children's (`Acyclic`, kept by AddDirector,
  `AddedNesting`); by the ranks the recursion has a value for every director
  (`VisitsExist`); `Below(d)` is the least set with d that the arrays do not lead
  out of (`BelowLeast`); and whatever is below a director comes before it in
  `Visits`, although the copies of descendants make it come several times
  (`VisitsOrdered`). `NestingInv` then has the COM: a registration under a director
  that has it initialises all that the child leads to, and under one that has
  none nothing below has one.

`Induction` is how these and the following proofs go over data: the set of
numbers for which something holds has 0 and with n also n + 1, so that nothing is
outside it (`SetInduction`, from the library's well-founded order of the natural
numbers). A recursive function or a fold is unrolled by it into the sequence of
its intermediate values, of which the proofs then speak; that a recursion over
the natural numbers has a value at all is `RecursionExists`.

`ImageRows_proofs` holds for any images of equally long rows of pixels, any limits
of a packet (a bitmap's at least 3 and 4, `LiteralAssumption`) and any way a Targa
file keeps a pixel (`StoredAssumption`).

- `TypesHold`: no reader gets past the end of the file or of a row.
- `RoundTripAlways`, `NothingLeftAlways`: the rows that the reader gets to are
  what was written, the others are not read, the result is as said above, and
  the whole file has been read if all rows have. Neither format says where a row
  begins, so the invariant has the file as a chain of places (byte, row, pixel)
  in which each leads to the next by the packet that is there: `Written` up to
  the writer's place, `Reading` from the reader's to the file's end,
  `BmpWritten` and `BmpReading` likewise with the ends of lines. A packet that
  was written stays where it is (`PacketStays`), so a writer adds one place at a
  time. What the packers count is a least number (`LeastExists`).
- A bitmap's reader may go on before a line's end or after it. Every packet and
  every end of a line has an even number of bytes (the padding of literals), so
  that what the alignment skips is 2 bytes or none, and 2 bytes are the end of a
  line whole. A literal of no pixels would read as one: the writer's of at least
  three never does.
- It is about what has been read when it has been read: the bitmap's writer may
  never come to an end, which `rows_bmp_tail` shows.
- `SizeBounded`: packed one-byte pixels cost a byte for every full packet at
  worst, although a packet that is not full costs one too. In between (`SizeInv`)
  with k full packets' worth of pixels behind it a row has spent at most k bytes
  on heads, or k + 1 with a repeat of three or more ahead of it, which makes up
  for the literal that was cut short for it.

`JpegFile_proofs` holds for any pictures, files, disks and any length of the
buffer above one.

- `WritesWhole`: JPG_write returns true exactly with the whole picture on the
  disk. In between, what is on the disk and in the buffer together is what
  libjpeg has made so far (`WriteInv`).
- `SourceIsStream`: every step of the source manager is a step of `ByteStream`
  or a stutter. `BufferInv` is the reason: the bytes that are left in the buffer
  are the file's next ones, and after its end the pairs of an end mark that
  `JPG_fill_input_buffer` makes up. A skip over several buffers is one step of
  the abstract stream. `Alone` keeps the writing and the reading of a file apart.
- `FileTypes`: neither buffer runs over, nor the array that the mark is read into,
  and a marker's length is one of two bytes. What FileInv lacks for it is that all
  that is written and read are bytes (`WriteTypes`), that a length of which one
  byte is known has room for the other, and that a mark that is being read has
  a place left (`ReadTypes`). Pictures and files are assumed to consist of
  bytes, and the mark not to be empty (`FileAssumption`).
- `MarkSeen`: what JPG_info tells and JPG_read goes by is that the file has the
  mark before its scan. `Markers(f)` says what a file
  means without buffers, flags or passes: the places behind the APP13 codes to
  which its segments lead a decoder, by recursion over places (`From`, which
  exists since a decoder only goes forward, `FromExists`). During a pass
  `Ahead` are the markers that the parser has not finished, given by where it is
  and what it has read of a length, and the file has the mark exactly when the
  flag is set or one ahead is the mark (`SeenInv`). At the start everything is
  ahead, at the end nothing; a byte or a skip moves on without losing one; and
  a marker that has been read is taken out as the flag is set. `PlaceInv` says
  that the length and the mark's bytes that were read are the file's at that
  place, across buffers. Assumed are different codes for the four markers and,
  of the pictures and files, that their kinds are right (`KindAssumption`): a
  picture of JPG_write is cut off anywhere, with its mark complete from
  `MarkEnd` on, and only `"short"` files have an APP13 segment without place
  for the mark. The segments may hold whatever they like, among it the mark.

`GimexConv_proofs` holds for any table of codecs whose abouts have equally many
extensions, any sources, disks and rows, and any number of failing allocations.

- `TypeCorrect`: Spec => []TypeOK.
- `UndefinedCauses`: with memory and a source that has a picture (`Solid`) each
  pointer is set when the next call uses it (`Ready`): the codec is the source's
  own from GIMEX_is to GIMEX_close, and at GIMEX_write the context is of the
  codec that writes. A source of a kind that is read wrongly, or a palette with
  alpha on its way to a PNG, are causes by themselves (`OverrunStep`). The last
  cause is the PNG or JPEG that does not fit: `Progress` counts its bytes, and a
  part that was not taken whole leaves no room for the rest. The theorem is about
  what the model counts as undefined (see above), not about all that C does not
  define.
- `MemoryComesBack`: `Held` says which blocks there may be at every step, of a
  source that is not cut off. A codec's close frees what its own open made,
  because the codec is the same at both.
- `BestFound`: no codec suits an extension better than the one GIMEX_find comes
  to. Its two loops are a fold over the places of the table that keeps the best so
  far and stops looking at a score of 4. After n places (`LocatedRuns` has the
  values between) the best is the greatest score of them, and a codec's rank is
  its best place's (`RankIs`, `LocatedSuits`). Here and in `Converts` extensions
  of the table are not the value for no name (`TableAssumption`).
- `ConversionComplete`: when nothing failed, a sound source is read whole and
  the destination is whole (packed bitmaps, which may be read in part, are not
  sound). `OnCourse` says at every step that it has gone well so far. That the
  codec which the source's name leads to is the one of its format needs
  `ExportersAssumption`: no two codecs of gfuncs.c that write files know the
  same extension.

`ProxyDll_proofs` has two parts. The hash's holds for blocks of any length with
room for the length and a byte, any data.

- `EngineTypes`: the block always has room for a byte more, on which Result
  relies.
- `DigestCorrect`: the bytes that were hashed in blocks and those that wait are
  the message (`Seen`, `IInv`), whatever the calls; what is in the block at first
  does not matter; and after a result inside a block something is missing for
  good, which gives the other direction.

The hooks' holds for any games, payloads, buffers and images. It assumes
that a game with a payload is a file of some bytes (`DllAssumption`), and that of
an image the code and nothing else can be executed and the sites of a payload are
in it (`LayoutAssumption`). It uses the hash's invariant: the engine in the
process is only hashed and asked.

- `HooksWhole`: what has been hashed is the file so far, or nothing (`Reading`);
  no two messages are padded to the same (`PaddedInjective`), so that a digest
  that was intact finds at most the payload of this very file; and hooking is
  gone on with only when both ranges are open, so that no write to a site is
  lost. Whatever fails.
- `PutBackExactly`: `Protected` says at each step which pages have which
  protection and what has been saved. The end is compared with the beginning in
  `PutBackApart`, and `LeftOpen` is the case in which the second call fails for
  want of memory and the code stays writable.

`Sequential_proofs` has the parts of the run `sequential` that are not the hash, the
hooks or the pictures, each as a specification of its own (`DateSpec`, `CmdSpec`,
`RandomSpec`), which is what `Sequential` lets it do while the others rest.

- `CalendarOfDays`, for every Julian day from 1 March of the year 0 on
  (`DateAssumption`). A date is a century, a year of it, a month counted from
  March and a day; `MdyOfNumber` says that Mdy's divisions give these back from
  the number they make, `EveryNumber` that every day is such a number, and
  `NextNumber` that the number after it is the following date's, where a month,
  a year or a century ends as well.
- `SummerOfTimes`, for every hour and zone: `LastOfThatName` is Previous,
  and `OneInAWeek` that a week has one Sunday, which is therefore the one the
  property's definitions choose.
- `SwitchAnswersHold`, for any characters, names and arguments. `CmdAssumption`
  says of them that a marker is no letter, capital or small, and that a name is not
  empty and does not begin with one; a name is found where it is looked for because
  `FoundAt` is the least place (`FoundAtIs`, `LongSwitch`).
- `SplitsAtWhiteHolds`, for texts of any length. `ScanRuns` has the states
  of the scan between the characters. After i of them (`Follows`) the array
  holds the pieces that end before i, each at its turn, `sub_str` is the
  beginning of the piece that is open, `in_quotes` says whether the number of quotes
  so far is odd, and `skips` that none is open. A character adds at most one to
  the pieces that ended (`OneCharacter`); a trimmed text does not end in one that
  is skipped.
- `TextSplitsBackHolds`, for any characters and arguments of any length. Joining
  lays the arguments out in the text with a white character between each two
  (`JoinLaidOut`). A plain one, not empty and with one white character at most, is
  gone through as one piece (`ArgScanned`, `PlainScanned`), so plain ones come
  back (`PlainSplitsBack`). Of the first that is not plain, one with more white
  characters has two quotes before it, so its piece, which loses one, would begin
  with a quote (`WideIsLost`, `BegunLasts`). An empty one is lost by counting white
  characters: joining writes the arguments' own and those between (`JoinWhites`),
  splitting keeps, ends a piece with or skips each (`KeptStep`, `SplitKeeps`), and
  the skipped and trimmed ones are missing (`EmptyIsLost`). Every change keeps text
  and arguments made from each other (`MadeStep`).
- `RandomType`, `TwistIsRecurrent`, for words of any even number of bits above
  two and twisters of any size with a period of at least half of it
  (`RandomAssumption`). The operators on bits are constants of the module, and
  `BitAssumption` says what is used of them: exclusive or is a commutative group,
  it and masks go through each other and through shifts, and the top bit of one word
  and the rest of another are put together. The instance takes those of the
  community module Bitwise, and TLC checks the assumption for all words of the
  run. `TwistedRuns` has the array after every turn of the loops, `HalfTwisted`
  what it holds there; that an address is even is why the word behind the array has
  no effect (`TwistEven`).
- `NumbersCome`, for any limits: tempering is one-to-one, because each of its four
  shifts is undone by the bits that it leaves alone (`ShiftedDown`, `ShiftedUp`), and
  so comes to every word (`TemperedAll`, a finite set mapped into itself); a word
  scaled comes to every number below the scale (`ScaledAll`).

Only TLC checks:

- liveness (`SomebodyEnters`, `NonBlockingReturns`, `TgaFinishes`, `BmpFinishes`,
  `ReadReturnsAtLast`): it needs ENABLED;
- `PicturesKept`, and the TypeOK of `Sequential` for its part about pictures: they
  are about files of four formats converted into each other and add up bits of
  masks and powers of two over sets. The other parts of that TypeOK are proved:
  `DateType`, `CmdType`, `RandomType`, `EngineTypes`.

## What the runs found

| Run | Where | What |
|---|---|---|
| `critsec_trylock` | `rzcriticalsection_posix.cpp:71` | TryLock that fails reports the holder's count as success |
| `critsec_unlock` | `rzcriticalsection_*.cpp` Unlock | the remaining count returned may be another thread's |
| `com_unload` | `rzcomdlldirector.cpp:146` | CanUnloadNow never refuses |
| `rows_bmp_tail` | `bitmapgimex.c:335` | the packed bitmap writer does not end on some rows |
| `gimexconv_write` | `pnggimex.c:623`, `targagimex.c:939` | PNG_write and TGA_write return 0 for a picture that they wrote |

Other departures are stated by properties that hold, as exact conditions: the
rows of a bitmap that are not read (`bitmapgimex.c:64`, `RoundTrip`), the digest
that is compared in the memory of an engine that is gone (`proxydll.cpp:95`,
`HooksOfThisGame`), the data's range (`mapview.cpp:75`, `PutBack`), more data after
a result (`sha1.cpp:112`, `DigestOfMessage`), the late summer (`rztime.cpp:85`,
`SummerTime`), the quotes (`rzcmdline.cpp:386`, `TextSplitsBack`), and what pictures
lose (`PicturesKept`).

## Not modelled

The repository has some 79 000 lines of implementation, of which over 57 000
are STLport: a vendored C++ library, not this project's program, which is why
the share of lines that the models account for is small. Of the 7 300 lines of
the 30 files that are modelled they account for some 4 000. What is left out:

- STLport, miniposix and compat: vendored or third-party code for other
  compilers.
- `src/framework/gz` and the headers of `src/framework/rz`: declarations;
  interfaces are modelled where code implements or calls them.
- The games and editors, `pkginstall`, `testgen`: entry points, tables of
  addresses of the original programs, and one-off tools.
- `cRZString`'s text operations: each calls one function of the standard
  string. Its reference counting is modelled.
- The atomic counters: two wrappers that nothing calls.
- libpng, libjpeg and the system's calls: external, modelled by how they are used.
- Targa names of more than 127 bytes before the palette; bitmaps with core
  headers, of 24 bits behind a V4 header without masks, masks with gaps, and how
  pixels of 1 and 4 bits share a byte.
- What JPEG compression loses, qualities, resolutions and comments; FSH, which
  is a stub.
- Random numbers as doubles, which scale the same words, and the seed from the
  clock; the texts of `DateString`; the arithmetic inside a block of the hash.

## Plan

Written, in this order: the lock with its abstract specification and proofs;
directors and objects; rows of the two run-length formats; the JPEG streams
with their abstract specification; the dispatcher, the codecs' control and
gimexconv; pictures, command lines, random numbers, dates, the hash and the
proxy library; the proofs about counts, JPEG streams, gimexconv, the hash
and the hooks; the round trip of the packed rows; what the nested directors
lead to, the search for a codec, the whole conversion, the size of a Targa file
and the mark in a JPEG file; the calendar, command lines and random numbers.
What is left:

1. Proofs: the pictures through the four formats.
2. Pixels of 1 and 4 bits in their bytes, and core headers.
