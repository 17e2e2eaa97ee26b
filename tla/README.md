# A verification project for degrib

degrib (NOAA/MDL) decodes weather grids in the GRIB1, GRIB2 and TDLPack formats,
converts them to other formats, probes them at points, and keeps them in a flat
file database.  This directory holds TLA+ models of the program's control logic,
TLC configurations that check them on small instances, and proofs that TLAPS
checks.  Paths below are relative to `src/src/degrib/` unless they say otherwise.

## 1. The system

degrib is a sequential C program that is run once for each command.  Nothing
locks its files, so a probe of a database may run beside a command that adds to it;
apart from that, what makes it hard is not concurrency but protocols that no single
function enforces:

* the **reader protocol**.  `ReadGrib2Record` returns one grid at a time.  A GRIB2
  message may hold several; the reader keeps the packed message in `IS->ipack`
  between calls, says in `f_endMsg` whether the grid was the last of the message,
  and its caller must pass back in `subgNum` which one it wants next, and must not
  stop at end of file while `f_endMsg` is 0.  Five loops are written against it.
* the **index buffer**.  The `.flx` index is one flat buffer of variable-length
  records, with sizes, lengths and counts in three nested places; each insertion
  shifts everything behind it and must bring all of them up to date.
* the **database** of index file and grid files, which are written at different
  moments, and which outlive the command: a run may fail between any two of its
  steps, or be killed, and the next one goes on from what is on the disk.
* the **order of a grid**.  Its points come in one of 16 orders, may be cut to a
  subgrid, masked, converted and stored by rows from the top or from the bottom; each
  of these steps computes its own index into an array that another one filled.

### Inventory

| component | state | operations | hard behaviour | what makes it correct | here |
|---|---|---|---|---|---|
| message reader (`degrib2.c`) | file position, `IS->ipack`, `f_endMsg` | `FindGRIBMsg`, `ReadSECT0`, `ReadGrib2Record` | a message is kept between calls, over file ends | next grid, in order, never one of a message that is gone | GribFiles, GribReader; bytes: GribBytes |
| conversion driver (`commands.c`) | input file, `curMsg`, `subgNum` | `DegribIt`, `Grib2Convert`, `MainConvert` | messages counted over several files; failures | every grid asked for, in order, once, or an error | DegribConvert |
| storm total (`commands.c`) | running total, time range, flags | `StormTotal` | which messages count; error decided after the loop | the total is that of the window | StormTotal |
| GRIB probe (`probe.c`) | as the driver | `GRIB2Probe`, `GenericProbe` | the reader protocol | every grid probed in order, once | GribProbe |
| flat file index (`database.c`) | the `.flx` buffer | `CreateFLX`, `InsertGDS`, `InsertPDS`, `WriteFLX`, `ReadFLX` | nested sizes, sorted insertion, replacement | the buffer is a well-formed, sorted map | FlxIndex, FlxStore |
| flat file database (`cube.c`, `writegra.c`, `writeflt.c`) | index in memory, index file, cube or `.flt` files, `f_delete` | `Grib2Database`, `WriteGradsCube`, `gribWriteFloat`, `gribReadFloat`, `Grib2DataConvert` | failures and kills between writes; several runs | each entry designates its grid; appending loses nothing; a grid is read back as it was stored | Grib2Database, GridValues |
| database probe (`genprobe.c`) | index in memory, open grid file, matches | `genProbe`, `genProbeCube`, `genCubeFillValue`, `getCubeValAtPnt` | a writer at work meanwhile; one index of several failing | finds each wanted grid once, and its value | DatabaseProbe, GridValues |
| group probe, sectors (`grpprobe.c`, `sector.c`, `interp.c`) | sector lists | choice of sectors, interpolation | boundaries | point to sector | planned (choice only) |
| inventory (`inventory.c`) | file offset, message number | `GRIB2Inventory`, `GRIB2RefTime` | steps by lengths, record padding, decoys | lists each message once | MessageTools, GribBytes |
| message selection tools (`split.c`, `chain.c`, ...) | file offset, message number | `GRIB2Split` | as the inventory | writes each message, and all of it | MessageTools |
| GRIB1, TDLPack decoding (`degrib1.c`, `tdlpack.c`) | - | section parsers | time ranges, tables | - | an outcome of the reader |
| GRIB2 unpacking (`../degrib-core/grib2api.c`) | - | `unpk_g2ncep`, `TransferInt`, `TransferFloat` | order of the points | the points in memory order | Transfer in GridValues |
| scan order (`../degrib-core/scan.c`) | - | `ScanIndex2XY`, `XY2ScanIndex` | index arithmetic | inverse of each other, and the order of the flag table | GridOrder, proved |
| metadata (`metaparse.c`) | grid and its attributes | `ParseGrid`; the other parsers | subgrid, missing values, bitmap, units | each value in its cell, no value taken for missing | ParseGrid in GridValues |
| weather, hazards (`weather.c`, `hazard.c`) | string table | parse, number the strings in use | marks set in one file and read in another | each string used has a number | numbering in GridValues |
| clock (`clock.c`) | - | `Clock_PrintDate`, `Clock_ScanDate`, `Clock_AddMonthYear`, `Clock_IsDaylightSaving2` | leap years, before 1970, 400 years | agrees with the calendar in every year | GregorianClock, proved |
| bit streams (`tendian.c`) | bit position | `fileBitRead`, `fileBitWrite` | bits across bytes | inverse of each other | planned |
| error stack (`myerror.c`) | message buffer | `errSprintf` | buffer growth | keeps the messages | planned |
| command line (`userparse.c`, ...) | options | parse | - | - | options are constants of the models |
| output formats, graphics, Tcl | - | - | text, floats, I/O | - | not modelled |

The libraries beside degrib in `src/src/` (gd, libpng, jasper, libxml, netcdf,
zlib, emapf-c, dwmllib) are third-party or separate programs and are left aside.

## 2. The modules

```
GribFiles ── GribReader ─┬─ DegribConvert ──┐
                         ├─ GribProbe ──────┼─ refine GridDelivery
                         ├─ StormTotal      │
                         └─ Grib2Database ──┘
                             │      └── DatabaseProbe     (a probe beside the writer)
                             │ Store!Put
FlxIndex ── refines ── FlxStore
GribBytes ── MessageTools                        (messages among bytes)
GridOrder ── GridValues                          (the values of one grid)
GregorianClock
GribReaderProofs ─┬─ DegribConvertProofs         (theorems)
                  ├─ GribProbeProofs
                  ├─ StormTotalProofs
                  └─ Grib2DatabaseProofs         (also of DatabaseProbe)
FlxIndexProofs, MessageToolsProofs
GridAndClockProofs                               (of GridValues and GregorianClock)
```

**GribFiles** is what the input looks like to the reader: a list of files, each a
sequence of messages with an edition, a sequence of grids, whether Section 0 is
accepted and how many grids decode.  Bytes after the last message are a message
whose Section 0 is not accepted.

**GribReader** has the reader's state (`msgPos` for the file position, `ipack`,
`f_endMsg`, `subgNum`) and what one successful call does to it; callers extend it.
In degrib `f_endMsg` and `subgNum` are locals of the callers, which is why a
caller decides when they are reset: `Grib2Convert` at each file (action `Enter`),
`Grib2Database` never between files.

**GridDelivery** is the abstract specification of a command that walks through
files: the grids asked for are delivered in file order, each once; the command may
give up, and ends well only when all have been delivered; and it does end.

**DegribConvert** (`commands.c:911-1020, 1131-1202`), **GribProbe**
(`probe.c:825-1035`) and **Grib2Database** are loops over GribReader that are shown
to implement GridDelivery, the latter two only without the grids they lose.  In
each, `pc` is the place in the C function, and an action runs from one call that
may fail to the next.  `healthy` is the health of what lies outside (files open,
values in range, outputs can be written), chosen at the start, so that a failure
may but need not happen.

**StormTotal** (`commands.c:700-881`): one action for each way through the loop's
body, with one point of the grid.  That one point is enough: the loop treats all
points alike.  Element, unit and map projection are one attribute, `element`.

**FlxIndex** (`database.c`) is the buffer, operation by operation.  A cell is one
field of the format, and lengths count cells; fields that are only ever copied or
compared together are one (`tag` of a super header, `place` of a PDS), and they are
sequences of varying length, so that lengths matter as they do in the code.
**FlxStore** is the map it implements: a grid that is inserted replaces the one of
its key.  The refinement mapping `Contents` reads the buffer the way the probes
do (`ReadSupPDSBuff`, `ReadPDSBuff`): from one super header to the next by its
size, but inside one field by field, and not the way `InsertPDS` does.

**Grib2Database** (`cube.c:49-370`, `writegra.c:265-362`, `writeflt.c`, `OpenFLX`
and `WriteFLX`) uses FlxStore for the index in memory, which FlxIndex justifies.  A
grid file is a sequence of grids, and an offset a number of grids.  Opening a grid
file (`OpenGridFile`, where `gribWriteFloat` truncates it; `OpenCube`, where
`WriteGradsCube` truncates it or finds its end), writing the grid, inserting it, opening
the index (which truncates it) and writing it are separate actions; `Crash` may come
between any two and leave a torn grid.  `RunAgain` starts the command anew with
other files and options on what is on the disk.  `curMsg`, which the code does not
initialize, starts with any value of `Garbage`.  The history variable `cutOff` records
that a run was killed between truncating and writing the index.

**DatabaseProbe** (`genprobe.c`) composes Grib2Database with a probe: a second
process with its own variables, which reads the index of the database that is being
written (and of an archive nobody writes) and the grid files, while the writer goes
on.  `ReadFLX` copies the index; `ChoosePDS` takes the next entry that passes the
filters and is not matched yet, and opens its grid file; `FillValue` reads the value
at the entry's offset, in a step of its own because the writer may get between.  A
failure moves on to the next index file and keeps the matches (`NextIndex`).

**GribBytes** is GribFiles one level down: messages of a length in bytes, preceded
by headers, followed by padding or trailing bytes, cut off at the end of the file, and
with data that look like the start of a message (decoys).  `ReadSECT0` is the search
for the next start.  `ByteListsAssumption` says what a file is: there is one, headers
are ones that `ReadSECT0` accepts (`LeastLen`; it returns an error for other versions and
for lengths that cannot be), decoys lie inside their message, and of a message that is
cut off there is as much as `ReadSECT0` looks at (otherwise its bytes are trailing bytes).
The larger search limit for `.tar` archives is left out.  **MessageTools** has the four commands that walk through such
files: the inventory, the reference time and the splitting, whose loops differ only in
what they do with a message and how they step over it, and the search for the
message of `-C -msg n`.

**GridOrder** is `scan.c`.  **GridValues** follows one grid: `Unpack` puts the points
in memory order (`grib2api.c`), `Decode` is `ParseGrid` (`FirstWalk`, `Readjusted`,
`Masked`) and the numbering of weather strings in `ReadGrib2Record`, `Store` is what
`WriteGradsCube` and `gribWriteFloat` write of it, `ReadBack` is `gribReadFloat` and
`Probe` is `genCubeFillValue` with `getCubeValAtPnt`.  Memory that nobody wrote, or
that lies beyond an array, has a value of `Strays`.  The order of the points is
compared with a walk over the grid as GRIB2 flag table 3.4 defines it (`Walk`), not
with `ScanIndex2XY`.  Values are integers, conversions linear, and a coarse `Ulp`
stands for the decimals that are stored.  `Decodable` and `Storable` name the messages
for which the code does what the properties say (see section 3).

**GregorianClock** is the calendar arithmetic of `clock.c`; a clock is a day and a
second of the day.  Its state is a clock that is moved day by day beside a calendar
that knows nothing of day numbers.  The loops that walk through years are recursive
functions of the number of days or years that are left and of the year they have come
to (`YearsForward`, `YearsBack`, `DaysUp`, `DaysDown`).  A day number is an `sInt4` in the
code, which is enough for more than five million years, and an integer here.  The
number YYYYMMDDhhmmss is a record of its fields, so that what is said of printing and
scanning it is true of the years 0 to 9999, which it has digits for.

## 3. The runs

Bounds are those of the `MC` modules.  Deadlock is checked: a command that has
ended stutters (`Terminated`), and nothing else may be stuck.  The exceptions are
`grid_and_clock`, `grid_corner` and `daylight_end`, whose walks through the data end.

| run | shows |
|---|---|
| `convert` | `DeliversWhatIsAsked`: `-C` refines GridDelivery for `-msg all` and for `-msg n.k`; `HealthyRunSucceeds`: with sound input it reaches the end. All pairs of files of at most two messages, of one, two and three grids, some undecodable, and trailing bytes; and three files with an empty one and TDLPack around a three-grid message. Two messages are the least with "the next message" after a multi-grid one; two files the least with a count carried over. |
| `storm_total` | `TotalsTheWindow`, `TellsAnEmptyWindow`, `Terminates`: all files of up to three one-grid messages before, across, inside and past the window; the total is compared with a sum over the file (`TotalTo`) that knows nothing of the loop, and its time range with the first and the last message inside; the decision that there is nothing to convert, which the code takes from the last message read, is compared with whether some message of the file lies inside |
| `probe` | `ProbesAllButATail`: refinement of GridDelivery for what the loop reaches |
| `flx_index` | `SizesAgree`, `InOrder`, `ImplementsStore`: all orders of inserting six grids of two elements, two reference times, three lengths of tag, two grid definitions and three valid times, one of them replaced by a record of another length, with writing and reading in between |
| `database_forget` | `ReturnedIndexIsSound`, `AppendForgetsNothing`, `AddsAllButATail`: three runs with `-Append`, cube and `.flt` runs mixed, `-msg 0` and `-msg 2`, over lists of two and three files (an empty one between two, a multi-grid message at the end of one and of the last), failing; those with a cube also killed. Three runs are one to index, one to be killed and one to forget. |
| `database_probe` | `IndexSound`, `SaveKeepsAndAdds`, `ProbedIsStored`, `FindsEachOnce`, `ProbeEnds`: a probe of the live database and the archive, in either order, beside three runs with `-Append -Cube`, failing or killed anywhere. Three runs are one to build, one to be killed and one to overwrite what the probe still knows. Here `curMsg` starts with 0 and `-msg` is 0; `AppendSound` is proved for all. |
| `message_tools` | `InventoryIsFull`, `RefTimeIsOldest`, `SplitIsExact`, `FindsInCleanFiles`, `ToolsEnd`: one or two of ten files with GRIB1, GRIB2 and TDLPack messages, headers just within and just beyond the search limit, decoys, trailing bytes and cut-off messages. One decoy, one padded message before another and one cut-off are enough for a step that is wrong by a byte to go astray. |
| `grid_and_clock` | `DecodesInPlace`, `MissingIsApart`, `StatisticsAreExact`, `NumbersStringsInUse`, `ReadsBackWhatWasDecoded`, `ProbesWhatWasDecoded`: oblong grids in all 16 orders, whole and in part; all fields of a small set of values with one or two missing values within, at the edge of and beyond the range, before and after a unit conversion; bitmaps; string tables; both orders of rows in the file, windows and points inside, across and outside the border. A 2 by 3 grid is the smallest in which every slip of rows, columns, first line and last line shows. And of the calendar `DatesAreRight`, `ScanInvertsPrint`, `AddsMonths`, `DaylightIsRight`: every day from 1966 to 2033, which has every kind of year under both daylight rules, and spans at 1568, 1599, 1899, 2098, 2368 and 2768, where centuries turn and where the periods of 400 years around 1970 meet. The two have no state in common: the messages are decoded while the clock is at rest, and the clock walks while no message is being decoded (`MCGridAndClock`), so that the run has the states of the one and of the other, not their product. |
| `database_tail` | expected violation: the end of a multi-grid message is lost |
| `message_find` | expected violation: `-msg 2` stops at the padding of a TDLPack message |
| `grid_corner` | expected violation: a missing fourth corner is interpolated |
| `daylight_end` | expected violation: 1 is returned at the second at which daylight saving time ends |

The expected violations are disagreements between the code and its own documents or
comments; `PROJECT.json` quotes both under `findings`.  The model says what the code
does, so `ProbesAllButATail`, `AddsAllButATail`, `FindsInCleanFiles`,
`ProbesWhatWasDecoded` and `DaylightIsRight` state what does hold in spite of them.

### What the passing runs leave out because the code fails there

Each of these was found while modelling; most are in the hazard list.

* `StormTotal` sets `subgNum` before the loop only, so that it adds the first grid of
  a two-grid message again and again and does not end; all that is checked and proved of
  it is about files whose messages have one grid each.  It calls `MainConvert` without a
  total when the last message starts before the window and ends in it:
  `TellsAnEmptyWindow` says that it does so for these files (`EndsAcrossTheStart`) and
  for no others.
* Without `-Append`, a `Grib2Database` that gives up on a later input file returns
  with a new cube beside the old index.  A GRIB1 accumulation is indexed by the start
  of its time range; totals that start together replace each other.  With `-msg n`
  the uninitialized `curMsg` decides which message is added.
* A kill between truncation and write of the index leaves it unreadable, and the next
  `-Append` run starts anew: `AppendForgetsNothing` and `ProbedIsStored` are stated
  while `cutOff` is false.  A `.flt` run that is killed leaves a torn grid under an old
  entry: kills are checked for runs with `-Cube`.
* `ParseGrid` readjusts missing values and applies the bitmap over the whole grid when
  `Grib_Data` is a subgrid, shifts the columns of a subgrid that begins left of the
  grid, never finds that a bitmap's 9999 is also a value, and ignores the bitmap when
  the data have missing values.  `Decodable` says this of a message: a subgrid begins
  inside the grid; a bitmap comes with `f_miss` 0, no subgrid, no string table and no
  value 9999; and with missing values in the data and a subgrid or a table the converted
  values stay below the missing values, so that nothing has to be readjusted.  `MCGridValues` lets TLC check that all
  messages of the run are decodable.
* `gribReadFloat` finds the rows of a subgrid in a file with the top row first only
  when the subgrid is as far from the top as from the bottom (`RowsAreFound`).  The
  index does not say what the missing value of a grid is, and the readers take it to
  be 9999 (`UsesUndef`).
* `Clock_IsDaylightSaving2` returns 1 at the very second at which the comment above it
  says that it returns 0: `DaylightIsRight` says nothing of that second, and
  `ClocksArePutBack` what the comment does.  Before 1970 it indexes its tables with a
  negative number, so that both start with 1970.
* The counts of grid definitions, super headers and PDSs wrap at 65536 and the index
  with them.  FlxIndex keeps their width (`IncrShort`); `CountsFit` says that there are
  too few grids for that, and `MCFlxIndex` assumes it.
* `TransferInt` and `TransferFloat` would put the missing value of a masked point in
  the wrong place when `iclean` is not 0 (`grib2api.c:426`: `iain[i]`, not `iain[curIndex]`); degrib
  always passes 0, which is what is modelled.

For each property a definition named as a mutant in the modules is the model with
one plausible slip (a missing reset, a guard dropped, an off-by-one); put in the
place of the original it makes TLC find the property violated.

**Fairness.** Each command has weak fairness of its next-state relation and no more:
the program is a single thread, so while it has a next step it takes one.  It is
needed for `HealthyRunSucceeds`, `Terminates`, `ToolsEnd` and the "it ends" part of
GridDelivery.  `ProbedSpec` has it for the writer and for the probe separately: they
are two processes of the operating system.  GridValues and GregorianClock are walks
through data; nothing is claimed of their ends, and no fairness is stated.

## 4. The proofs

`GribReaderProofs` has the lemmas about the reader that every caller needs: a call
that succeeds works on a message of the files (`SourceIsMessage`), returns one of
their grids and keeps the reader in order (`ReadGrib2RecordTypes`), and
`FindGRIBMsg` stays in the file.  It also has the lemmas about positions in the
files: what lies before the next position is what lay before this one and the grid
here (`GridsBeforeAfter`), also from file to file (`GridsBeforeEnds`).

`DegribConvertProofs` proves for any input files and `-msg` options:

* `TypeCorrect`: `Spec => []TypeOK`.
* `DeliversTheAsked`: `degrib -C` implements the safety part of GridDelivery, with
  `-msg all` and with `-msg n.k`.  For `-msg all` the invariant (`AllInv`) names a position
  `Pos`, computed from `pc`, `inName`, `msgPos`, `f_endMsg` and `subgNum`, and says that what
  has been delivered is exactly the grids before it (`DeliveredInv`); for that, the four
  variables must be consistent in the loop (`LoopInv`): between messages `subgNum` is 0,
  inside one `IS->ipack` holds the message before the file position.  `ConvertGridMoves`
  shows that an iteration reads the grid at `Pos` and moves `Pos` to the next one
  (`GridsBeforeAfter`); `GridsBeforeEnds` covers the steps between files.  For `-msg n.k`
  the invariant (`OneInv`) says that `curMsg` is the number of messages in the files
  gone through, and is less than n (`CountInv`), until `FindGRIBMsg` has put the file
  position before the n-th message (`FoundInv`, `FindsTheMessage`).  That at most one grid
  is asked for (`OneIsAsked`), and none if the files end first (`NoneIsAsked`), follows
  from the numbering of the messages over the files (`MessagesCount`, `MessagesGrow`,
  `MessageNumbers`).

`GribProbeProofs` proves for any input files `TypeCorrect`, and `ProbesInOrder`: `-P`
implements the safety part of GridDelivery for the grids its loop can reach.  The
invariant is that of `-msg all` above for one file; that nothing of the tail is
ever delivered follows from the loop's test (`ProbeGridMoves`), and that nothing else
is missing at the end from `AllBeforeTheEnd`.

`StormTotalProofs` proves for any file and window `TypeCorrect` and, if all messages
have one grid (see section 3), `TotalsInside` (`Spec => []TotalsTheWindow`) and
`TellsWhenEmpty` (`Spec => []TellsAnEmptyWindow`).  The
history variable `kept` lists what has been added.  `KeptInv` says that its messages
lie before the file position, which moves with each iteration.  `AddedInv` says that
it is exactly the messages read so far that lie inside the window, and `TotalInv` that
`grib_total`, `firstTime` and `timeRange` are the sum, the start and the range of that
list.  That the sum over the file (`TotalTo`) grows with the file as the loop's does is
an induction over messages (`TotalToSums`, `TotalToNext`).  For `TellsWhenEmpty`, `LoopInv`
adds that the loop does not fail on messages that can be added up (`LoopReads`), that
`msgEnd` is the end of the last message read, and that this is the last of the file or
past the window; `DecidesRightly` shows that the test on `msgEnd` then tells an
empty window, because the messages are sorted by their ends.

`Grib2DatabaseProofs` proves for every value of the constants that satisfies
`FileListsAssumption` and `DatabaseAssumption`:

* `TypeCorrect`: `Spec => []TypeOK`.  It needs `CurOK`: inside the loops a file is
  open, and the grid in hand is one of the files'.
* `AppendSound`: if all requests have `-Append` and `-Cube`, `Spec => []IndexSound`,
  for any files, number of runs, failures and kills.  `IndexSound` is not inductive:
  `FlushIndex` makes the index in memory that of the file, so `MemorySound` is needed
  for it; memory is sound because the cube only grows (`GrowthKeeps`), which is so
  because `f_delete` is set only when neither the file nor the memory has an entry
  (`DeleteIsSafe`), which in turn rests on `FileSound`'s "an unreadable index has no
  entries"; and an entry is right when it is made because its grid has already been
  written at `fltOffset` (`GridIsPlaced`).  TLC checked the invariant first.
* `ReturnsSound`: `Spec => []ReturnedIndexIsSound`, for cubes and `.flt` files mixed, if
  all requests have `-Append`, only those with `-Cube` are killed, and grids of
  different keys have different names (`NamesTellKeys`; the code has this from
  `GetOutputName`, and not always, see the hazards).  A `.flt` file is emptied before it
  is written, so `EntriesInv` allows one exception: the entries whose file is being
  rewritten (`BeingRewritten`), which belong to the key that is about to be inserted
  (`IsApart`).
* `SavesWhatItAdded`: `Spec => SaveKeepsAndAdds` if all requests have `-Cube`.
  `BooksInv` says of the index in memory, at each point of the loop, what the property
  says of the index that is written.
* `AppendRemembers`: `Spec => AppendForgetsNothing` if all requests have `-Append`.  It
  is a property of behaviours, `[](A => []B)`; `CarryInv` says that the memory has each
  key of the file, and `Remembers(k)` is inductive from the moment `k` is indexed.
* `AddsInOrder`: the safety part of `AddsAllButATail`, without hypotheses.  The position
  in the files and the next grid to be read are apart here, since `f_endMsg` and
  `subgNum` survive the end of a file; `OrderInv` says that what has been added are the
  grids before `Pos`, and `ReaderInv` that no grid lies between the message in
  `IS->ipack` and the position in the files.

Of the probe beside it, `Grib2DatabaseProofs` proves for every value of the constants
that also satisfies `ProbeAssumption`:

* `ProbeTypeCorrect`: `ProbedSpec => []ProbeTypeOK`.
* `ProbeFindsEachOnce`: `ProbedSpec => []FindsEachOnce`, for any index files and
  filters.  The invariant says of the index that is being walked what `FindsEachOnce`
  says of those that were: an entry is still to be looked at, or is the chosen one, or
  is not wanted, or has a match.  The writer does not occur in it: the walk is on a copy.
* `ProbeReadsWhatIsStored`: if all runs have `-Append` and `-Cube`,
  `ProbedSpec => []ProbedIsStored`.  The invariant of `AppendSound` is
  extended by `PinnedOK`: while `cutOff` is false, what the probe has copied from an
  index designates grids in the files as they are now (the cube only grows), because
  the live index that it copied can be read, or is about to be written, so that no
  run begins the cube anew (`GridsStay`, `IndexStays`).  `cutOff` is needed: TLC finds
  the run that overwrites a cube under a probe when it is left out.

`FlxIndexProofs` proves of the buffer, for any grids with tags and places of any length,
`TypeCorrect`, `SizesRight` (`Spec => []SizesAgree`), `KeepsOrder` (`Spec => []InOrder`)
and `RefinesStore` (`Spec => ImplementsStore`), under one hypothesis, `CountsFit`: there
are fewer different grids than a `uShort2` has values, so that the three 16-bit counts
do not wrap (where they do, the index is wrong; TLC checks that the run's grids fit).
None of the four is inductive, and a buffer that satisfies `SizesAgree` and `InOrder` can
still read as nonsense.  `IndexInv` says instead that there are a list of grid definitions
and a list of super records, each with its list of PDSs, of which the buffer is an
image (`Layout`: every record is spelled out between the `Offsets` of its start and of
the next one's), and that the lists are `Good`: definitions are distinct, super records and valid times
strictly in order, and every entry has the key of a grid.  Each way through `InsertGDS`
and `InsertPDS` is then two facts: that shifting the rest of the buffer and adjusting the
sizes gives an image of the lists with one record inserted or replaced (`SuperMoves`,
`ArrayInserted`, `ArrayChanged`, `SupersChanged`; cells that move together are `Moved`),
and that the lists stay good.  The counts are bounded by the number of grids because
good lists have no entry twice (`CountBound`).  Last, what the probes read of an image
are the `Entries` of its lists (`ReadsContents`), by induction along the walk, and of
these an insertion is FlxStore's `Put` (`InsertsGrid`); `ReopensGrids` is the same for
`WriteFLX` and `ReadFLX`.

`MessageToolsProofs` proves for any files that satisfy `ByteListsAssumption`, however
headers, padding, decoys and trailing bytes lie in them: `TypeCorrect`,
`ListsEverything` (`InventoryIsFull`), `SplitsExactly` (`SplitIsExact`), `FindsOldest`
(`RefTimeIsOldest`) and `FindsMessage` (`FindsInCleanFiles`).  All rest on `WalkInv`: in
the loop the walk is `At` some message, that is, from here `ReadSECT0` finds that message
and no other start (`IsNext`), and it has the next number.  `FindsNext` shows this of
`ReadSECT0`; `StepsOver` and its like show that the step of each command leads from
one message to where the next is found, exactly or, for `GRIB2RefTime`, before the
padding.  The file layout is a sum over messages, and the facts about it
(`TagsInOrder`, `OwnNumbers`) are inductions.  `ListInv`, `SplitInv` and `OldestInv` say of
the output so far what the properties say at the end.

`GridAndClockProofs` proves that `ScanIndex2XY` and `XY2ScanIndex` are inverse to each
other for grids of any size in all orders (`ScanIndexRoundTrip`, `XYRoundTrip`).
Turning a line and mirroring a coordinate are their own inverses (`TurnedTwice`,
`MirroredTwice`); the arithmetic is that quotient and remainder determine a number
and are determined by it, which the SMT solver needs spelled out.
`WalksAsTheFlagTable` says that the i-th step of the walk that flag table 3.4 describes
is at `ScanIndex2XY(i)`, by induction over the points.

On these rest the theorems about values, for grids of any size, in every order, with
any values, units, windows and points: `DecodedInPlace`, `MissingStaysApart`,
`CountsEveryCell`, `NumbersUsedStrings` and `ReadsBack` for `Decodable` messages, and
`ProbesDecoded` for those that are `Storable` too (no value is stored as 9999).  Both
hypotheses exclude only what the code gets wrong or cannot tell apart.  `ValuesInv` says
that the unpacked array holds in each cell the point that `XY2ScanIndex` gives it
(`MemInv`); that `truth`, which is built with the flag table, is the converted value of
that point; that the grid has the four properties; and that `CellInFile` is the rounded
cell (`FileInv`).  The loops of `TransferInt` and `ParseGrid` are modelled as functions of
the cell (`FirstWalk`, `Readjusted`, `Masked`), and `TransferGives`, `FirstWalkIs`,
`ReadjustedIs` and `ParsedIs` say what each leaves in a cell; the reference they are
compared with is the recursive walk over the grid.

The second half of `GridAndClockProofs` is about the calendar: for any years to start in,
any span, months, time zones and seconds, `PrintsTheDate` (`DatesAreRight`),
`ScansWhatItPrints` (`ScanInvertsPrint`), `AddsAnyMonths` (`AddsMonths`) and
`KnowsDaylightSaving` (`DaylightIsRight`, so of every second but the one at which
daylight saving time ends).  TLC looks at the years of the run; the theorems
hold in all of them.

* A day lies in one year (`SomeYearDay`, `OneYearDay`; `IsYearDay` says which and where in it).  A
  recursive function is a choice among the functions that satisfy its equation; to know
  anything of it one must show that there is one.  `TheYearDay` is such a function for
  `YearsForward` and `YearsBack` (`ForwardEquation`, `BackEquation`), the difference of two
  New Year's Days for `DaysUp` and `DaysDown`.  With the equations, inductions over the
  days or years that are left say that the walks end in the year of the day (`EpochIs`) and
  count the days between two years (`UpIs`, `DownIs`).  `LeapJump` is why four years may be
  taken at once.
* `MonthNumIs`, `NumDayIs`, `PrintDateIs` and `ScanDateIs` follow for every date of every year:
  the two directions are inverse to each other.
* `CalendarInv` ties the walk to this: the clock's day is the number of the calendar's date
  (`DayNumber`), and the weekday is that of the number.  It is inductive because the next
  date has the next number (`NextDayIs`), over ends of months and years.  TLC checked that
  it holds in the states of the run.
* `Starts2007`, `Ends2006` and their like show that the four tables and the week that some leap
  years are late hold the Sundays meant, for all weekdays of January 1st; `StartedIs` and
  `NotEndedIs` compare a second of the year with a date and its weekday.

Induction is done without the library's schemata, which take an operator: the set of
the numbers for which a claim holds is shown to be `Nat` (`NatInSet`) from the
well-foundedness of `Nat`.

Only model-checked: all liveness (that commands end, `HealthyRunSucceeds`, and with it the
fairness in GridDelivery).  Liveness and `ENABLED` are beyond TLAPS.

## 5. What is not modelled

Tables, text and floating-point arithmetic (metadata names, weather strings, map
projections, interpolation other than between the four corners, units other than
linear ones, output formats), bit packing and the encoder, and the user interfaces.
Memory management and options that only change what is printed are left out of the
modelled functions.  The width of counts is kept (`IncrShort`), that of lengths and
offsets is not.

By lines, most of `src/src/` is not degrib: libxml, netcdf, gd, libpng, jasper, zlib and
the tests and generated tables that come with them.  Nothing of these is modelled, so
the share of all the lines that the models cover stays small; of degrib's own files
the control logic of the commands that read, select, store and probe grids is covered,
and the tables (`grib1tab.c`, `metaname.c`) and writers are not.

## 6. Plan

In order of weight:

1. `Grib2DataConvert`: the messages it makes of database records, with `gribReadFloat`.
2. Widths: the `uShort2` counts and lengths and the `sInt4` offset of the index, with
   small widths as constants; failing writes in `WriteGradsCube`.
3. The sections inside a message: how `ReadGrib2Record` and `unpk_g2ncep` step to the
   n-th grid and when `endMsg` is set; `ReadGrib2RecordFast`.
4. GRIB1 time ranges; the choice of sectors in `grpprobe.c`.
5. `fileBitRead`/`fileBitWrite`, `errSprintf`, `chain.c`.
