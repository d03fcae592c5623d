# BetaWise in TLA+

BetaWise is a toolkit for writing applets for the AlphaSmart NEO and AS3000, two
battery-powered 68000 word processors: a compiler, a small C library over the
firmware's system calls (`os3k`), and applets, the largest of which is a BASIC
interpreter in assembly (EhBASIC). This directory models the parts of it whose
correctness depends on long histories: a text console on a scrolling LCD, a
compacting string heap, a program text that moves in memory while other things
point at it, an interpreter that is broken off and continued, keys that wait in
two places, a memory editor that survives bus errors, and two probes that must
leave the device as they found it.

Paths below are relative to `src/`. `asm` is `applets/EhBASIC/EhBASIC.asm`, `inc` is
`applets/EhBASIC/EhBASIC.inc`.

Contents: [The system](#the-system), [Modules](#modules), [What is checked](#what-is-checked),
[Disagreements found](#disagreements-found), [Bounds](#bounds), [Fairness](#fairness),
[Proofs](#proofs), [Not modelled](#not-modelled), [Plan](#plan).

## The system

Everything runs on one processor, without threads. The firmware sends an applet
*messages* (`MSG_INIT` once, then `MSG_SETFOCUS`, `MSG_CHAR`, `MSG_KEY`, `MSG_KILLFOCUS`
over and over); the library's `BwProcessMessage` looks at each one first and passes it to
the applet's `ProcessMessage`, which calls back into the library and the firmware. A call
that waits for a key may never return: the applets key takes the focus away in
the middle of it. What is hard is therefore not parallelism but state that outlives a
call: registers and variables set on one path and relied on by another, addresses
kept while memory is rearranged, resources that are full to the last byte, calls that are
abandoned, and errors that leave half of a change behind.

| component | source | state | operations | depends on |
| --- | --- | --- | --- | --- |
| Console | `os3k/os3k.c`, `os3k.h` | current font, LCD size, scroll, row, column, text size; the firmware's cursor structure; the LCD's start-line register and RAM | messages, `ClearScreen`, `SetCursor`, `fputc` and what is built on it, `getchar` | firmware cursor and raster calls; font applet |
| String space | asm 3835-4400, 1748-1801, 3400-3550, 3637-3652, 3729-3811 | string descriptors in variables and on a four-entry stack, the bytes between `Earryl` and `Ememl` | literals, makers, concatenation, slices, case conversion, comparison, output, `LET`, `FRE`, `FN`, `DIM`, garbage collection | program store (literals), variables |
| Program store | asm 525-633, 888-975, 1138-1386, 3272-3332, 3696-3727 | the chained lines, the regions behind them, execute, continue and DATA pointers, function bodies | enter a line, `NEW`, `CLEAR`, `RUN`, `GOTO`, `STOP`, `CONT`, `RESTORE`, `READ`, `DEF`, new variables | line input |
| Control stack | asm 431-633, 1005-1475, 1502-1602, 2062-2180 | execute and continue pointers, current line and line of the break, `GOSUB`, `DO` and `FOR` frames on the machine stack, base stack pointer | the interpreter loop, `IF`, `GOSUB`, `RETURN`, `DO`, `LOOP`, `FOR`, `NEXT`, `ON`, breaks, `CONT` | program store, line input |
| Line input and Ctrl-C | asm 79-105, 637-707, 1195-1203, 2080-2180, 7157-7196 | the keyboard's queue, input buffer, one kept key and its life | line editor, `GET`, `INPUT`, Ctrl-C check, crunching | console |
| Terminal output | asm 1840-2070, 1283-1286, 7270-7344 | position on the line, width, tab size and limit, nulls | `PRINT` with comma, `TAB(`, `SPC(`, numbers, `WIDTH`, `NULL`, echo, prompts | console |
| Expressions, numbers, formatting | asm 2370-3000, 4415-7150 | two floating-point accumulators | operators, conversion, trigonometry, `USING$` | string space |
| EhBASIC wrapper | `applets/EhBASIC/wrapper.c` | none of its own | start on `MSG_INIT`, resume on every `MSG_SETFOCUS` | console, all of EhBASIC |
| DebugTool | `applets/DebugTool/DebugTool.c` | window, cursor, rows, mode, address to go back to, command buffer, bus error handler | view and edit memory, jump, call a system call | console |
| File probes | `applets/FileSetFolderProbe`, `applets/FileGetFileInfoProbe` | results; the device's current folder and clipboard mirrors | fixed sequences of File API calls and checks | firmware file system |
| Font, greeting | `applets/NeoFontTerminal`, `applets/HelloWorld` | the font's header | hand over a font; print | console |
| System call stubs, headers | `os3k/syscall.c`, `os3k/*.h` | none | one trap per call | firmware |
| Toolchain, docs | `m68k-elf`, `docs` | none | relocation loop of a test's start file | - |

The hard behaviour of each part, and what makes it correct:

* **Console.** The LCD RAM is a ring of pixel lines; scrolling moves a register and erases
  the row that enters. The pixel position in the firmware's cursor structure and the text
  position are advanced separately, `fputc` wraps on one and backspaces on the other.
  The font may change between `MSG_INIT` and `MSG_SETFOCUS`. The firmware draws a cursor block
  that must be hidden while the RAM or its position is written. *Correct* means: the two
  positions agree, a row never straddles the end of the ring, register and variable agree
  while the applet has the focus, no cursor block is left behind, and the glass shows what
  an abstract scrolling window of text would show.
* **String space.** Any allocation may move every string. *Correct* means: every variable and
  every pending operand reads back as the text it was given, the four-entry descriptor
  stack is empty after each statement, the space between the arrays and the strings stays
  ordered, and memory is reported full only when it is.
* **Program store.** Editing moves the text down and up again and rebuilds the chain; `CONT`,
  `READ`, `FN` and the running program hold addresses into it. *Correct* means: the chain
  leads through all lines in ascending order, the program is what the user typed, and no
  pointer survives the text it points into.
* **Control stack.** A handler leaves its return address on the stack under the frame it pushes;
  breaks drop one address and must find exactly one there, but `IF` calls the statement behind `THEN` and so puts another one on top. `GOTO` starts its search at the
  execute pointer, trusting the current line number. The applets key abandons the
  interpreter anywhere, and `EhBASIC_Resume` takes a new stack but keeps everything else.
  *Correct* means: every line is found, `RETURN` and `LOOP` find the frame pushed last or none, and
  `CONT` neither repeats nor skips a statement.
* **Line input and Ctrl-C.** A key waits on the system's queue or in the byte the Ctrl-C check
  keeps for `GET`; a running program scans the keyboard only while a key is held. *Correct*
  means: keys are delivered once and in order, none is left lying, and Ctrl-C stops a program.
* **Terminal output.** `TPos` is a byte that counts what is drawn, taken modulo the tab size on an infinite
  line and back by one at a backspace; comma, `TAB(`, new lines and the editor rely on it. *Correct*
  means: it says where the line is, and the echo is the line in the buffer.
* **DebugTool.** A cursor kept over a change of the number of rows, a window that scrolls under
  it, one variable for the bus error handler that was there before. *Correct* means: the screen shows the
  memory at the address it names with the cursor on the digit that a key changes, an access that
  faults is always caught, and the whole is a plain hex editor.
* **File probes.** An executable specification of firmware calls. *Correct* means: the verdict is
  right on every firmware, and a run leaves neither another folder nor addresses of its stack frame behind.

`PROJECT.json` lists each hazard at its line with the properties that watch it.

## Modules

| module | role |
| --- | --- |
| `Terminal` | abstract: a window of `Rows` by `Cols` characters with a write position, the promise the console makes |
| `Console`, `MCConsole` | `os3k.c` on the LCD RAM; implements `Terminal` (`ShowsTerminal`); the property about whole typed lines; instances |
| `TerminalLine`, `MCTerminalLine` | EhBASIC's output and line editor *on* `Terminal`; instances |
| `Session` | applets and the focus, the keyboard's queue and EhBASIC's readers of keys |
| `BasicControl` | the interpreter loop, its stack and breaks |
| `StringSpace`, `MCStringSpace` | descriptors, descriptor stack, string space and collector; instances |
| `Listing` | abstract: the program is a set of numbered lines |
| `ProgramStore`, `MCProgramStore` | the text in memory and what points at it; implements `Listing` (`ListsProgram`); instances |
| `HexEditor` | abstract: a caret on a circle of addresses |
| `DebugTool`, `MCDebugTool` | `DebugTool.c`; implements `HexEditor` (`IsHexEditor`); instances |
| `FileProbes`, `MCFileProbes` | both probes, a firmware with or without a deviation, other applets; instances |
| `ConsoleProofs`, `BasicControlProofs`, `SessionProofs`, `DebugToolProofs`, `FileProbesProofs`, `ProgramStoreProofs`, `TerminalLineProofs`, `StringSpaceProofs` | theorems about the module of the same name with their proofs |

The modules meet where the code's parts do. `Console` promises `Terminal`, and `TerminalLine` is built on
`Terminal` and not on LCD RAM. `Session` decides when a line editor, a Ctrl-C check or a `GET` gets a key and which,
`BasicControl` what a break does to the interpreter; the "applets" key of the one is `Leave` of the other. In `ProgramStore` a
running program may go to any statement of the text, in `BasicControl` exactly where its stack leads, over a program that is not edited.

### Console

The C globals and the hardware are one record `con`; every C function is an operator from a
state to the state after the call, so that nested calls (`fputc` calls `SetCursor`, which
calls `SetCursorMode` and `RasterOp`) compose as in the C code.

| model | code |
| --- | --- |
| `font`, `maxRow`, `maxCol` | `g_pCurFont`, `g_MaxRow`, `g_MaxCol` |
| `con.row`, `col`, `roll` | `g_CurRow`, `g_CurCol`, `g_CurLcdRoll` |
| `con.x`, `y` | `CURSOR_STRUCT->x`, `->y` |
| `con.start`, `pix` | what `_LCD_SetScreenRoll` and `_LCD_AllPixOn` last sent to the LCD |
| `con.ram` | display RAM: for each page of 8 lines and each column of 6 pixels, the glyph in it |
| `con.torn` | history: RAM or position was written while the cursor block was shown |
| `MsgInit`, `MsgSetFocus`, `MsgKillFocus` | the cases of `BwProcessMessage`; `MsgSetFocus` includes the `ClearScreen` that every applet using the console makes first |
| `CallClearScreen`, `CallSetCursor`, `CallSetCursorMode`, `CallFputc` | calls by the applet while it has the focus |
| `Bell`, `Backspace`, `NewLine`, `CarriageReturn`, `PutGlyph` | the branches of `fputc` |

`SetCursorMode`, `DrawBitmap`, `RasterOp` and `_OS3K_ClearScreen` are firmware calls,
modelled from how `os3k.c` uses them.

### StringSpace

`heap` is the machine state: `earryl`, `sstorl` (the two ends of free memory), `mem` (bytes),
`vars` (descriptors of the string variables), `slots` and `depth` (the descriptor stack: memory
and how much is in use), `utl` (`Sutill`), `err` (the error about to be reported), `exposed`
(history, see below). `args` is the expression in progress: for every operand the *address
of its descriptor*, as in `FAC1_m` and on the machine stack, and the text the program should
see in it. `want` is the text the program has assigned to each variable, `frames` the
function being evaluated.

Operators carry the label they translate in their comment: `Make` is LAB_2115, `Collect` LAB_GARB,
`TestHighest` LAB_2206, `Push` LAB_RTST, `Pop` LAB_22BA, `Concatenate` LAB_224E, `SliceOf` LAB_231C,
`LowerCase` LAB_LCASE, `Assign` LAB_17D6, and so on. An operator passes the heap through
unchanged once `err` is set, as the code does not return after an error. Actions are the
interpreter's routines in the order an expression may call them; each one does the whole
routine, collections included. `Pass` is one look at every descriptor, a recursive function over
the list of them, and `Collect` one more pass than there are descriptors, because every pass but the last moves or skips one. A copy whose word
count wrapped sets the error "wild", behind which nothing follows, so that a run in which it happened would end in a deadlock.

`exposed` becomes true when one of the disagreements below has had its chance: a collection with a string at
the very end of the arrays, a collection while two descriptors name the same bytes of string space (`FN` leaves its argument's on the stack) or while a
routine holds the address of bytes instead of a descriptor, or a write past the end of the arrays. `IntactUnlessExposed` then says
that these are the *only* ways to lose a string.

### ProgramStore

A cell is a longword of a line's header, a word of its tokens or its `[EOL]`; `mem` is the
program, `regions` the five pointers behind it, `execs` the bodies of the functions `DEF` has made,
`exec` register a3 (0: waiting for a command), `Cpntrl` and `Dptrl` the continue and DATA
pointers. `EnterLine` is LAB_1295 as a whole: search, delete, insert, re-chain, clear. `Statement` lets a
running program reach any statement, which stands for `NEXT`, `LOOP`, `RETURN` and `ON`; `Goto` is LAB_GOTO itself.
`RUN n` is `CLEAR` and `GOTO n`, and is the sequence of those two actions.
The code has two loops that follow pointers, LAB_SCLN's and the one that chains (LAB_1325). Both are a `Walk`, the cells passed on the way:
`Search` takes the first line on it whose number is not too small, `Rechained` gives every line on it its new pointer. A walk leads upwards only, as does
every pointer the code stores, so that it ends whatever the cells hold.

### BasicControl

| model | code |
| --- | --- |
| `mode` | where the interpreter is: the prompt (LAB_127E), the Ctrl-C check (LAB_15C2), behind it (LAB_15D1), a handler, the prompts of `INPUT`, `LIST`, or without the focus |
| `at` | a3, as a line and a number of statements passed; `InBuffer` is the line typed at the prompt |
| `Clinel`, `Blinel`, `Cpntrl` | current line, line of the last break, continue pointer |
| `stack` | the 68000 stack down to its base, top first: frames of `GOSUB` or `DO`, each on the return address its handler left there and on any stray addresses under that one |
| `strays` | stray return addresses above the top frame |
| `ifs` | how many `IF`s called the statement that is executed (asm 1543) |
| `shadow`, `due`, `lost`, `strayed` | histories: frames as the program sees them; the place behind the last statement executed; whether the applets key was pressed since the program began; whether a break has left an address behind since the last flush |

The program is *any* program of `Lines` lines of `Statements` statements: a step executes whichever statement it likes.
`Fetch` is LAB_15D1 to LAB_15F6, `Jump` LAB_GOTO with its choice where the search starts, `Break` LAB_163B,
`Checked` and `CtrlC` the two ways out of LAB_15C2. `If` is a true condition with a statement behind `THEN` that has to be called; a false one goes on with `Else` or `SkipLine`, and
`IF c THEN 100` or `IF c THEN RETURN` is the `Goto` or `Return` itself, as in the code. `ON` is the `Goto` or `Gosub` it picks.
A handler looks for its frame four bytes below the top, so it `Finds` it only with no `IF` and no stray address in between. A break drops one address:
`Stop` and `InputNull` leave those of the `IF`s behind, `MoreNull` and `ListCtrlC` one more (`LeaveAddresses`). `InputGiven` is an answer: enough, too short, or not a number, when `INPUT` starts anew.
`Leave` and `EhBASIC_Resume` are the applets key and `MSG_SETFOCUS`. `EhBASIC_Resume` takes a new stack and leaves `shadow` as it is, so that `FramesFound` also asks what a continued program finds on the new one.

### Session

`Press`, `Release` and the scan move a key from `down` and `fresh` to `queue`, in either order when a scan finds two;
`VEC_IN` is the reader that EhBASIC's routines share, with a scan only when the caller waits or a key is held. `EditLine`, `Check`, `Get`
are LAB_1359, VEC_CC and INGET, `Statement` any other statement, `Getchar` the loop of `getchar` in an applet in C, `System` the menu. `ccbyte` and
`ccnull` are the code's. `WrapperSetFocus`, `HelloSetFocus` and `ReaderSetFocus` give an applet the focus: EhBASIC, one that reads no keys and leaves them to the system, one that calls `getchar`. What it draws with then is in
`Console`. `Leave` is the applets key, a call that does not return.
Keys are numbered as they come on the queue, which `GetsInOrder` compares.

### TerminalLine

Output is a record `t`: `TPos`, the settings of `WIDTH` and `NULL`, the abstract window, and histories of where the line and the edit began. Every routine is an operator on it: `PRNA` LAB_PRNA
(with its nulls behind a CR), `CRLF`, `PrintMany`, `Comma` LAB_188B, `Tab`/`Spc` LAB_18A2, `PrintNumber` LAB_1831, `Type` and `RubOut` the editor. `SetWidth`, `SetWidthAndTab` and `SetTab` are the paths through `WIDTH`,
`HalfDone` the one that stops in its middle, and whose error message is printed with the new width already (`Resized`). `t.off` records that `TPos` went out of step by one of the listed causes; `PositionCounts` says there is no other.

### DebugTool

The applet's globals, the bus error vector, the memory and the LCD are one record `d`, and every C function an operator on it, as in `Console`. A memory operation
that faults is seen by the handler that is installed *then*: `trapped` records one under the system's. `shown` and `caret` are what was drawn last, so that `ShowsMemory` compares them with
the memory at the address that `g_pAddress` names. Prompts are states of their own (`prompt`), since the focus may be lost in them for good. A call through the dialog may
change any writable memory. `HexEditor` knows neither window nor rows, except that a page is the size of one of the two screens.

### FileProbes

A run of a probe is one step: no message is handled in the middle. The File API is external and has a *quirk*: it keeps the contract, or
breaks it in one of eight (`FileSetFolder`) or six (`FileGetFileInfo`) ways. One of each kind the probe cannot see: a firmware that takes an empty slot (`any_slot`), and one that ignores null pointers (`keeps_the_mirrors`). The cases are operators on the API's state and the results, in the source's order with its early
returns. `smashed` records that another applet's clipboard call wrote to a mirror that a run left bound.

## What is checked

Passing runs:

| run | configuration | what it shows |
| --- | --- | --- |
| `console_window` | 12 by 32 pixels, 16-line font: 2 rows, 2 columns, two glyphs; 7 778 states | every invariant of the console, the refinement of `Terminal`, and that output leaves the cursor mode alone |
| `console_terminal_font` | 12 by 24, 8-line font taken over at `MSG_SETFOCUS`: 3 rows; 13 826 states | the same with a ring of three rows, where two scrolls do not cancel out, and a change of font |
| `strings_expressions` | 2 variables, 2 pending operands, 6 bytes of string space; 57 782 states (with 8 bytes, `Ememl = 14`, 955 124 states and the same answer, in four minutes) | every expression and assignment with collections in between: nothing is lost, leaked or wrongly refused |
| `strings_arrays` | 1 variable, strings of two lengths, functions, new variables, `DIM`, in 18 bytes; 846 606 states | the same while the end of the arrays moves towards the strings |
| `program_runs` | 3 line numbers, lines of two lengths, functions, variables and arrays; 59 865 states | the chain, the listing and every pointer into the text, over all edits of a program that runs, stops and continues |
| `basic_control` | any program of 2 lines of 2 statements, 2 frames, 1 stray address; 2 382 246 states | lines, frames and statements are found through every break, continuation, command and error, or missed where the properties say so |
| `session` | 3 applets, 5 kinds of key, 5 presses, 2 held at a time; 45 023 states | the order of keys and, under fairness, that they are noticed, taken, and stop a program |
| `terminal_line` | window of 2 by 3, lines of 5 typed and 8 printed, 5 widths, 5 tab sizes; 1 436 700 states | the position counts what is drawn, and what relies on it |
| `debug_tool` | 24 bytes with RAM, a write-only port and a hole, window of 1 row, or 2 with the terminal font; 279 938 states | cursor, screen and faults, and the refinement of `HexEditor` |
| `file_probes` | 6 applets, the three stock ones installed or not, an empty slot, 14 deviating firmwares and a conforming one; 949 608 states | which firmwares the verdicts tell apart, and what the probes leave behind |

Properties:

* `CursorOnLcd`: the pixel position is the one of the text position, through every scroll and
  wrap; a row never straddles the end of the ring.
* `RollMatchesLcd`: the register equals `g_CurLcdRoll` in focus and 0 outside.
* `NoTornCursor`: no call moves the cursor or draws while the block is shown.
* `OutputKeepsCursorMode`: `fputc` restores the mode over its own nested `SetCursor`.
* `RubbedOutLineRetypes`: a typed line rubbed out with backspace, space, backspace leaves what
  blanks would have, and typing it again gives the same screen, position and scroll, from every
  start and over every wrap, for lines that fit on the screen wherever they begin (`LineLength`). A longer line
  is another matter: a backspace from the first cell scrolls the screen down, and what left it does not come back.
* `ShowsTerminal`: the ring and the register together implement `Terminal`. The abstract module
  states the one thing a user may not expect: a row that scrolls in at the top after a backspace
  from the first row is erased only from the cursor on.
* `IntactUnlessExposed`, `NoDescriptorLeak`, `SpaceOrdered`, `MemoryErrorIsReal`: as listed under
  the system, for string space.
* `ChainInOrder`: every next-line pointer names the cell behind its line's `[EOL]`, the numbers
  ascend, and the end marker is the last cell below `Sfncl`.
* `PointersCurrent`: execute, continue, DATA and function pointers are null, at the start of
  the program, or at a token or `[EOL]` of a line it has *now*.
* `ListsProgram`: every step is a step of `Listing`, and entering a line has the effect on
  the listing that typing it promises.
* `LinesReachable`: a search that starts at the execute pointer passes over no line, in every state in which a `GOTO` or `GOSUB` may be
  executed and the applets key did not abandon the program.
* `FramesFound`: `RETURN` and `LOOP` never take another frame than the program's innermost one, whatever has happened, a lost focus included. They do find that one, unless `IF` calls the statement, or since the last flush
  a `STOP`, `END` or null `INPUT` behind `THEN`, a `LIST` or a second prompt of `INPUT` was broken off, or the focus was lost. Programs without `FOR`.
* `ContRepeatsNothing`: `CONT` goes on behind the last statement that was executed.
* `GetsInOrder`: whatever `GET` could deliver next, from the queue or from the kept byte, is younger than what it delivered.
* `HeldKeysNoticed`, `KeysTaken`, `CtrlCStops` (liveness): a key that stays held comes on the queue, a key on the queue is taken, and
  a Ctrl-C stops the program unless `GET` takes it first.
* `PositionCounts`: `TPos` is 0 in the first column only and counts the line, modulo the tab size on an infinite one.
* `EchoIsLine`: the window shows the input buffer behind the prompt and the cursor behind it.
* `TabFitsWidth`, `CommaAligns`: the tab size never exceeds the width, and a comma leads to a tab mark with a whole tab in front of the line's end.
* `CursorOnScreen`, `ShowsMemory`, `FaultsContained`: as listed under the system, for the debugging tool.
* `IsHexEditor`: every step of it is a step of `HexEditor`: keys move a caret on memory, wherever the window lies, and change the digit or byte under it only.
* `FolderVerdictRight`: the folder probe fails on each of the seven firmwares that break the contract where it looks, and when it was started in a folder that cannot be selected again; it passes on a conforming one,
  and on one that takes an empty slot, which it does not try (filesetfolder-closure.md 155-157). What it does not look at otherwise, the flags beside bit 0x40 and the active descriptor, is not in the model.
* `InfoVerdictRight`: the other probe fails exactly on the firmwares that deviate where it can see it.
* `PassLeavesFolder`, `FrameIntact`: a run without a failure restores the folder, on each of the firmwares modelled; no stack frame is written to after its run. A firmware that answers the calls with a null flags pointer
  rightly and does not move the folder for them is not modelled; it would pass, and leave AlphaQuiz selected.
* `TypeOK` in `Console`, `ProgramStore`, `BasicControl` and `TerminalLine`: types, in `ProgramStore` also the order of the regions.
  In `DebugTool`, `Session` and `FileProbes` it is proved and not run.

Each property has a mutant of the code's model in `PROJECT.json` (a missing reset, a swapped order, an
off-by-one) that it catches. The mutants are kept in the modules beside the operators they change.

## Disagreements found

Two are runs that end in a counterexample; the source's own words are quoted in `PROJECT.json`.

| run | what happens |
| --- | --- |
| `strings_copy` | `LET a$=b$` keeps the address of `b$`'s bytes while it makes room; a collection moves them and `a$` gets other bytes |
| `terminal_enter` | on an infinite line the position starts anew at every tab mark; rubbing out the character behind one makes it 0 in the middle of the line, and Enter prints no new line |

Others that TLC shows when the constants of `StringsCopy.cfg` are changed as said:

* `LAB_2115` gives out space down to `Earryl` inclusive, the collector takes `Earryl` for an exclusive limit: with string space exactly
  full, the lowest string is not collected and is overwritten: `Ops = {"make", "let", "consume"}`, `Ememl = 14`, `StringsIntact`.
* `LEFT$(a$,0)` is an empty string with an address; when the collector picks it as the one to move, its word count wraps and it copies
  65 536 words: `Ops = {"variable", "make", "slice", "let", "consume"}`, `EmptyOffsets = {0}` and without `CHECK_DEADLOCK FALSE`: a deadlock.
* The argument of a string function stays on the descriptor stack; four calls later "String too complex":
  `Ops = {"variable", "make", "fn", "let", "consume"}`, `NoDescriptorLeak`.
* That descriptor names the bytes that the function's variable has too. A collection moves the string for one of them and then once more for the other, over
  what lies below (asm 3764-3810, 1792-1797, 3961-4051): `Ops = {"make", "let", "fn", "fre"}`, `NVars = 1`, `Ememl = 26`, `Made <- MadeBoth`, `StringsIntact`.
* `UCASE$` and `LCASE$` free their operand and keep its address over the allocation (asm 4334-4348):
  `Ops = {"variable", "make", "lcase", "let", "consume"}`, `StringsIntact`.
* A new variable moves `Earryl` past `Sstorl` unchecked (asm 3280):
  `Ops = {"make", "let", "newvar"}`, `NVars = 1`, `Ememl = 16`, `ArrayRoom = 20`, `SpaceOrdered`.
* `DIM` writes the array's header before it compares with the strings (asm 3478-3503):
  `Ops = {"make", "let", "dim"}`, `NVars = 1`, `ArrayRoom = 40`, `StringsIntact`.
* A function with a string *result* restores its variable from the result (asm 3793):
  `Ops = {"variable", "fn", "fnstring", "make", "consume", "let"}`, `Made <- MadeXyz`, `StringsIntact`.

And those that the models state as they are, where they follow from the code at once:

* `_LCD_AllPixOn` is called with both values at a bell (os3k.c) and ignores its argument, so that `'\a'` never switches the pixels back.
* Entering a line never compares the end of the program with `Ememl` (asm 570), and `DEF FN` as a command, or with a syntax error, leaves
  a function with a null body that `FN` then finds (asm 3706).
* A break drops one return address, where there may be more (against the comment at asm 1237): a null answer to the second prompt of `INPUT` drops the saved execute pointer instead (asm 2171),
  a Ctrl-C in `LIST` the return into `LIST` (asm 1025), and `STOP`, `END` or a null `INPUT` behind `THEN` the return into `IF` (asm 1543). `RETURN` and `LOOP` then do not find their frame (`strayed`).
* `IF c THEN LOOP` never finds its `DO`, because the return into `IF` lies on the frame; only `RETURN` is taken care of (asm 1539), and `RETURN` behind two `IF`s is not.
* `IF c THEN CLEAR` flushes the address that `IF` is called from, so that `IF`'s end (asm 1555, "else return to interpreter inner loop") returns from `EhBASIC_Resume`, and the interpreter is gone until the next focus.
* A bad answer to `INPUT` goes back to the continue pointer (asm 2076), which may be null after a lost focus, `CONT` of a command line and `CLEAR`: the statement is then read from address 0. The model leaves that out (`InputGiven`).
* A program that was left by the applets key can be continued: with the frames gone, from a place that may be one statement
  early, and with the line number of an older break, so that `GOTO` may miss lines (`lost`).
* A Ctrl-C that breaks a program is also kept for `GET`, which returns it after `CONT` (asm 7166-7168).
* `WIDTH` with a bad tab size has stored the width and leaves the limit for commas as it was (asm 7299-7302, `stale`), and compares the
  tab size with a width of 128 or more as signed numbers, so that it refuses every one (asm 7315-7316).
* `NULL n` prints n + 1 nulls behind a CR and then takes the loop count, 255, for the position (asm 2043-2054); a line feed, a null or a change of `WIDTH` in a line puts the position out of step (`off`).
* All parameters given to `DebugTool` as "!" numbers share one opcode word (DebugTool.c:209); and its README says a screen is 32 bytes (line 12), which is 64
  with the terminal font.

## Bounds

* Console: the sizes of the LCD and the number of glyphs. Two columns and two or three rows reach every wrap
  and every scroll; three rows tell up from down. The lines of `RubbedOutLineRetypes` are as long as can be, here up to three
  characters. The proofs cover the NEO's 264 by 64, with lines up to 133 characters (four rows), and every other size.
* StringSpace: `Ememl` (bytes), `NVars`, `MaxPending` (operands at once; two are all that an operator
  takes), `MaxLength` (the code's 65 535, lowered so that "String too long" happens), `ArrayRoom` (how far the arrays
  grow), `Made`, `Literals`, `EmptyOffsets` (where an empty slice may start: LEFT$ and RIGHT$ leave a register's old content,
  so any offset is possible) and `Ops` (the operations a run allows). Odd and even lengths, strings that touch and strings with garbage
  between, and a space full to the last byte all occur. The two passing runs stop at states
  that are `exposed` (`CONSTRAINT Unexposed`): those states are checked, but not continued, because what
  follows a lost string says nothing new. They have no empty slices of non-empty strings (`EmptyOffsets = {}`), see the disagreements.
* ProgramStore: `Numbers`, `Codes`, `Top` (last cell), `Largest` (how far `DEF` and new variables
  grow memory). Three numbers give an insertion before, between and behind, and two lengths a replacement
  that shrinks and one that grows.
* BasicControl: `Lines`, `Statements`, `MaxFrames`, `MaxIfs`, `MaxStrays`. Two lines give a jump forwards, backwards and to the own line, two statements a place inside a
  line; two frames one that must be found under another, with a stray address on, between or under them. One `IF` hides a frame as well as two do. The proofs cover every number of each.
* Session: `MaxKeys`, `Life` (3 instead of 32 checks) and `Held` (2). Five presses are more than enough for a key in `ccbyte`, one that overwrites it, one on the
  queue and one more that arrives during a read.
* TerminalLine: the window, `MaxLine` (5 for 255), `MinWidth` (3 for 16), `Reach` (8, more than the longest width), the arguments of `WIDTH`, `TAB(` and `NULL`: a width
  of 0 for infinite lines, two too small or just allowed, one in the middle, and 200 for the signed comparison. `View` leaves out cells of the
  window that no routine and no property reads.
* DebugTool: `Lines`, the rows of the two fonts, `Nibbles` (two digits), which addresses read and write, `Entries` and `Fields` (what is typed at prompts). `FewJumps` keeps to
  states whose address to go back to is one of three. The screens are one and two thirds of the memory, so that windows overlap its end.
* FileProbes: `Slots`, `Empty`, `ClipMax`, and the firmwares. Every folder, every set of installed stock applets and every deviation occurs; the two probes do not deviate at once.
* `CHECK_DEADLOCK FALSE` is set only in the run `strings_copy`, whose few operations can run out.

## Fairness

Only `Session` assumes any: weak fairness of `BasicStep`, the steps of EhBASIC while it has the focus, and of `Getchar`, the
loop of an applet in C. The processor does nothing else while an applet has the focus, and each of these steps ends, so the code
justifies it. Two statements are excepted, `WAIT`, which polls an address and never looks at the keyboard (asm 4814-4818), and `CALL`. There is no fairness
of the user, who need not press or release anything, nor of the menu and the system; so the liveness properties
ask for nothing once the focus is gone, and for nothing that a user would have to do.

Every other specification is `Init /\ [][Next]_vars`: its routines run to their end and wait for the user.

## Proofs

Eight modules prove type correctness and all but three of the other properties that the passing runs check, among them the three refinements, each for every value of the constants
that the module's assumption allows. What is model-checked only is listed at the end of this section.

`ConsoleProofs` (height 1 to 64 because the start-line command has six bits, a whole number of rows and of 6-pixel columns): `TypeCorrect`, `CursorStaysOnLcd`,
`RollAlwaysMatchesLcd`, `CursorNeverTorn`.
None of these is inductive alone. `y` is an LCD line only because the text position is one of
the window's, which fits only because `g_MaxRow` and `g_MaxCol` are those of the focus font, and a cursor
is never torn only because each caller hides it first. `IInv` joins them. Its part about the console state is `Good(k)`,
and a lemma for every C function (`RolledGood`, `PlacedGood`, `SetCursorGood`, `PutGlyphGood`, `fputcGood`, `ClearScreenGood`)
shows that the function takes a good state to a good one. The arithmetic is in two lemmas: a line at most one ring below the top wraps
by one subtraction (`WrapOnce`), and one step of a font height up or down a ring of a whole number of them ends at a multiple
of it again (`RollStep`).

The second part of the module proves `OutputAlwaysKeepsMode` and `ImplementsTerminal`. `Glass(k)` is what the user sees of the console state `k`, and one lemma for
each C function says what it does to the glass. What all of them rest on is that each text row lies on LCD pages of its own, wherever the ring has been rolled to
(`RingRows`, `RowPages`): so what is drawn or erased for one row changes no other, and a roll by one font height renames the rows and moves none. `fputc` is then split by its branches; a
glyph in the last column is a glyph and a `NewLine` of the abstract module, in the order of the code.

The third part proves `TypedLinesRetype`. Its cells are numbered along the lines (`Num`), and the text position is the number of cells before it (`Pos`). From
`PutGlyphShows` and its like follow one lemma each for a glyph that does not scroll (`PutCells`: the next cell is filled and no other), one that does (`PutScrolls`) and for
rubbing out (`RubCells`). Three inductions over the keys say what every cell holds in the middle of typing, next to a console on which blanks are typed (`Both`), of rubbing out
(`Rubbed`) and of typing again (`Again`). That typing again scrolls nothing follows from where the line ended. The glass then agrees, and
the whole console does (`SameConsole`) because the pages of a text row always hold the same: `Twin`, an invariant of its own (`TwinNext`). It assumes that no glyph is
a control character (`CharsAssumption`).

`BasicControlProofs` (every program and every bound on the stack): `TypeCorrect`, `LinesReachableAlways`, `FramesFoundAlways`, `ContRepeatsNothingAlways`. The invariant is
`Typed /\ Matched /\ Clean /\ (~lost => PlacesKept /\ FramesSettled)`. `Matched` relates stack and history: the stack holds the program's innermost frames in their order, all of them unless the focus was lost, which is why
no wrong frame is ever taken. `Clean` says that there are no stray addresses, on the stack or in it, unless a break has `strayed`. `PlacesKept` says, for every mode, which of execute
pointer, continue pointer and `due` are equal and that the current line is never below the line of the
execute pointer; `FramesSettled` says the same of every frame, since `RETURN` makes a frame's pair the current one.

`SessionProofs` (any number of key presses and any life of a kept key): `TypeCorrect`, `GetsInOrderAlways`. `Floor` is the number
of the youngest key that `GET` delivered or could deliver from `ccbyte`; the keys on the queue ascend from there to `noticed`, and a scan adds only larger ones (`KeyInv`).

`DebugToolProofs` (every memory, font and set of faulting addresses): `TypeCorrect`, `CursorStaysOnScreen`, `FaultsAlwaysContained`. A lemma per C function
says that it takes a `Quiet` state, one under the system's handler, to a quiet one, and keeps window and cursor in their types. The cursor stays on the screen over changes
of the focus because rows are never taken away: a font once found is kept.
`DumpAlwaysShowsMemory` and `ImplementsHexEditor` need the arithmetic of addresses that wrap at both ends of memory: the window's bytes are `(g_pAddress + i) % Size`, and a
scroll moves the address and the cursor by one row in opposite directions, so that the selected address stays. Every key handler is shown to leave the caret where
the abstract editor has it, through the redraw behind it; memory changes under the caret only.

`TerminalLineProofs` (every screen, width, tab size and length of line): `TypeCorrect`, `TabAlwaysFits`, `PositionAlwaysCounts`, `CommaAlwaysAligns`, `EchoAlwaysIsLine`. The
invariant ties `TPos` to the column the line has reached, unless it went `off`, bounds it by the width or the tab size, and says that the limit for commas is the
one of the width in force, unless it is `stale`. The loops that print n characters are iterations, so a lemma about one `PRNA` carries over by induction (`Along`). The echo is a second
invariant above the first: the cells from the start of the edit on are the buffer's characters, with the scrolls since then subtracted.

`ProgramStoreProofs` (every start and size of memory, all line numbers and texts): `TypeCorrect`, `ChainAlwaysInOrder`, `PointersAlwaysCurrent`, `ImplementsListing`.
`ChainInOrder` speaks of what the pointers lead to, and cannot be used while they are wrong, in the middle of an edit. The invariant therefore says first where lines are without any pointer:
text lies behind text, each up to its `[EOL]`, in ascending order up to the end marker (`Text`), and then, as a second part, that the pointers of all lines below an address are right (`Linked`).
`SplicedText` is the heart: lines up to `a`, a new line at `a` or none, and the lines from `c` on moved by `j` cells are such a text again, and list as the same lines plus the new one.
`DeletedIs` and `InsertedIs` are two instances of it; `RechainedIs` makes the pointers right that were not. A walk along right pointers passes all lines (`WalkIs`, by induction from the end of memory), so
that the search finds the place (`SearchIs`). That no pointer is stale needs one more fact: a line starts behind the `[EOL]` of another (`BeforeLine`), because `GOTO` and `RESTORE` store the address before it.

`StringSpaceProofs` (every text, literals, size of memory, number of variables, strings made, offsets of empty slices and set of operations, but for the hypotheses below): `CollectIs`,
`StringsSound`, `NothingIsLost`, `SpaceStaysOrdered`, `MemoryErrorsAreReal`, `EveryDescriptorIsPopped`.
What a descriptor reads back as depends on where all the others lie, so the invariant `State` speaks of all of them. In an unexposed heap, `Neat` says that each descriptor in use lies in the text or whole
and word aligned between `Sstorl` and `Ememl`, apart from the others or on the same bytes. `Framing` says which operand of the expression is in which slot of the descriptor stack, and which slots hold
what `FN` saved and left. `Meaning` says that variables, operands and saved values read back as the program's text, and that only descriptors which `FN` left behind share bytes with another. `Kept(h, g, k)` is the promise of one
routine to the next: the descriptors up to depth k have the same strings in g as in h and lie as far apart, wherever the bytes have gone. Behind an error, `State` says only what `MemoryErrorIsReal` needs.

The collector is proved from the inside out. One test (`TestHighest`) keeps the highest string seen; so a pass takes strings that are in place already, one below the other, or finds the highest of those that are left.
The copy moves it up against the collected ones, over bytes of its own or of nobody. `Collecting` is the invariant of the passes: what lies above `sstorl` is packed, and what is left lies below. Each pass that moves something leaves one
descriptor less (`Left`, a cardinality), so one more pass than there are descriptors leaves none, and the strings in use cover every byte from `sstorl` up (`Packed`). `MemoryErrorsAreReal` is that fact counted:
free bytes are those between `Earryl` and `Sstorl`. `AtFloor`, `Shared` and an empty string with an address are the three hypotheses that fail in the code, and each has its disagreement above.

The first four theorems about runs assume `Numeric`: functions return numbers (no `"fnstring"`), or there are none. A string result makes the end of `FN` restore the wrong descriptor, so that the theorems would be
false, as listed above. For the same reason `EveryDescriptorIsPopped` assumes no `FN`. `SpaceStaysOrdered` speaks of unexposed heaps, because a new variable moves `Earryl` without a look at `Sstorl`.

Induction over numbers is stated for sets (`NatSetInduction`), the form in which the provers can use it; it and facts about remainders are repeated in the modules that need them.

`FileProbesProofs` (every set of slots, empty slots and applets, every clipboard): `TypeCorrect`, `FolderVerdictAlwaysRight`, `PassAlwaysLeavesFolder`, `FrameAlwaysIntact`, `InfoVerdictAlwaysRight`.
`NamespacePasses` and `RefusedPasses` say when a case fails no check; a lemma for each deviating firmware names the case that cannot pass (`NoFlagsCaught`,
`NoMoveCaught`, `MovesCaught`, ...), and two show that a conforming one, or one that takes an empty slot, passes and returns to the folder (`NamespaceKept`, `RefusedKept`). `CasesCount` adds the four cases up, `RunVerdict` is the
verdict of a run, and the invariant carries it past the other applets' calls.

Not proved: the properties under fairness and `ENABLED` (`HeldKeysNoticed`, `KeysTaken`, `CtrlCStops`), which the prover cannot treat.

## Not modelled

* AS3000 branches of the console (no font, so the firmware draws): they pass calls through.
* `FOR` and `NEXT`: their frames hold variable addresses, which `DEF FN` moves. `GOSUB` and `DO` typed as commands, whose frames point into the input buffer. Of the other statements that a line typed at the prompt may hold, only those that change control are modelled.
* `SWAP`, `USING$`, and string arrays as a structure (to the collector their elements are variables, which the model has).
* Crunching of keywords and the text `LIST` prints: tokens are opaque. What a statement computes: numbers do not matter to the properties.
* Floating point, conversion and trigonometry: numeric algorithms on 32-bit mantissas, with values out of TLC's reach.
* DebugTool's battery display and its parser's digits; what remains of a longer prompt in the first two columns when the dump is drawn again.
* The font's name and glyphs, and its header before `MSG_INIT`: who may ask for the font when is the firmware's order of messages. The greeting's text and cursor.
* Firmware: not in the repository. Toolchain, headers, stubs, tables and messages: no behaviour of their own. `os3k.h` and `syscall.c` are
  declarations and one trap opcode each.

## Plan

1. `FOR`/`NEXT` frames with the variable's address, composed with the regions of `ProgramStore`, which `DEF FN` and new variables move. Property:
   `NEXT` changes the variable its `FOR` named. With it frames made by commands, and the input buffer they point into.
2. `StringCompare`: LAB_1CAE as a pure function against lexicographic order, lengths as 16-bit words (a length of 0 wraps).
3. The AS3000 branch of the console.
