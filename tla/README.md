# ZineOS in TLA+

This directory is a verification project for ZineOS: the 32-bit loader that
GRUB starts, the 64-bit kernel it loads, the trampoline that wakes the other
processors, and `buildrd`, the host tool that makes the initial ram disk. It
holds TLA+ modules translated from the source, configurations that TLC checks,
and theorems that TLAPS checks.

Paths below are relative to `src/trunk/`.

- [The system](#the-system)
- [Modules and code](#modules-and-code)
- [What the runs check](#what-the-runs-check)
- [Fairness, bounds, deadlock](#fairness-bounds-deadlock)
- [What is proved](#what-is-proved)
- [What the code does not do](#what-the-code-does-not-do)
- [Not modelled](#not-modelled)
- [Plan](#plan)
- [Running it](#running-it)

## The system

| component | code | state it keeps | operations | what makes it correct |
|---|---|---|---|---|
| Frame allocator | `loader/src/frame.cpp` | `g_mem`, a table of 256 rows (start and flags, end); `mem_index`, a `uint8_t` | `AddRange`, `ReserveRange`, `Alloc`, `Free` | no page lost, described twice or lent twice; nothing lent that was set aside or is not RAM |
| Loader's page tables | `loader/src/virtual.cpp` | `pml4_table` and the tables in memory | `Install`, `MapRange`, `Map` | a call changes the translation of the pages asked for and of no other |
| ELF loader | `loader/src/elf.cpp` | none; it allocates, copies and maps | `Load` | every section is at its address with its contents, the entry point is in one of them |
| Loader's kmain | `loader/src/kmain.cpp` | the order of everything above | one sequence | what later steps use is still there |
| Start-up of the processors | `loader/src/acpi.cpp`, `loader/src/boot.asm`, `trampoline/src/trampoline.asm`, `kernel/src/load.asm`, `kernel/src/kmain.cpp` | the trampoline's page and the counter in it, `KernelReady`, `KernelAddress`, `g_cpu_count` | the trampoline, the gate, the kernel's entry | one processor in `kmain`, none past the gate early, none in a page that was given back, nobody waits for ever |
| Initial ram disk | `loader/src/initrd.cpp`, `kernel/src/initrd.cpp` | the module, pointers into it, the answer to the last call | `Load`, `GetFile`, `FindFile` | finds what the writer put there |
| buildrd | `buildrd/src/*.cpp` | a circular doubly linked list, the image file | load, add/replace, remove, save | the image has the files of the last run that saved |
| Interrupts of the kernel | `kernel/src/idt.cpp`, `isr.cpp`, `irq.cpp`, `isr.asm`, `irq.asm` | the descriptor table, the two 8259s, the stack | installation, stubs, handlers, EOI | a gate for every vector, handlers that do not disturb each other, no device silenced |
| Console | `kernel/src/video.cpp` and the loader's copy | column, row, pointer to the row, the screen | `Write`, `Out`, `Scroll`, `MoveCursor` | no character lost, repeated or outside the screen |
| Multiboot tables | `loader/include/kernel/multiboot.h`, `loader/src/kmain.cpp` | none; it reads what GRUB wrote | `GetMemMap`, `GetModule`, `FindModuleByCmdLine` | the memory map is read as GRUB wrote it; the ram disk is found, and still there when it is used |
| ACPI tables | `loader/src/acpi.cpp` | `m_rsdp` and the counters of three loops | `FindRsdp`, `ParseRsdp`, `ParseMadt` | the right tables, read inside their bounds; an end, whatever firmware wrote; as many processors waited for as are listed |
| Formatted output | `printf.cpp` of both programs | place in the format, arguments left, flags, width, precision | `vsprintf`, `number` | what is printed reads as what was passed; directives and arguments stay in step |
| C library | `include/libc/string.h` of both programs | memory | copies, fills, comparisons, each in several versions the compiler chooses from | bytes arrive unchanged, nothing else is touched |
| C++ run time | `icxxabi.cpp` | a table of destructors | none that runs | |

### How they interact

`kmain` of the loader calls `AddRange` for every usable entry of the multiboot
memory map, `ReserveRange` for the low page, the multiboot structures, the
modules and its own image, and then `VirtualMemory::Install`. It looks for the
module whose command line says "initrd", gives it to `InitRd::Load`, and calls
`Acpi::Install`, which follows the RSDP to the MADT. From `Install` on
`VirtualMemory::Map` takes a page from `Frame::Alloc` for every table it
misses and `Elf::Load` a block for every section. `Acpi::ParseMadt` takes a
page below 1MB for the trampoline, wakes the other processors, polls the
counter in that page, and frees it. `kmain` returns the kernel's entry to
`start32`, which stores it in `KernelAddress`, sets `KernelReady`, turns
paging on and jumps; the application processors poll `KernelReady` and do the
same. In `load.asm` every processor adds one to `g_cpu_count`; the first calls
the kernel's `kmain` and the others halt. `kmain` installs the console and the
interrupts, and then shows `g_cpu_count` whenever it changes, while the
devices and exceptions interrupt it.

### What is hard in it

- **Processors run at once, with no lock.** The BSP and the APs share a page,
  a counter, a gate, and in the kernel one stack until all but one have
  halted.
- **Start-up messages are unreliable.** INIT and STARTUP are sent once; an AP
  may be late or never come, and the BSP waits with a bounded counter.
- **Tables of fixed size and small indices.** `mem_index` is eight bits wide,
  rows are split by every allocation and never merged, and addresses of 64
  bits pass through 32-bit variables.
- **Results nobody looks at.** `ReserveRange` says nothing when it does
  nothing, and three callers of `Alloc` do not test for a null pointer.
- **Memory that is not clear.** Page tables are made of pages that held
  something; one of them is not cleared.
- **A step of the tables between two copies.** Sections are copied while
  tables are allocated, and all has to be in place when paging begins.
- **Interrupts at any moment**, exceptions inside interrupt handlers, spurious
  interrupts, two controllers to acknowledge.
- **Lengths that others wrote.** GRUB and firmware say how long entries,
  tables and sub-tables are, and the code adds up what they say in unsigned
  words; it also reads command lines that it did not reserve.
- **Variable arguments without types.** `vsprintf` takes arguments as it reads
  directives, and one directive misread puts all that follow out of step.
- **Copies of many widths.** `string.h` has four versions of most functions,
  and the console moves the screen over itself with one not meant for it.
- **Files written in place** by a process that can die half-way, and a list
  whose operations have a special case for zero and one entry.

`PROJECT.json` lists these hazards one by one, at the line where each bites
and with the properties that would catch it.

## Modules and code

| module | models | extends / instance of |
|---|---|---|
| `FrameMap` | abstract: the use of every byte and who was lent what | |
| `Frame` | the frame allocator and kmain's calls of it | implements `FrameMap` |
| `Multiboot` | GRUB's tables and kmain up to the ram disk | |
| `Acpi` | the search for the RSDP, the RSDT, the walk over each MADT | |
| `VirtualMemory` | page tables | |
| `LoadKernel` | the ram disk's mapping, `Elf::Load`, the jump, over the page tables | extends `VirtualMemory` |
| `Kmain` | kmain of the loader as a whole, from GRUB's call to the jump | extends `LoadKernel`, `Multiboot`, `Acpi` |
| `SmpBoot` | start-up of the processors, from where `Acpi` has counted them | |
| `RdImage` | the ram disk's format: the writer's layout, both readers' view | |
| `InitRd` | the loader's class that reads it | extends `RdImage` |
| `RamDisk` | abstract: a set of named files, saved not atomically | |
| `BuildRd` | the tool | extends `RdImage`, implements `RamDisk` |
| `DiskBoot` | buildrd's invocations, and the machine started with what they saved | extends `BuildRd`, `InitRd` |
| `Interrupts` | descriptor table, stubs, handlers, with the 8259s | |
| `Teletype` | abstract: an endless page | |
| `Console` | the text screen | implements `Teletype` |
| `LibC` | `string.h`, access by access | |
| `Printf` | `vsprintf` and `number` | extends `LibC` |
| `Printing` | what both programs print with, side by side | extends `Console`, `Printf` |
| `FrameMapProofs`, `FrameProofs`, `SmpBootProofs`, `InterruptsProofs` | theorems | the modules they are named after |
| `PrintfProofs` | theorems about `vsprintf` | extends `Printf` |
| `PrintingProofs` | theorems about screen and library, and about all three side by side | extends `Printing`, `PrintfProofs` |
| `KmainProofs` | theorems about the page tables and the handover, about what the loader reads of GRUB's and firmware's tables, and about kmain as a whole | extends `Kmain` |
| `BuildRdProofs` | theorems about the tool, the format and the loader's reader | extends `DiskBoot` |
| `MC*` | instances for TLC | |

Operators marked *Mutant of X* are alternative versions of `X`, each with a
plausible bug, that show that a property can fail. No specification uses them.

**Frame.** `g_mem` is a function from row numbers to records `start`, `end`,
`flag`. The code keeps the flag in the low bits of the start address; the
record is the same as long as rows are page aligned, which `RowsAligned`
checks. `mem_index` counts modulo `Slots`, as a `uint8_t` does. `AddRange` and
`ReserveRange` are kmain's calls, in order; each action includes all that the
function does, the search for the row and the way it is cut (`Carve`)
included. `Alloc(o, ...)` and `Free(o)` are calls on behalf of an owner, a
place in the loader that holds a block: a page table, a section, the
trampoline. `Ptr` is the conversion to `size_t`. The functions never run at
the same time: only the BSP calls them, with interrupts off. `CallersSpec`
adds what `ParseMadt` does when `Alloc` finds nothing (`FreeRefused`).

**Multiboot.** The memory map is a buffer of 32-bit words: `Words` is how GRUB
writes an entry, with the length it says it has, and `GetMemMap` how the code
reads one, as if all had twenty bytes. `reserved` is what kmain has given to
`ReserveRange`. Command lines are short sequences. They are not reserved: when
`Install` and `MapRange` have allocated, those that are `exposed`, outside of
everything that was, may hold anything.

**Acpi.** One step looks at one place, one table or one sub-table, as the
loops do. A place has a signature or not, and its bytes add up or not: nothing
else is asked of it. Lengths are numbers modulo `Word`. What lies behind the
tables and sub-tables that firmware meant is any of `Strays` or any sub-table,
a different one each time it is read: the code may get anything there.
`started` records every start-up; `SmpBoot` is what happens in one.

**VirtualMemory.** A page of memory is read as a table: a function from
indices to page numbers. `todo` holds the `MapRange` calls under way;
`Descend`, `NewTable` and `SetEntry` are the levels of `Map`, one at a time,
so that the tables can be looked at between any two writes. Every caller
passes the same flags (present, writable), so entries have none. `Span` is
how many pages lie below an entry of a level, `Ranges` what a call can be
asked to map, and `Work` is the loop of `MapRange`, which does nothing for an
empty range.

**LoadKernel** adds kmain's order, what every page was filled with (`data`)
and the loop over the sections. Blocks for sections are any that
`Frame::Alloc` might return; tables are taken in between, and any dirty page
may become one. `LinkAssumption` is what `kernel/link.ld` gives: sections in
memory do not overlap, none ends where the entry point is, and the kernel's
virtual addresses are none of the physical pages that may be in use, so that
the one-to-one mapping of a section is not in the way of the kernel.

**Kmain** puts `Multiboot`, `LoadKernel` and `Acpi` in kmain's order. Each step
is one of a part, possible when kmain has come to it, and the others' state
stays; two steps are of two parts at once, since both look at them:
`VirtualMemory::Install`, which has the first frames, after which what was not
reserved may be lost, and the search for the ram disk, which kmain gives up
without one. `InTurn` is what one part relies on of another.

**SmpBoot.** Every processor has a `pc`. The BSP's values follow `ParseMadt`
from the trampoline on, and `start32`; an AP's the trampoline, with a step for
every read of the page (`InPage`: instructions, the GDT, the far pointer, a
segment descriptor), then `ApplicationProcessor`. `Start` is the arrival of
the STARTUP message, at any time after it was sent, or never. `ReusePage` is
the block allocation of `Elf::Load` that may reuse the freed page. `RunWild`
is an AP that executes what the page holds by then; what it does is not
modelled further: it is `lost`, and can do nothing to the others. In the
kernel, `EnterKernel` is the `lock xadd`; `kmain`'s loop is `CompareCount` (the
comparison of `old_count` and `g_cpu_count`), `ReadCount` (the copy, before the
loop and in it, a read of its own) and `PrintCount`, which puts `old_count` on
the screen (`shown`). Any processor may enter between two of these.

**BuildRd.** `Invoke` starts the tool with an image that is complete or not
there, `LoadFile`, `Add`, `Remove`, `Replace`, `LookUp`, `Save` and
`WritePart` are what it does with it, `Die` ends it anywhere. `Save` truncates
the file in one step and writes it in four. The list's pointers are functions
on the nodes `malloc` returned; removing follows the three cases of the code,
and freed nodes keep their pointers. An image with parts missing is not
loaded: what `fread` leaves in the variables is undefined. `ReadInOrder` is
the tool's reader. Of the format it is assumed that a name has at least its
NUL and that there is one way to contain nothing (`FormatAssumption`), and of
the tool that nodes are finitely many and none is null (`NodesAssumption`); the
markers for a file that is not there or broken are no image
(`ImagesAssumption`).

**InitRd** is the loader's reader, with the fields of its class. `Load` stores
the header before it looks at magic number and version, and kmain ignores what
it returns: with a module that was refused `FindFile` walks tables at address
0 (`Files`), where it may find any file. `DiskBoot` starts the machine with
any image that the tool has completed, and with modules that are none
(`Refused`).

**Interrupts.** `stack` holds the contexts on the stack; each has its vector,
its place in stub or handler, and the interrupt flag it will restore. `Enter`
is the processor's delivery, which clears the flag for an interrupt gate and
keeps it for a trap gate. The 8259s' in-service and request registers are the
environment: external, modelled from what `irq_remap` programs (fully nested
mode, non-specific EOI, cascade on IRQ 2).

**Console.** A character takes one step per assignment to the position that
can be told apart by an exception: `csr_y`, `Scroll`, `lineptr`. `Exception`
is the first character of `isr_handler`'s message, a new line; the handler
never returns. `gone` is a history variable: the lines that have scrolled off.
The kernel's `Scroll` calls a `__memcpy` whose length is a variable
initialised with itself; it moves any number of bytes (`KernelScroll`), and
what it leaves on the screen is not claimed to be what was printed.

**LibC.** A call is a list of accesses, offset and width, done one per step;
each reads all it reads before it writes, so overlapping blocks come out as
they do on the processor. Every byte starts out holding its own address. The
versions for constant sizes, which the compiler chooses when it knows the
size, are alternatives of `Copy` and `Fill`. Comparisons take a step per pair
of equal characters.

**Printf.** `vsprintf` goes through a format directive by directive and part
by part: flags, width, precision, qualifier, conversion; `out` has the
characters each item produced. A format is a list of items, whose text
`Written` spells out and whose arguments `Passed` lists, and the code sees
only text and arguments. `Number` is `number`: sign, prefix, digits by
repeated division of the unsigned word, filling on either side. `FieldsRight`
says what a reader makes of the characters, and works from them back to the
value.

## What the runs check

### Runs that pass

| run | configuration | properties | instance |
|---|---|---|---|
| `frame_roomy` | `MCFrameRoomy` | `OneRowPerPage`; refinement `ImplementsFrameMap` | three owners, room for every row |
| `frame_callers` | `MCFrameCallers` | `RowsDisjoint`, `RowsInRam`, `RowsAligned` | a table that fills and wraps, addresses that do not fit a pointer, overlapping reservations, a free of address 0 |
| `smp_boot` | `MCSmpBoot` | `OneMain`, `GateHolds`, `CountsEntered`, `FreedAfterCounted`; liveness `BspGetsOn`, `WaitingApEnters`, `CountShown` | BSP and three APs |
| `virtual_memory` | `MCVirtualMemory` | `TablesApart`; action property `MapsAsAsked` | three levels |
| `load_kernel` | `MCLoadKernel` | `TypesOK`, `MapReadRight`, `InitrdFound`, `FoundIsGood`, `RsdtInside`, `CountsListed`, `KernelInPlace`, `LoaderStaysMapped`, `EntryRuns`; liveness `InstallEnds` | every table of a set of sound and broken ones; every placement of blocks and page tables |
| `buildrd` | `MCRamDisk` | `TypesOK`, `RingSound`, `LoaderFindsSaved`; refinement `ImplementsRamDisk` | three files, three nodes, the loader started in between |
| `interrupts` | `MCInterrupts` | `GatesComplete`, `HandlersUndisturbed`, `AllAcknowledged`; action property `EoiIsOurs`; liveness `MostUrgentServed` | five devices, page faults |
| `console` | `MCConsole` | `TypesOK`, `PositionSound`, `NewLineIsBlank`, `LibraryAsAsked`, `FieldsRight`, `ArgumentsInStep`; refinement `ActsAsTeletype` | an exception anywhere; every call of the library and every directive, on its own and after others |

The type invariants of `Frame`, `SmpBoot` and `Interrupts` are theorems, and
that of `VirtualMemory` is part of `LoadTypeOK`, in the `TypesOK` of
`load_kernel`.

What they show, in a few sentences each:

- **The allocator** keeps FrameMap's promises as long as its table has room
  and kmain's reservations do not overlap. Without these two conditions it
  keeps only that rows are disjoint, aligned and inside RAM (`frame_callers`);
  what is lost then is listed [below](#what-the-code-does-not-do).
- **Start-up**: the gate works although `KernelAddress` and `KernelReady` are
  two plain words, because the address is stored first; the `lock xadd` of
  `g_cpu_count` is enough to choose one `kmain`; an AP that comes late, or
  never, stops nobody; and `kmain` catches up with the count, although it reads
  it once to compare and once more to copy, and others enter in between or
  while it prints.
- **Page tables**: making a table never adds or loses a mapping, since all but
  the PML4 are cleared. Tables are never shared, in whatever order ranges are
  mapped.
- **The handover** works for every choice of blocks and tables: contents are
  not overwritten by what is allocated later, and the physical entry address
  that `Elf::Load` returns works on the far side of paging because sections
  are mapped one to one as well.
- **Before that**, kmain gives the allocator the usable ranges of GRUB's map,
  up to the first entry that is not as long as the code takes all to be. It
  finds the first module that says "initrd", unless the command line was
  overwritten before it was read, and by then has reserved the images, the
  table that leads to them and itself.
- **Acpi::Install** follows the first RSDP that has both signature and
  checksum, reads no table pointer outside an RSDT that is as long as its
  header says, and comes to an end for every firmware that does not put a MADT
  at the end of the address space. Every start-up waits for as many processors
  as a sound MADT lists.
- **buildrd** and the loader agree on the image: what `FindFile` finds is what
  the invocation that wrote the image held, in whatever order. A saved image
  is replaced as a whole or broken, never mixed, and the ring survives adds
  and removes in any order, provided no file of several is replaced.
- **Interrupts**: whatever comes when, each EOI ends the interrupt it is meant
  to end, because IRQ handlers run with interrupts off. Exceptions may
  interrupt IRQs and, before their `cli`, be interrupted by one.
- **The console** is an endless page seen through a window, and an exception's
  output lands inside the screen whatever it interrupts, because the first
  thing it prints is a new line, which rebuilds the position. In the kernel,
  where `Scroll` may move any part of the screen, the next line is blank all
  the same.
- **The library** copies and fills right in every version, the loader's
  `memcpy` also downwards over itself, which `Scroll` needs, with the
  exceptions [below](#what-the-code-does-not-do). **printf** prints every
  number so that it can be read back, with any combination of flags, width and
  precision, the least `int` included.

### Runs that find a violation

`frame_ptr`, `smp_boot_count`, `virtual_memory_dirty` and `buildrd_replace`:
see [What the code does not do](#what-the-code-does-not-do).

## Fairness, bounds, deadlock

**Fairness.** `SmpBoot!Fairness` is weak fairness of the BSP, of each AP once
it has started, and of every processor in the code they share: processors
execute. There is none for `Start`: a STARTUP message need not arrive. There
is none for `ReusePage`. `Interrupts!FairSpec` is weak fairness of the
processor: it executes and takes an interrupt that it can take; devices need
not raise any. `MostUrgentServed` is stated for the most urgent device only,
since the 8259s let it starve the others, and promises nothing once an
exception has halted the machine, which is what `isr_handler` does.
`Kmain!KmainSpec` has weak fairness of kmain's own steps, the loops of `Acpi`
among them: one processor executes, with interrupts off,
and nothing it waits for in `InstallEnds` is outside of it; the wait for the
other processors, which `StartUp` passes over, is `BspGetsOn` of `SmpBoot`.
All other specifications are safety only.

**Bounds**, and why they are enough:

- *Frame*: pages of two bytes, so that ranges can be unaligned; banks of RAM
  with a hole between them; blocks of one and two pages; three owners (two in
  the other runs). Each case of `Carve`, of the search, and of a row used up
  occurs. `Slots` is 16 in `frame_roomy`, more than RAM has pages, and 8 in
  `frame_callers`, where the table is meant to fill up and `mem_index` to
  wrap. `PtrLimit` stands for 4GB; in `frame_callers` and `frame_ptr` it lies
  inside RAM, so that truncation occurs. Owners are symmetric.
- *SmpBoot*: three APs, which allows one to be in the page, one at the gate
  and one in the kernel; `Patience` of two polls, so that running out comes
  before, between and after arrivals. `Listed` equals the number of
  processors; the theorems do not need that. No symmetry, since liveness is
  checked.
- *VirtualMemory*: three levels of two entries, so that the top, an inner and
  the last table differ and a range crosses tables of every level.
  *LoadKernel*: three levels of four, sections that take several pages, none,
  and bss, memory in two parts.
- *Kmain*: all that GRUB may leave with one firmware, all firmware with one
  table of GRUB's (`MCInit`). With both of these every choice of frames is
  followed to the end; otherwise only that of the first free ones, and only
  until the kernel is looked for (`Representative`, a constraint): what is
  read of the tables does not depend on which frames are taken, except that
  taking any may overwrite a command line, nor does what comes after.
- *Multiboot*: words of sixteen values (`Base`), so that addresses and lengths
  need one word or two; maps of up to three entries, usable or not, one longer
  than the code takes it; up to two modules, whose command lines say "initrd",
  begin like it, go on after it, or are shorter.
- *Acpi*: words of 64 values, so that the RSDT's header (36 bytes) and the
  MADT's (44) fit and sums overflow; every pair of areas of up to two places;
  RSDTs shorter than their header, of length 0, right, and longer than what is
  in them; MADTs that are sound, too short, too long, with a sub-table of no
  length and at the end of the address space; sub-tables of up to three bytes.
  Bad GRUB tables are combined with one usual firmware and the reverse, since
  neither reads what the other wrote.
- *BuildRd*: three names of different lengths, an empty file and another, at
  most `Nodes` entries per invocation (three, or four for the violation), any
  number of invocations. Nodes are symmetric. *InitRd* reads any complete
  image, the two kinds of module that `Load` refuses, and no module.
- *Interrupts*: lines 3, 5 and 7 of the master and 8 and 15 of the slave, so
  that urgency has to be decided on one controller and across the cascade, and
  the lowest lines (7 and 15, where spurious interrupts show) are among them;
  one kind of exception; `MaxDepth` of four contexts.
- *Console*: a screen of two rows of four columns with tabs of two, one
  printable character; `MaxGone` bounds the lines that scroll off.
- *LibC*: blocks of up to 21 bytes, so that each version has five words and
  every remainder, moved by every distance shorter than an access and some
  longer; strings of up to two characters (`MaxLength` counts the NUL) of two
  letters.
- *Printf*: 256 `int`s (`Word`), with zero, the least of them, minus one and a
  value that does not fit; all flags, widths and precisions of every form with
  every conversion; and all sequences of three of a few directives, to see
  arguments stay in step. `Ascii`, the characters there are, holds what these
  are made of and two that mean nothing. How many `int`s there are changes
  nothing else in the code: no digit, width or field depends on it but the
  `PointerDigits` that fill up a `%p`. A call of the library, one of `printf`
  and what is written to the screen are independent, so each is explored with
  the others at rest.

**Deadlock** is checked except where the system stops: all processors halted
(`SmpBoot`), the kernel entered or the loader stopped with an error
(`LoadKernel`, `Multiboot`, `Acpi`), the tool in an endless loop or at the
bound of its nodes (`BuildRd`), a call of the library that has returned
(`LibC`, `Printf`), and the bound on scrolled lines (`Console`).

## What is proved

TLAPS proves these for all values of the constants that satisfy the modules'
named assumptions.

| theorem | says | argument |
|---|---|---|
| `FrameMapProofs!MapInvariant` | no byte is held twice and all that is held is busy | the conjunction is inductive: `Lend` takes only free bytes and makes them busy |
| `FrameMapProofs!NeverLentTwice` | `HeldOnce` | from it |
| `FrameMapProofs!SetAsideStays` | `SetAsideForGood` | from it: `Return` frees what is held, which is not what was set aside |
| `FrameProofs!RowsSound`, `RowsStayInRam` | `TypeOK`, `RowsDisjoint`, `RowsInRam` of `Frame` under `CallersSpec` | see below |
| `FrameProofs!RowsStayAligned` | `RowsAligned` under `CallersSpec` | from `RowInv` |
| `FrameProofs!RowsStayFew` | `OneRowPerPage` under `CallersSpec` | see below |
| `FrameProofs!KeepsThePromises` | `ImplementsFrameMap`, while the table has room | see below |
| `FrameProofs!SmallMachinesNeverFill` | the same without that hypothesis, if there are fewer pages than rows | from `OneRowPerPage` |
| `FrameProofs!LentOnce` | no byte is lent to two owners | from `KeepsThePromises` and `FrameMapProofs!NeverLentTwice` |
| `FrameProofs!SetAsideIsKept` | what `ReserveRange` has set aside, no later call lends or frees | from `KeepsThePromises` and `FrameMapProofs!SetAsideStays` |
| `SmpBootProofs!OneMainThroughTheGate`, `GateStaysShut` | `OneMain`, `GateHolds` | see below |
| `SmpBootProofs!CountIsExact` | `CountsEntered` | from the same invariant, with the cardinality of the processors in the kernel |
| `SmpBootProofs!ScreenCatchesUp` | `ScreenFollows` of the same module | see below |
| `SmpBootProofs!PageOutlastsTheCount` | `FreedAfterCounted` | see below |
| `KmainProofs!TablesStayApart` | `TablesApart` | see below |
| `KmainProofs!MapsWhatIsAsked` | the action property `MapsAsAsked` | from the same invariant |
| `KmainProofs!LoadTypesHold` | `LoadTypeOK` | conjunct of the invariant below |
| `KmainProofs!KernelStaysInPlace` | `KernelInPlace` | see below |
| `KmainProofs!LoaderIsStillThere` | `LoaderStaysMapped` | see below |
| `KmainProofs!KernelStarts` | `EntryRuns` | see below |
| `BuildRdProofs!RingHolds` | `RingSound` | see below |
| `BuildRdProofs!KeepsTheFiles` | `ImplementsRamDisk` | see below |
| `BuildRdProofs!RamDiskTypes` | `TypesOK` of `DiskBoot` | conjunct of the invariants below |
| `BuildRdProofs!LoaderFindsThem` | `LoaderFindsSaved` | see below |
| `KmainProofs!AcpiTypeCorrect` | `AcpiTypeOK`: counters stay in their words, the places in their tables | conjunct of the invariant below |
| `KmainProofs!FirstRsdpFound` | `FoundIsGood` | see below |
| `KmainProofs!TablesReadInside` | `RsdtInside` | see below |
| `KmainProofs!ListedAreStarted` | `CountsListed` | see below |
| `KmainProofs!MultibootTypeCorrect` | `MultibootTypeOK` | inductive; that what is read are numbers is lemma `MapTyped` |
| `KmainProofs!UsableRangesAdded` | `MapReadRight` | see below |
| `KmainProofs!RamDiskFound` | `InitrdFound` | see below |
| `KmainProofs!PartsKeepTheirWays` | `KmainSpec` implements `LoadSpec`, `MultibootSpec` and `AcpiSpec` | see below |
| `KmainProofs!KmainTypesHold` | `TypesOK` of `Kmain` | from it |
| `KmainProofs!KmainReadsTablesRight` | `MapReadRight`, `InitrdFound`, `FoundIsGood`, `RsdtInside`, `CountsListed` under `KmainSpec` | from it |
| `KmainProofs!KmainHandsOver` | `KernelInPlace`, `LoaderStaysMapped`, `EntryRuns` under `KmainSpec` | from it |
| `KmainProofs!KmainInTurn` | `InTurn` | see below |
| `InterruptsProofs!InterruptsTypeCorrect` | `TypeOK` of `Interrupts` | conjunct of the invariant below |
| `InterruptsProofs!GatesThere` | `GatesComplete` | see below |
| `InterruptsProofs!NoIrqOnTop` | `HandlersUndisturbed` | see below |
| `InterruptsProofs!NothingLeftInService` | `AllAcknowledged` | see below |
| `InterruptsProofs!EoisAreOurs` | the action property `EoiIsOurs` | see below |
| `PrintingProofs!PositionAgrees` | `PositionSound` | see below |
| `PrintingProofs!NewLinesBlank` | `NewLineIsBlank` | from the same invariant |
| `PrintingProofs!ConsoleTypeCorrect` | `TypeOK` of `Console` | see below |
| `PrintingProofs!ActsLikeTeletype` | `ActsAsTeletype` | see below |
| `PrintingProofs!LibraryKeepsWord` | `LibraryAsAsked` | see below |
| `PrintfProofs!FieldsComeOut` | `FieldsRight` | see below |
| `PrintfProofs!ArgumentsKeepStep` | `ArgumentsInStep` | from the same invariant |
| `PrintfProofs!PrintfTypeCorrect` | `PrintfTypeOK`; that `pos` stays in the format is lemma `PlaceStays` | from the same invariant |
| `PrintingProofs!PrintingKeepsParts` | `AllSpec` implements `Spec` of `Console` and the next-state relations of `LibC` and `Printf` | by cases |
| `PrintingProofs!PrintingTypesHold` | `TypesOK` of `Printing` | from it |
| `PrintingProofs!PrintingKeepsPromises` | the other properties of the run `console` under `AllSpec` | from it |

**RowsSound.** `RowInv` is the conjunction of the three. It is inductive in
this form: rows that are disjoint and within the RAM added so far stay so when
a row of a new range is added, since ranges of the memory map are disjoint
(`MemoryMapAssumption`), and when a row is cut, since the parts lie in it and
are disjoint (lemmas `CarveRows`, `CarveDisjoint`, `ReserveRows`). When
`mem_index` wraps to zero the rows in use become fewer, and the claim weaker,
which is why the theorem needs no assumption on the size of the memory map.
The assumptions are that numbers are natural, that a page has at least one
byte, the table more than two rows, and that usable ranges of the memory map
do not overlap. `RowsStayAligned` is `RowInv /\ RowsAligned`: a row is cut at
aligned ends only, `Reserve` and `AddRange` round what they are given, and a
row that `Free` writes back keeps the bounds it had, truncated addresses
included.

**RowsStayFew.** `OneRowPerPage` counts, and counting is not inductive.
`WholeInv` adds that no row is empty and that rows lie in the whole pages of
RAM: then every row has an aligned address that no other has, its start, and
rows are at most as many as pages (`RowsFitPages`, an injection). The
hypothesis `WholeRequests` is that nobody asks for nothing and that no usable
range of the memory map is shorter than a page; without it the code does make
empty rows, one per request.

**KeepsThePromises.** `LoanInv` adds to `WholeInv` that every block that is
lent has a busy row of its own with the same bounds (`LoansHaveRows`,
`LoansApart`). With it an address has the use its row has (`UseInRow`), and
each step of `Frame` is one of `FrameMap` or changes no use: `AddRange`
provides, `ReserveRange` sets aside or does nothing, `Alloc` lends, `Free`
returns. Its hypotheses are those conditions the README
names [below](#what-the-code-does-not-do) that break the promise in the code:
`HasRoom`, for the `uint8_t` index and for `Alloc`, which does not look at
what `ReserveRange` did; `MemTop < PtrLimit`, for truncated pointers; and
`WholeRequests`, since of two rows that start at one address, one of them
empty, `Free` takes the first. `SmallMachinesNeverFill` derives `HasRoom` where
RAM has fewer pages than the table rows. `frame_roomy` satisfies all three.

**OneMainThroughTheGate.** The invariant says for every processor in the
kernel or past the gate that the gate is open and leads to `Entry`, that a
processor waiting to jump has read `Entry`, and that a processor in `kmain`
implies that the count is positive, so that the next one to enter finds it so.
It is proved for any finite set of APs, for any number listed, and any
patience.

**ScreenCatchesUp.** What the liveness property `CountShown` rests on, for any
number of processors: where `kmain` compares, the screen shows `old_count`
(`ScreenInv`), so when the comparison finds nothing to do the screen shows
`g_cpu_count`. Only one processor changes `old_count` or the screen, by the
invariant above, so no step of another one comes between copy and printing. The
screen is never ahead of the copy, nor the copy of the count.

**PageOutlastsTheCount.** `CountedInv` bounds `cpu_count` by one more than the
number of APs past their first instruction; it is a bound only, since an AP
that runs wild on a lost page has left without counting. A count as large as
the number of APs and the BSP therefore leaves no AP behind (`AllCounted`), and
what has arrived stays so. The invariant also says that the page is lent while
the BSP waits: it is what tells a page not given back yet from one given back.

**TablesStayApart, MapsWhatIsAsked.** `PagingInv` is `TypeOK`, `TablesApart`
and where the mapper is: before `Install` nothing is there, after it `table` is
what the walk for the page in hand reaches on this level (`OnTheWay`). A table
that is made is a free page, so in no table yet, and clear, so it leads
nowhere; and as each table is entered once, an entry that is set is on the way
of one page only. `WalkIn` and `TablesIn` are the walk and the tables of any
memory, so that lemmas about a step speak of memory before and after. The
hypotheses are `FramesLeft`, that `Alloc` has a page when a table is missing,
and `CleanStarts`, that the page `Install` takes for the PML4 held nothing:
`virtual_memory_dirty` shows what happens otherwise.

**KernelStaysInPlace, LoaderIsStillThere, KernelStarts.** What must be true at
the jump is not yet true while ranges are being mapped. `Settles(v, p)` says
that page `v` is mapped to `p` or will be, by a call under way, and that no
call under way maps it elsewhere; a step of the mapper, and a call for other
pages or the same mapping, keep it. `HandoverInv` says of every page of each
section that was copied that some page holds its contents, is not free, and
that its address settles there (`SectionsPlaced`); of loader and ram disk that
they settle at their own address (`ImagesStay`); and of the entry point that
it and the address to be returned settle at one page (`EntryFound`). When the
kernel is entered nothing is under way, and what settles has settled.
`LinkAssumption` keeps the mappings of different sections apart. The
hypotheses are those of the page tables. In the instance of `load_kernel` some
behaviours do run out of frames, and the properties hold in them too; that is
TLC's result about this instance.

**RingHolds.** `RingInv` has a witness for the ring: a sequence that starts and
ends at the head, goes through every entry once, and has links both ways
(`IsRing`). From it follows what the loops of the code see (`RingWalk`).
`AddFromMemory` puts an entry at the end of the sequence (`RingAdd`) and
`Remove` takes one out (`RingRemove`). As in the run, only the sole file may be
replaced: with more the ring breaks (`buildrd_replace`).

**KeepsTheFiles, LoaderFindsThem.** The core is `LayoutRead`: reading what
`Save` lays out gives the files back, in order by the tool's reader and by
offsets in the loader's, for any number of files of any length. The rest is
`DiskInv`: a complete image is the layout of files with different names, what
an invocation has loaded so far is a beginning of them, and while it saves
its list holds the same files as the image. `ReaderInv` says of the loader
that what it has passed over is not what is wanted.

**FirstRsdpFound, TablesReadInside.** `FoundIsGood` is not inductive: it does
not say what has been passed over. `SearchInv` does: no good place lies before
the one looked at, in the BIOS area, and then in the EBDA once the BIOS area
is known to have none. `CountInv` ties `table_count` to the length of the RSDT
while it is gone through. That `TableCount` stays inside an RSDT with a header
is arithmetic (lemmas `Quarters` and those around it). Assumed are that `Word`
is larger than the MADT's header and that tables have the fields they have.

**ListedAreStarted.** `ListInv` says how far the walk is in terms of what is
listed: `ctr` is where the sub-tables passed over end, `cpu_count` the
processors among them, `started` the counts of the MADTs before this one. In a
sound MADT no sub-table is empty, so each ends behind the others
(`ReachGrows`), the walk is over with the last (`SoundSteps`), and neither
counter can wrap, since the MADT's own length fits into a word. `SoundCount` is
the same for the RSDT's length.

**UsableRangesAdded.** The map is a buffer of words, the entries one after the
other. As long as they have the usual six words, the j-th entry's begin at
word 6j - 5, whatever comes behind them (`FlattenUsual`), and `GetMemMap`
puts its fields together from them (`MapWords`, `Quotients`). `MapInv` says
what has been added after so many entries. Of GRUB nothing is assumed but that
entries have the fields they have (`InfosAssumption`), and that words have at
least one value.

**RamDiskFound.** `FindInv` says what has been reserved at each of kmain's
steps, and that a command line that lies where nothing is lent is as GRUB left
it. `FoundFirst` is the search.

**PartsKeepTheirWays, KmainInTurn.** The theorems above are about each part of
kmain on its own. Every step of `Kmain` is a step of a part or leaves its
variables alone (`StepsOfParts`), so kmain as a whole implements each part's
specification, and the parts' theorems hold of it, those of the page tables
and of the handover under the same two hypotheses. What they cannot say is
what one part relies on of another: `TurnInv` adds to `InTurn` how far
`Multiboot` is while the loader is mapped, and is inductive together with the
parts' invariants. No proof uses fairness.

**Interrupts.** `HandlersUndisturbed` and `AllAcknowledged` say nothing about
what one IRQ's handler still owes. The invariant `IInv` says it for every
context on the stack: an IRQ's has interrupts off, nothing but exceptions
before their `cli` below it, and what is in service on both controllers is
what its place in stub and handler says (`Held`: the interrupt and the
cascade, the cascade alone, nothing); with none on the stack nothing is in
service (`QuietInv`); gates are as far installed as `phase` says (`GateInv`).
Each step of a handler moves from one row of `Held` to the next, by one EOI. A
spurious interrupt has nothing in service of its own, and the invariant has
that case. The assumptions are that `Lines` are IRQs other than the cascade,
`Faults` exceptions, and `MaxDepth` is a natural number.

**PositionAgrees.** `PositionInv` says for every place inside `Out` and
`NewLine` which two of row, row pointer and column agree there, so that an
exception that starts at any of them ends up agreeing after its own new line.
`BlankInv` adds which rows are blank.

**ActsLikeTeletype.** `ConsoleInv` adds to it the types, and that no exception
prints in the loader, which handles none (`Calm`). The page is the
lines that are gone and the rows in use, one sequence (`Page`); an `Out` of a
printable character, a tab or a new line is the teletype's, and `Scroll` moves
a row from one part of the sequence to the other. As in the run, that is the
loader's copy, whose `memcpy` moves what it should.

**LibraryKeepsWord.** The invariant `LibInv` says of a call under way that the
accesses left to make are a chain (`Ascends`): each begins where the one before
it ends, the first where the bytes already written end, and the last at the
end of the block; memory is as asked up to there and as it was beyond it. For a
`memmove` up the chain descends by one byte at a time. That the chain is right
is what differs between the versions, and is proved of each
(`WordsAscend`, `BytesAscend`, `ConstantAscend`): words, then a halfword, then a
byte add up to the size for every remainder. A copy that goes up then reads
only bytes that it has not yet written over, which is where the hypothesis on
overlap enters; a fill needs that every access begins at a multiple of its
pattern. For comparisons it says that the strings agree before `pair`.

**FieldsComeOut, ArgumentsKeepStep.** `FieldsRight` says nothing of where
`vsprintf` is. `PrintfInv` does: `Placed(f, a)` says that the k-th item is
written after the first `f[k - 1]` characters of the format and passed after
the first `a[k - 1]` arguments, and `Follow(f, a)` that what has been read and
taken is what was written and passed of the items put out so far, and, inside
a directive, of the parts before this one (`Inside`). A part ends where the
next one begins since no part begins as another may go on (`Enders`), so
`skip_atoi` stops where the number does (`DigitsRead`). At the conversion the
flags, width and precision read are those that were asked for, and the rest is
what `number` makes of them: the digits it computes are a numeral for the
value in its base (`InBaseNumeral`), zeros in front of it change nothing
(`ZerosBefore`), no numeral is shorter (`FewestDigits`), and sign, prefix,
zeros and blanks fill the width on the right side (`Formatted`). All of this
is promised up to the first directive that is not handled (`InStep`); after it
arguments are taken for what they are not, even their
types are not known, and the invariant keeps only that this item is passed,
the pieces before it are right, and `pos` lies in the format. Assumed are that
`Word` is even and `Ascii` holds what formats and numbers are made of, and of
callers, that what they pass is what they wrote.

The properties were checked by TLC first, on the runs above, and so were the
hypotheses of theorems that have some: they hold in `frame_roomy` and in
`virtual_memory`.

**Recursion.** `Span`, the walk through tables, `SumTo`, `Layout`, the visits
of a list, `Reach`, `Counts`, `Usable`, the accesses of a copy, the digits of a
number and its value (`InBase`, `ReadIn`, `RaisedTo`) and `FlattenSeq` are
recursive functions. What they compute is proved by
induction on the natural numbers, from the library's theorem on least elements
(`SetInduction`, about a set and not an operator, and `StepByStep`, that such
a function exists).

**Model-checked only.** Liveness, which is out of the prover's reach:
`BspGetsOn`, `WaitingApEnters`, `CountShown`, `InstallEnds` and
`MostUrgentServed`. Every other property that a passing run checks is stated by
a theorem.

## What the code does not do

Four runs have as their one property what a comment or a message in the code
says and the code does not do:

| run | property | what happens |
|---|---|---|
| `frame_ptr` | `LendsFreeSpace` | a free row above 4GB is lent at the low 32 bits of its address, which may be in use |
| `smp_boot_count` | `CountedHaveRun` | an AP counts itself before it has read the GDT and the far pointer in the page that the BSP then frees |
| `virtual_memory_dirty` | `MapsAsAsked` | the PML4's page is not cleared, so what it held before is read as entries |
| `buildrd_replace` | `ReplaceKeepsOthers` | replacing a file relinks its entry without unlinking it: others drop out of the ring |

Other things met while modelling. They have no run of their own; the models
contain the behaviour, and the passing runs say what still holds with it, or
which condition excludes it.

- `mem_index` is a `uint8_t` and the test for room in `ReserveRange` lets 254
  rows become 256, which is 0: the table starts over. When that can happen
  only the properties of `frame_callers` are claimed.
- With one row left `ReserveRange` does nothing; `Alloc` returns the block all
  the same, and returns it again to the next caller.
- `ParseMadt` frees address 0 when there was no room for the trampoline
  (`FreeRefused`, in `frame_callers`).
- A reservation that shares a page with one made before lies in no free row
  and is dropped as a whole.
- With no frame left `Map` clears page 0 and uses it as a table. The theorems
  about page tables are about behaviours in which there is one (`FramesLeft`);
  in `virtual_memory` there always is.
- `Elf::Load` returns the entry's physical address where its comment speaks of
  the virtual one; `EntryRuns` shows that this works, since sections are
  mapped one to one as well.
- `buildrd` does not write an empty list, so the last file cannot be removed
  (`Save`). `ImplementsRamDisk` allows it.
- Exception gates are trap gates, so an IRQ can come between an exception and
  its stub's `cli`. `HandlersUndisturbed` is about what comes after the `cli`.
- An exception just before `Scroll` makes it move the screen by two rows and
  clear one. `PositionSound` holds all the same.
- The kernel's `__memcpy` initialises its length with itself
  (`kernel/include/libc/string.h:34`), so `Scroll` moves an unknown number of
  bytes. `ActsAsTeletype` is about the loader's screen; `NewLineIsBlank` and
  `PositionSound` also hold for the kernel's.
- The kernel's `memset` of a constant four bytes stores an `unsigned long`,
  which has eight there. `FillsAsAsked` excludes it.
- `vsprintf` takes the argument of a `*` precision, and in the kernel of a `*`
  width, without passing over the `*`, and then prints what follows as text.
  `FieldsRight` and `ArgumentsInStep` are about the directives before the
  first one.
- `%x%x` prints the two halves of a 64-bit number without zeros between them;
  `%p%p` does it right.
- The size of an entry of the memory map is not looked at: one that is longer
  than twenty bytes puts all that follow out of step. `MapReadRight` stops at
  the first.
- Module command lines are not reserved. `InitrdFound` excludes those that lie
  in memory that may be lent.
- `InitRd::Load`'s result is ignored, and `FindFile` on a module that was
  refused walks tables at address 0. `LoaderFindsSaved` is about a module that
  was accepted.
- An RSDT of length 0 has the right checksum, since no byte is added up, and
  its table count underflows. `RsdtInside` asks for a header; `InstallEnds`
  does not.
- A MADT at the end of the address space can make the walk go round for ever;
  `InstallEnds` excludes it (`CountersFit`).
- Processors that the MADT lists as disabled are counted and waited for, and a
  second MADT starts the processors a second time. `CountsListed` counts them
  as the code does; `BspGetsOn` shows that patience runs out.

## Not modelled

- CPUID tests, control registers, segment descriptors: what they do is the
  processor's business. Their order matters where `SmpBoot` and `LoadKernel`
  have it.
- `kernel/src/virtual.cpp` and its header: an unfinished copy of the loader's.
  `Install` calls `Map` without its third argument, so it does not compile,
  and every new table would be page 0.
- `icxxabi.cpp`: a table of destructors; neither program exits, and nothing
  calls `__cxa_finalize`.
- Colours of the console, and `StartLine` and `Clear`, which run once, before
  anything is written; the end of `printf`'s buffer of 1024 characters, which
  nothing in `vsprintf` looks at: formats are taken to be short enough.
- `Frame::MakeKernelMap` and `Irq::SetHandler`, which nothing calls;
  `Frame::Display`, the `Dump` functions of the multiboot header and the
  messages of both `kmain`s, which only print.
- Descriptor and processor structures (`gdt.h`, `proc.h`, `asm.h`, ...):
  declarations and single instructions.
- `kernel/src/boot.asm` (commented out), `loader/src/trampoline.asm` (an older
  copy that is not built), scripts, the disk image and `Runner`.

## Plan

Done: the loader from GRUB's tables to the jump, the allocator, the
processors, `buildrd` with both readers of the ram disk, the kernel's
interrupts and console, and the library and `printf` under them. Every safety
property that a passing run checks is a theorem.

Next is `Loader`: `Frame` and `VirtualMemory` composed, so that the tables are
made of pages the real allocator returns; then the hazards of a full table and
of a null pointer meet in one model, and `FramesLeft` becomes a statement about
`Frame`.

## Running it

    tlc -workers 2 -config MCFrameRoomy.cfg MCFrame
    tlapm FrameProofs.tla

The proofs in `KmainProofs`, `BuildRdProofs`, `PrintfProofs` and
`PrintingProofs` take a few minutes each.

Each run's module and configuration are in `PROJECT.json`; the longest takes
about a minute and a half.
