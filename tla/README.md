# A TLA+ model of H8/OS and MES for the SH7045

This directory holds TLA+ modules that model the CoreOS layer, the MES kernel, its network
clients, its disks and the host program that fills one of them, all of `src/`; TLC configurations
that check them on small instances, and proofs that TLAPS checks for every value of the constants.
`PROJECT.json` lists components, runs, mutants, the source lines behind each definition, hazards
and theorems. To repeat the work: `tlc -config TasksCalls.cfg MCTasksCalls.tla` and so on for the
[runs](#the-runs), `tlapm TasksProofs.tla` and so on for the proofs.

Contents: [the system](#the-system), [components](#components), [what is hard](#what-is-hard),
[how the modules are written](#how-the-modules-are-written), [the modules](#the-modules),
[the runs](#the-runs), [fairness](#fairness), [the proofs](#the-proofs),
[only model-checked](#only-model-checked), [not modelled](#not-modelled),
[what was found](#what-was-found), [the plan](#the-plan).

## The system

The machine is one SH7045 without memory protection: one CPU, interrupts, a serial line or two,
an NE2000 network card, IIC EEPROM and RAM as disks, an LCD.

- **CoreOS** (the files directly in `src/`) starts the board, owns the interrupt vectors
  (`irq.c`, `set_handle.c`, `handle_sh.s`), dispatches to drivers (`device.c`) and offers a page
  allocator (`alloc.c`), byte rings (`ring.c`) and queues (`que.c`).
- **MES** (`src/MES/`) is a kernel on top of it: a ring of tasks (`task.c`), system calls
  (`request.c`), files (`fileio.c`, `minifs.c`), shared memory (`shm.c`) and a TCP/IP stack
  (`ip.c`, `arp.c`, `icmp.c`, `udp.c`, `tcp.c`).
- **User programs** (`src/MES/shell`, `src/MES/httpserver`) reach the kernel through the stubs of
  `src/MES/libsys`, which also holds a DHCP and a TFTP client.
- **The boot monitor** (`src/MES/core_com.c`) is what runs before MES is loaded. It keeps the flash
  disk from which the kernel is loaded, over the serial line, for `src/tool/put.c` on the host.

A system call works like this. A stub fills in `call`/`arg` of the task's control block, raises
`REQ_STATE` and traps. `task_sw` gives the CPU to the next task of the ring that waits for
nothing. Sooner or later this is task 0, the kernel task `initial`, an endless loop: with
interrupts off it walks the ring once, reaps tasks with `EXIT_STATE`, answers the requests
(`request`), retries the calls that wait for the network (`net_request`), counts sleeps down, and
at the end of the walk handles the packets that came in (`ip_request`) and the TCP timers; then it
enables interrupts and traps. Many calls do not end when they are answered first: `wait` sets
`WAIT_STATE` until the other task is detached, `recvfrom` and `sendto` set `net_count` and are
finished by an arriving packet, by a retry or by the timeout, `accept` sets `NET_STATE`.

The parts touch each other through shared state and calls: `task.c`, `request.c` and `udp.c` all
write the fields of a task's control block; `request.c`, `task.c`, `shm.c`, `ip.c` and the file
calls share the one allocator; the receive interrupt and `ip_request` share two fifos; drivers and
their interrupt handlers share rings and registers; `get_mac` couples UDP, TCP and IP to the ARP
table.

## Components

| Component | State | Operations | Correct when |
|---|---|---|---|
| Task scheduler (`MES/task.c`, `MES/request.c`, `handle_sh.s`, `MES/libsys`) | `tcb_table` (links, pid, state bits, counters, request and answer), `curtask`, `pid_count`, `time_count` | attach, detach, switch, preempt, scan, exec, kill, wait, sleep, exit, network calls | the tasks form one ring whatever is linked and unlinked during a scan; no wakeup is lost; a killed task never runs; an answer agrees with what happened; each request, sleep and timeout comes to an end |
| Page allocator (`alloc.c`) | `mat`, one entry per section | alloc, free, free all of an id, change id | blocks are disjoint, stay whole, change only by their owner, none is lost |
| Byte ring (`ring.c`) | area, start, datasize | write, read | a queue that forgets its oldest bytes |
| Serial driver (`sci.c`) | two rings, owner, last byte sent, interrupt enables, registers | open, close, read, write, three interrupts | bytes go out and come in once and in order; what was written drains; a line end gets its CR |
| Process and shared memory (`_exec`, `attach_task`, `dettach_task`, `MES/shm.c`, s_malloc and s_free) | `mat`, `sharemem`, the pids | exec, exit, malloc, free, shmget, shmat, shmdt | memory stays with the one it was handed out to, and goes back when the task ends |
| Receive path (`MES/ip.c`, `que.c`) | two fifos, which one is filled, packet memory, `flagroot`, `flaginfo` | receive, ip_request, reassembly, timeout | the memory of a packet lives as long as its place in a fifo; order is kept; nothing waits for ever; only whole packets go on |
| ARP and interfaces (`MES/arp.c`, `MES/ip.c`) | `mac_Table`, `netinfo`, `gateway_ip` | set_mac, get_mac, gc_mac, if_up, if_down, adopting an address | get_mac answers with the newest MAC; a new address gets an entry; a device has one slot |
| NIC driver (`ne.c`, the call of the handler in `irq.c`) | the card's ring of pages, CURR, BNRY, status | open, close, the interrupt, read | a frame is read once, whole and in order, or goes with a reset |
| UDP (`MES/udp.c`) | 128 sockets, one kept packet each | socket, bind, send, recv, deliver, free by pid | a socket goes with its task; a datagram is delivered once |
| TCP (`MES/tcp.c`) | 32 sockets, 10 items of received data each, a packet to resend, timers | connect, listen, accept, send, recv, close, free, segments, the second's timers | what a program reads is what the peer sent; what was taken is acknowledged; resending ends |
| Files (`MES/fileio.c`, `MES/minifs.c`) | table of chains, directories, descriptors with a cache each | open, read, write, seek, close, delete, format, list | chains are apart and end; what was written and closed is read again |
| Disks (`ramdisk.c`, `romdisk.c`, `rom_gen.c`, `seeprom.c` on `i2c.c`) | position, content | seek, read, write, erase | a page that is read is the page that was written |
| Boot monitor (`MES/core_com.c`) | the flash disk, the file that data goes to | newfile, eepdata, del, init, dir | whenever the machine is reset, listed files have chains of their own |
| Upload program (`tool/put.c`) | the line that is next | send, wait for the answer, send again | the program on the flash is the program of the host |
| DHCP and TFTP clients (`MES/libsys/dhcp.c`, `tftp.c`, `net.c`) | one exchange with its retries | if_dhcp, tftp_save, tftp_load | an address was acknowledged before it is used; a saved file is whole |
| Others | | | see [not modelled](#not-modelled) |

## What is hard

- **Interleaving.** Tasks are preempted between any two instructions with interrupts on. The scan
  links and unlinks control blocks under its own cursor. Drivers race with their interrupts, and
  the network card goes on while its interrupt is handled.
- **An unreliable world.** Datagrams and segments are lost, repeated, late and out of order. The
  serial line between host and monitor misses characters. The machine is reset between two writes
  of the flash and in the middle of a transfer to the EEPROM, which goes on with its own cycle.
- **Stale state.** A call is answered, the task waits, and what ends the wait arrives scans later,
  when the task may have been killed and its pid given out again. The table of MACs ages.
- **Timeouts.** Late packets race with `net_count`; far packets go round in the fifo; fragments
  wait for others that never come.
- **Limits.** The pid counter wraps; rings, fifos, tables and memory run full, and a full one does
  something different each time: forget the oldest, refuse, refuse silently, give up an entry.
- **Partial failure.** exec allocates, then cannot attach; a disk is full in the middle of a flush;
  memory is refused for an item of received data that is already linked.

`PROJECT.json` lists each of these at its line under `hazards`, with the properties that cover it
or the reason why none does.

## How the modules are written

*One action per handler.* The kernel's scan runs between `int_disable` and `int_enable`
(`src/MES/task.c:161..194`), and `src/device.c` masks interrupts around each call of a driver. So
a request, a packet or a driver call is one action, whatever it calls: nothing else can see its
middle. The scan as a whole is not one action: it advances task by task, which is the order in
which requests are answered, and each turn has two (the request; the counters). What is left
interleaved is what the hardware leaves: user tasks run with interrupts on, so posting a request,
trapping and returning are separate actions and the timer (`Preempt`) comes between any two.

*Data.* Addresses are section numbers, packets are numbers in the order of arrival or records of
two fields, MACs and IPs are model values. Contents are left out except where order is the point
(rings, the serial line) or where what is read must be what was written: a cell of a file is then
the pair of its file and its place, byte n of a TCP stream is the number n.

*Undefined behaviour.* Where the code uses a variable that it never set, or writes past a buffer,
the model takes every result the build can have (`CoreCom!Passes`), or ends the behaviour in a state
that says so (`MiniFs!wild`, `Tcp!down`, `CoreCom!stray`) and of which the properties say nothing
more. What a buffer holds that nothing was received into is any value (`Clients!Leftovers`). A null
pointer of a refused packet is address 0, which is ROM: a store there is lost, what is read is no
data of the connection (`Tcp!Blocks`). Each such place is named in the comment of its action and below.

*Rules of the programs.* Some calls trust their callers or luck. Where a caller can break what the
code relies on, the model takes the call and a ghost remembers it; the properties that rest on it
say so in their first line: `ProcMem!spoilt` (a task got the pid of another after the wrap, or one
asked for 0 bytes), `MiniFs!rule` (an open file was deleted, formatted away or opened to be written
again, or a descriptor used that is not open), `Clients` with `prog.call` (a reply that ended the
exchange was sent to an earlier call).

*Parts.* Some MC modules instantiate components that share nothing in one module, each with
variables of its own, and a variable `part` or `load` that is chosen in the first state and never
changes says which one a behaviour shows. The others stay in their initial state.

*Ghosts.* Variables that only record what happened (`done`, `ledger`, `heard`, `accepted`, `sent`,
`added`, `kept`, `rule`, `spoilt`, `frames`, ...) are named as such where they are declared. No guard of the code's actions
depends on one, except for the bounds on how often the environment acts.

*Mutants.* Definitions marked `(mutant of X)` are plausible bugs of X. For each property of each
run `PROJECT.json` names one; with it in place of X the property fails. The specifications never
use them.

## The modules

### Tasks (with MCTasks, MCTasksCalls, TasksProofs)

| Model | Code |
|---|---|
| `pid next prev state count net_count wait_pid req arg retval` | the fields of `Task` in `tcb_table`; `pid = 0` is a free block; `req`, `arg` stand for `call[0]` and its arguments |
| `pid_count`, `curtask`, `time_count` | the globals of that name |
| `kpc`, `taskptr` | where `initial` is in its loop, and its cursor |
| `upc` | where a user task is: running, about to trap, returned to its stub, exiting |
| `sock_id`, `sock_packet` | one UDP socket and the packet that it keeps |
| `mac` | is the peer's MAC known |
| `Post`, `Sleep`, `Exit`, `Trap`, `Return` | the stubs of `libsys` |
| `Preempt`, `Switch` | the timer interrupt and `task_sw` |
| `StartScan`, `HandleRequest`, `NoReq`, `CountDown`, `Detach`, `EndScan`, `EndIp`, `KernelTrap` | the loop of `initial` |
| `ExecRuns`, `ExecFails`, `Kill`, `Wait`, `Bind`, `Recv`, `Send`, `Accept`, `Other` | the cases of `request` |
| `Udp`, `Tcp`, `Arp` | what a packet does to a waiting task |

The walks over the ring (`FirstWith`, `NextPid`, `Switch`) follow the `next` pointers, so a broken
ring shows in what they find. After `dettach_task` the cursor goes to the *second* task of the
ring (`Resume`): the code sets it to the head and `continue` runs the loop's increment.
`UdpSend` is `udp_send`: it fails on a socket that is none and when `alloc_mem` refuses the packet, and
gives the datagram to every configured interface otherwise, which may be none; how many frames leave
is not counted, how often it does this is.

### Heap, HeapAbs (with MCHeap, StoresProofs)

`mat` is the table, `caller` a ghost. `Alloc`, `FreeMem`, `FreeIdMem`, `ChangeId` are the four
functions. `HeapAbs` is the promise: a set of blocks; `Grant` takes any free place. `Blocks` maps
the table to it. A request for 0 bytes (`AllocZero`) is special in the code: the search stops at
the first section *in use* and the id goes into the section *behind* it. `KeepsPromise` therefore
says that every call but such a one is a call of `HeapAbs`, whatever table the calls for nothing
left behind; `AbsSpec` is the plain refinement, true when nobody asks for 0 bytes.

### Ring, Fifo and Sci (with SciProofs), in MCSci

Ring is the area, its two indices and the two `memcpy` of each operation; Fifo is the queue that it
implements (`FifoSpec`). Sci is one line of the serial driver: `Write`, `Read`, `Open`, `Close` are
its functions, `Txi`, `Rxi`, `Eri` its interrupts, `Shift` and `Arrive` the hardware (external).
Its rings are sequences, as Fifo allows. The bytes that come in are numbered, so order and loss
can be stated. Callers write any bytes, CRs too (`core_com.c` does); the ghost `added` tells the CRs that
`int_txi` puts before a line end from theirs.

### ProcMem (with MCProcMem, ProcMemProofs)

Composes the requests that allocate with `Heap` (`H == INSTANCE Heap`): each action works on the
table through Heap's operators, in the order of the code's calls. The ghost `ledger` is written
from what each request means (a program, a stack, data, a segment, a program lost by a failing
exec); the properties compare it with the table. `tasks` is the ring in its order, since `attach_task`
looks for a pid in one pass over it (`NextPid`): once the counter has wrapped the pid may be one that a
task in front has. The end of either task then frees the memory of both, and a request for 0 bytes
writes over a section of somebody else; after such a step (`spoilt`) the properties say nothing.
`KernelFits` assumes that the memory holds what the
kernel allocates for itself when it starts: `task_init` writes to its table without looking whether
`alloc_mem` found room, so with less memory nothing of this runs.

### Arp (with MCArp; proofs in NetProofs)

`netinfo`, `gateway_ip`, `mac_Table`; `SetMac`, `Gc`, `IfConfig`, `IfDown`, `Adopt`, `IfGateway`
and the pure `GetMac`. Index -1, which `set_mac` computes when every entry is as fresh as can be,
changes no entry; what the write in front of the table damages is outside of the model.

### The receive path: Ne, IpRx and Reassembly (with IpRxProofs), in MCIpRx

- **Ne** is the card with its driver. `Store` (external) puts a frame into pages behind CURR and
  raises a line whose edge is latched (`edge`); `Enter`, `ReadNe` and `Clear` are the parts of
  `int_ne` with the loop of `receive` in the middle, and the card stores between any two of them.
  `Clear` writes the whole status register: what came in meanwhile is not announced again.
- **IpRx** takes over where the frame has memory: `Receive` pushes it, `Start` is the swap at the
  head of `ip_request`, `Handle` one turn of its loop; `todo` is how far the loop has come.
- **Reassembly** is `flagroot` with its linked lists as sequences. `Fragment` is `ip_flag_save`
  followed by `check_flag`, `Second` the timeout of `initial`. A list's age saturates one above
  `TIMEOUT`.

The three parts hand packets on and share no other state, so each is checked with every input the
part before it can produce (in order or not, late, twice, never).

### TcpList and Tcp (with MCTcp, TcpProofs)

`TcpList` is the pure part: the list of received data of one connection with its array of items,
the place where an item is linked, what becomes complete, what is read and given back. An item
whose memory was refused stays linked and unused, as in the code. `Bytes(L)` is what a walk over the
list collects up to each item, `Unread` and `Read` (`ReadTCPRData`) are said with it. `Tcp` has the
table of sockets (`sock`) and what each program waits for (`task`).

| Model | Code |
|---|---|
| `Socket`, `Bind`, `Listen`, `Accept`, `Connect`, `Send`, `Recv`, `Free`, `Exit` | the calls through `request`, and `tcpfreeid` |
| `ConnScan`, `ConnTimeout`, `ArpSend` | `net_request`: calls that wait for a MAC or for an answer |
| `Segment(g)` | `tcp` with `process_tcp_in` and the handler of the socket's state |
| `Interval` | `tcp_interval`: delayed acknowledgements, resending, the timers of closing; one pass that ends at the first socket that is aborted |
| `NewState`, `Confirmed`, `Sent` | `tcp_newstate`, the release of the packet in flight, `process_tcp_out` |
| `Blocks`, `NextBlocks` | what `alloc_mem` gives for a packet: a block or null, at which the code does not look |
| `down` | the kernel uses an address that was never assigned (no free socket for a connection) or a list that is null, or an item whose memory was refused is linked a second time, after which the links lead round or past items |

A segment is any of `Segments` at any time: that is a net that loses, repeats and reorders, and a
peer that may be silent. The kernel answers within the same action.

### Udp and Clients (with MCClients; proofs in NetProofs)

`Udp` is the table of sockets as operators, `Clients` one program on it that runs `if_dhcp`,
`tftp_save` or `tftp_load`. `Start` makes the sockets and sends the first message, `RecvFrom`,
`Arrive` and `Timeout` are the three ends of a `recvfrom`; what the program then does up to its
next `recvfrom` (`OnOffer`, `OnAck`, `OnWrq`, `OnBlock`, `OnData`, `Unanswered`) belongs to the same
action, since nobody else sees its middle. The net is the set of all datagrams ever sent, each of
which may arrive any number of times or never; it begins with some replies to an earlier call
(`OldReplies`), because the number of a DHCP transaction comes from the MAC only and `tftp_common`
always binds port 1025. After a timeout `dhcp_getip` compares its buffer all the same: as long as
nothing was received that may be anything, and the request that follows may then be for any address
(`Requested`). The servers are external.

### The disks: MiniFs (with MiniFsProofs), CoreCom with Put and Seeprom (with StoresProofs), in MCDisks

- **MiniFs** (part `ram`) is `minifs.c` under the calls of `fileio.c` on the RAM disk: the table of
  the chains, directories as entries of pages, open files with a cache of `CACHE` cells each
  (`filefd[d].cache`, its window `off`, its place `cur`). Writes go to the cache, and a window that
  is left is flushed page by page in a copy of the table. `kept` is the ghost: the length of each
  file and whether the disk must hold it. MiniFS does not look whether a file is open when it is
  deleted, nor whether a descriptor is when it is used: such a call is taken, `rule` is `"broken"`, and
  what the later calls do to the disk is not followed (a file that was deleted while open and is then
  closed is written over whatever has its pages by then; without the condition on `rule` TLC finds
  `ChainsApart` violated by opening, deleting and closing one directory).
- **CoreCom** (part `rom`) is the boot monitor on the flash: a new file has three writes (`NewFile`, `NewFileDel`,
  `NewFileAdd`) and `init` one erase per block (`EraseFirst`, `EraseRest`), each a step, and a `Reset` may
  come between them. `EepData` writes up to
  `MAX_DATA` cells. The monitor does not follow chains, it counts page numbers down; `KernelReads`
  compares this with what the kernel finds by following them.
- **Put** drives CoreCom from the host, line by line, over a line that misses characters.
- **Seeprom** (part `se`) is the EEPROM disk on the two-wire bus. Each byte on the bus is a step;
  the EEPROM (external) is busy for `CYCLE` NAKs after a write, and `send_ctrl` gives up after
  `TIMEOVER`.

## The runs

| Run | Bounds | Why they are enough |
|---|---|---|
| tasks_calls (MCTasksCalls) | 4 blocks, pids 3..4 before the wrap, kill and wait of pids 3 and 4; 3 execs under load `process`, 1 under load `net`; `NET_COUNT` 2, 2 datagrams | three user tasks are the fewest where one waits, one is killed and one is linked in the same scan; the third exec takes a used block and the wrapped counter; a timeout takes two scans, so a datagram comes before, between and after, and a second one tests the kept packet |
| tasks_live (MCTasks) | 3 blocks, `NET_COUNT` 1, `COUNTER` 1, 1 exec, 1 datagram, naps of 2; exec, kill, sendto, accept | a nap, waits for ARP and for a connection, an exec, the start and the end of a task; liveness is about the scan and the switch, which do not depend on numbers |
| heap_blocks (MCHeap) | 7 sections behind the table of 10, sizes of 0 to 3 sections, 2 ids | full memory, holes too small, neighbours of the same and of different owners |
| sci_line (MCSci) | ring of 3 bytes of 2 values; line: rings of 2, writes up to 3 of a letter, NL and CR, 4 bytes out, 4 in | every pair of indices, reads and writes from nothing to one more than fits; the write ring fills and wraps, the receive ring overflows, the register overruns |
| proc_memory (MCProcMem) | 72 bytes in sections of 8, table and kernel in front; `MAX_TASK` 3, `MAX_PID` 4; 2 segments of 0 or 8 bytes, requests of 0 and 9 bytes; 3 tasks without data and segments, or 2 starts with both; followed up to the first step that spoils it | memory and the task table run full, the counter wraps and pids are reused, also one that a task still has; a segment outlives the task that attached it; requests for 0 bytes |
| arp_table (MCArp) | 2 entries, 3 addresses, 2 MACs, `ARP_LIVETIME` 2, 2 devices, 2 slots | the table is full with entries of different ages; a device is behind a free slot. MACs are symmetric and so are devices; the properties are safety properties and treat them alike |
| arp_no_nic (MCArp) | 1 slot | a violation, see [what was found](#what-was-found) |
| iprx_queues (MCIpRx) | card: ring of 4 pages, frames of 1 or 2, 3 frames; kernel: fifos of 2, `WAIT` 2, 4 packets; fragments: 2 lists, 5 blocks, 3 packets of 3 pieces, `TIMEOUT` 1 | frames end at, before and over the end of the ring, which fills up; a fifo overflows, a packet goes back to a full fifo, a count runs out; fewer lists than packets, fewer blocks than fragments, every order |
| tcp (MCTcp) | 2 sockets, 2 programs, 1 peer, 1 port to listen on and 1 of clients, streams of 2 bytes, 2 items of less than 3 bytes in all (`MAX_MEM` 3), `RETRIES` 2; data comes with an ACK | a listening socket and its connection fill the table, so a further SYN meets a full one; two bytes come in order, reversed, overlapping and twice, lie in two items and are read one by one; a list is full; memory is refused for an item, a packet and a list; one resend succeeds or all fail |
| disks (MCDisks) | ram: 7 pages of 2 cells, cache of 4, 1 entry in a page, 2 open files, files of up to 5 cells, seeks to the middle of the second page, 3 paths; rom: 4 pages of 2 cells, 3 entries, 2 uploads, lines of up to 3 cells; se: 2 blocks of 4 cells, pages of 2, `CYCLE` = `TIMEOVER` = 2 | a file of 5 cells needs two windows of the cache and three pages; the disk and a directory run full; two files are open at once; programs of two and of one page fill the flash, and the second finds no room after a reset leaked pages; an EEPROM page lies in either block |
| put_seeprom (MCDisks) | as disks, but the monitor takes 1 cell at once and nothing is missed or reset | a violation, see [what was found](#what-was-found) |
| clients (MCClients) | 2 DHCP servers, 2 addresses, 3 blocks, 4 tries as in the code, 2 resends of a DHCP message (the code has 3), 10 arrivals, one reply to an earlier call | two offers and a stranger's answer race; a block in the middle and the short last one are lost, late and repeated; the old reply may be any. Servers and addresses are symmetric |

What they show is in each property's comment and in `about` of `PROJECT.json`.

*Views.* A view makes TLC take states for one that differ only in what nothing reads before it is
written again. tasks_calls uses `Relevant` with the load: it leaves out the request and the answer
of a task once its stub has returned, and the fields of a free block other than its links
(`attach_task` resets the state and the counters, and `req` and `arg` are only read while a request
is posted or a counter runs). disks uses `MCDisks!Seen`: the cells of files that must hold them, the
entries of directory pages, the windows of open files; and one state for everything after `wild`,
a broken `rule` or `stray`, of which the properties say nothing more. The runs with liveness have no view.

*Constraint.* disks has `NoLeak`: no step begins with a page of the RAM disk that is in use and that
nothing has. A page may be leaked by any step (`minifs_delete` does), and the state after it is
checked; what follows is a run with a smaller disk, and smaller disks occur by themselves as files
fill it. CoreCom has no such bound, and leaked pages of the flash are among what is checked.

*Deadlock* is checked except in disks, put_seeprom and clients, whose programs end (an upload that is
done, an exchange that is over, a disk that is `wild`), in proc_memory, where programs that could not be
started may keep all memory, and in tcp, where the programs exit and a
kernel that is `down` does nothing.

## Fairness

- `Tasks!FairSpec`: `WF(Preempt)`, because the timer keeps interrupting a task that does not trap,
  and `SF(ScanStep)`, because the kernel gets the CPU again and again (which is a consequence of
  the ring, not assumed) and a time slice is long enough for a step. Strong fairness is needed:
  the timer may take the CPU from the kernel before its scan starts, so `StartScan` is not
  continuously enabled. Nothing is assumed of user programs or of the network: a program may loop,
  never trap, never be answered by a peer.
- `MCSci!MCSpec`: the interrupts of the line are taken and the line is clocked. No call keeps
  interrupts masked for ever. Nothing is assumed of readers and writers.
- `MCIpRx!MCSpec`: `Start` and `Handle`, because the kernel scans again and again, which tasks_live
  shows; and `Second`, because the clock goes on. Nothing is assumed of the card or of packets.
- `Tcp!Spec`, `MCTcp!MCSpec`: `WF(Interval)`, because the kernel runs `tcp_interval` once a second for
  the same reason. Nothing is assumed of programs or of the peer, which may be silent for ever.
- In tasks_calls, disks and clients all properties are about safety and no fairness is assumed.

## The proofs

All constants are arbitrary within the ASSUMEs of each module, which say no more than that sizes
are natural numbers, that a ring, a section or a table is not empty, that the marks of nothing are
no values (in Sci also that NL and CR differ), that a pid never reaches the marks of the table of
sections (ProcMem), and in ProcMem `KernelFits`.

**TasksProofs.** All safety properties of Tasks, for any number of blocks and any set of calls, from
five invariants, each proved on top of those before it.

1. `IInv == TypeOK /\ RingLinks /\ CursorLive /\ ArgOK /\ WaitsForLive` gives `TypeCorrect`,
   `RingCorrect` (`RingHolds`) and `WaitsCorrect` (`WaitsForLive`). Neither half of the ring's
   correctness is inductive alone: `Detach` unlinks the block under the cursor, so it keeps the
   links only if the cursor is a used block, and the cursor stays one only because the links lead
   from used blocks to used blocks. `ArgOK` (a posted pid is not 0) is needed so that a task never
   waits for pid 0, the mark of a free block. Most actions change neither links nor waits; one lemma
   about *calm* steps deals with them.
2. `Ringed` gives `ReachCorrect` (`RingReaches`). Links that are each other's inverse may still form
   two rings, so the invariant says that there is a list of the used blocks, each once, that the
   links follow. `attach_task` puts a block second in it (`Insert`), `dettach_task` takes one out
   (`Remove`), and a list of different blocks is no longer than the table. That a walk of so many
   steps meets every block is proved by looking at the first place where it would not.
3. `TellsTrue` gives `AnswersCorrect` (`AnswerTrue`) and `ExitCorrect` (`ExitIsFinal`). It says what
   the fields of a block tell of the call in them (`Told`): while `net_count` runs nothing was
   done; when it ended, `retval` is -1 exactly if nothing was, also when `udp_send` failed in a retry; and of the task with the CPU (`Runs`)
   that it waits for nothing, so that no retry and no packet can answer it behind its back.
4. `PidsApart` gives `WaitOverCorrect` (`WaitIsOver`): until the counter wraps no two blocks have one
   pid and none is above the counter, so `dettach_task` wakes those who wait for this task only.
5. `Queue` gives `RecvCorrect` (`RecvInOrder`): a datagram that is kept in the socket is younger than
   the last one that was received, and its owner, the first task of the ring with the socket's pid,
   is not waiting. The second half is what makes `udp` never answer a waiting task past an older
   datagram; that attaching and detaching does not change who is first needs the list of `Ringed`.

**SciProofs.** `TypeCorrect` and `RingImplementsFifo`, for a ring of any size: the area after
`write_ring`, read from the new start on, is the newest `maxsize` bytes of what it held followed by
what was written. `LineInOrder` (`NoneLostInOrder`) and `ReadersInOrder` (`ReadInOrder`) are about
the line (`LineSpec`, its steps without fairness), for any callers and any bytes. For the transmit
side the invariant is the property with the types (`TxInv`); the work is in `write_sci`, which takes a
byte past the ring when the transmitter is empty, and in telling the CRs that `int_txi` adds from
those that were written (`added`). For the receive side `RxInv` says the same of the ring and of the register one by one: each
is in the order of arrival and later than all that was read, and every byte that came in is read,
pending, `lost`, or older than a byte of the ring.

**IpRxProofs.** Rings of any number of pages, fifos of any length, any number of packets, pieces,
lists and blocks.

- `HiddenCorrect` (`NoneHidden`) and `ReadCorrect` (`ReadWhole`): the invariant `NeInv` names the
  frames `q` that lie in the ring and the place `o[i]` behind the boundary where frame `i` ends
  (`Stored`). They follow on each other from BNRY up to CURR with all their parts in order, and they are
  the packets that wait, oldest first and all later than what was read (`InOrder`). The card stores in
  free pages only (`Places` counts them from the boundary, so that the wrap is dealt with once),
  `read_ne` takes the first frame and moves the boundary by its length (`Moved`), a reset drops all.
  `WalkStored` follows the `next` fields as `NoneHidden` does and meets exactly these frames.
- `MemoryCorrect` (`MemoryFollowsQueue`): the memory in use is exactly that of the queued packets and
  of those that met a full fifo. The invariant is `IInv == TypeOK /\ Placed`; `Placed` adds that every
  such packet has one place, in one fifo or the other or among the lost, without which `ip_request`
  would free memory that something else still names. `PopTakes` and `PushAdds` say what one
  operation of a fifo does to the packets in it. A packet that goes back to the end of its fifo always
  finds room there: it has just left it, and no packet is received in the middle of the loop.
- `NearCorrect` (`NearInOrder`): two fifos take turns, so which is the older one depends on where the
  kernel is. `Order` says it: outside the loop the fifo that is filled is behind the other; in the
  loop the one that is worked off is before the other, and behind the place where the loop will end
  (`todo`) it holds far packets only. The swap needs the loop to have emptied its fifo of near ones.
- `WholeCorrect` (`WholePackets`): a list holds fragments of its own packet only, and no packet has
  two lists. What `check_flag` then finds to begin with the first piece, to follow on each other and
  to end with the last one is then each piece of one packet once.

**StoresProofs, the page allocator.** `TableFits` is arithmetic about `alloc_init`: the table ends before the first
section that is handed out, for any memory and section size. `NoOrphanCorrect`: a continuation
always follows a section in use; this is inductive with the type, and holds for requests for 0
bytes too. `HeapKeepsPromise`: by one lemma per call (`AllocGrants`, `FreeReleases`,
`FreeIdReleases`, `ChangeHandsOver`) about the set `Blocks`; `NoOrphan` is what makes `Run` of a
fresh block end where the block ends. `HeapImplementsAbs` adds the assumption `0 \notin BYTES` and
gives the plain refinement.

**StoresProofs, the disks.** The flash disk, for any number and size of pages, any number of entries, and any
programs of which each has a data record: `RomCorrect` (`RomApart`) and `KernelCorrect` (`KernelReads`)
from `RomInv`, which holds between any two writes of the monitor. No page is ever given back, so the
free ones lie behind all others (`FreeBehind`), `new_fat` takes consecutive pages (`NewFatTakes`), and
a file lies on pages that are linked downwards one by one (`Lies`). That is why counting down
(`writedata`) and following the chain (the kernel) come to the same pages: `ChainOf` shows it of the
walk `RomChain`, for a chain of any length. A file that `newfile` is still making has taken its pages
already and shares them with nobody (`Making`). What a write changes is on the pages of its own file
(`WriteCells`), and data goes astray only if the entry that `filefd` names is none or has no pages.
With `init` as the one operation that frees pages, a `del` that gave pages back would break
`FreeBehind`: the monitor relies on its leak.

For the EEPROM, `PageCorrect` (`PageRead`), for any number and size of blocks and pages. After a seek
and during a write the EEPROM was called for the right block and place (`Called`) and has in its buffer
the bytes of the page sent so far; its memory is always what the calls wrote (`disk`). A page never
crosses a block (`PageInBlock`), so the EEPROM's own counter does not wrap in the middle of one. When no
call is under way, as after a reset, nothing is said of its mode, block or buffer: `start` of the next
call ends whatever the last one left (`Reached`, which is where `CYCLE <= TIMEOVER` is needed).

**MiniFsProofs.** For a disk of any number of pages, pages, directory pages and caches of any size, any
files, directories and open files, and programs that keep the rule of sharing: `ChainsCorrect`
(`ChainsApart`), `ContentsCorrect` (`ReadBack`) and `CacheCorrect` (`CacheTrue`). Of the names it is assumed
that none is a mark of a free entry. The property alone is not inductive: an open file has a copy of its entry with
the first page of its chain, `minifs_close` writes it over whatever is at its `index` by then, and a
flush goes along the chain that the copy names. So something has to say that the copy is still true.

- *The book.* The invariant is `Ledger`: there is a book `b` which gives for the first page of each chain
  the directory and the place of its entry, its name and whether it is a directory, and with which
  everything agrees (`Booked`). The chains in the book go from link to link to a `TAIL` over different
  pages (`Goes`) and are `Apart`; each entry that `load_data` finds in a directory is as the book says
  (`Noted`); and so is the copy in each open file, in a directory that is still the one of its path
  (`FdOK`). Two entries are then two lines of the book, since a line gives the place. The chains of the
  book need not all be listed: what `del_all` leaks, or the last page of the disk as a page of a
  directory, stays in it.
- *Chains and tables.* A change of the table keeps a chain if it keeps the links of its pages (`Keeps`).
  From this come the five ways in which the code changes it: a page at the end of a chain
  (`LinkedApart`, any number of them by `GrownApart`), a new chain of one page (`NewApart`), a page behind the root
  of a directory, which cuts off what was there (`RootApart`), a chain that is given back or leaked
  (`ReleasedApart`), a format. `Chain` is a walk by a recursive function; `ChainIs` finds what it gives by
  looking at the least number of steps where it would not.
- *Directories.* `SavedDir` is the composition of `save_data` and `load_data`: what is read back is what was
  written or an empty entry, in the chain as it is at that time.
- *Calls.* One lemma each shows that a call keeps the book (`WriteKeeps`, `SeekKeeps`, `CloseKeeps`, ...) or writes a
  new one (`CreateKeeps`, `DeleteKeeps`). `minifs_delete` takes a line out and must find no open file
  that names it: this is `NoneOpen`, and the place where `MayDelete` is needed. A flush on a full
  disk gives back its cache; `minifs_write` and `minifs_close` then differ in whether the table is saved,
  and both keep the book (`FlushKeeps`).
- *The rule.* The invariants are about behaviours that kept the rule so far (`RuleWas`: no call mends it).
  That a call did not break it is used in three places: `MayDeleteIs`, `MayFormatIs`, and for the contents
  `MayOpenIs`.
- *Contents.* `Held` says that for each file that must hold its cells (`kept`) there are a directory
  `r`, a place `i` in it and a first page `h` with `HeldAt`: the directory is the one of its path (`Home`), the one
  used entry of its name is at `i` and begins at `h` (`Entry`); an open file of the path has that entry, and shows
  the cells if it reads (`Shows`) or has each cell in its window or in the chain if it writes (`Fit`,
  `Views`); with no writer the cells and the size are on the disk (`Rests`); and no writer of another
  path will write its copy of an entry to this place (`Clear`). The last is where a file that lost its
  entry to a cut directory would do harm, and why `kept` leaves such files out. `Agree` says the rest: a
  name is once in a directory (`Once`), a writer's copy is of the entry that is there (`Knows`), and
  programs share files as the rule says (`Shared`).
- *Cells.* `LoadedIs` and `SavedFile` say what the window has after `load_data` and the pages after `save_data`, for a
  window that begins with a page; `minifs_write` goes cell by cell and keeps `Fit` through the moves of the
  window (`WriteContent`), a flush that had room for all makes `Fit` into `OnDisk`.

**ProcMemProofs.** For any memory, sizes and numbers of tasks and segments: `LedgerCorrect`
(`LedgerTrue`) and `SegmentsCorrect` (`ShmBacked`), from `MInv`. `Told` says that the table and the
ledger say the same: every line of the ledger is the run of sections that begins at its address, and
every run has a line. Each function of the allocator gets a lemma about such a pair (what `alloc_mem`
adds, what the two frees take away), and each request is a composition of them; `exec`, with up to
three allocations and a way back, is the long one. `Shares` ties `sharemem` to the lines of segments,
so that `s_free` of a program can never reach one. All of it is said while no step has spoilt it: that two
tasks have different pids is not an invariant but what `spoilt` remembers, as `attach_task` does not see to it.

**NetProofs, the interfaces and the MAC table.** For any number of slots, entries, devices and
addresses: `SlotsCorrect`
(`OneSlotPerDevice`) and `AnswersCorrect` (`AnswersNewest`). The second needs that no address has two
live entries (`OneEntry`), or `get_mac` could find the older one; `set_mac` keeps it because it looks
for the address before it looks for room, and `gc_mac` only takes entries away.

**TcpProofs.** For any number of sockets, programs, peers and ports, any length of the stream and of
its segments, a list with any number of items and any limit of memory: `StreamCorrect` (`StreamHeld`)
and `PacketCorrect` (`PacketLive`), from `Inv`, which says of every socket that it is `Good`.

- *The list.* `StreamHeld` speaks of the bytes that a reader would see all in one. That is not
  inductive: what is linked is read in pieces, given back by later segments, and the next segment is
  joined to it by `next` and size alone. The invariant says what the items are. Each holds the bytes
  that end before its `next` (`InPlace`). The first `c` of them are a `Chain`: each
  begins where the one before it ends, the first at some byte `b`. These are complete and no other
  is; the first `r` of them are read; they end at `complete` (`Prefix`). And what was read is bytes 1
  up to the place in item `r + 1` where reading stopped (`Held`). One lemma per operation shows
  that it keeps this, by naming the new `r`, `c` and `b`: `GCKeeps` moves `b` to the end of the items it
  gives back, `DropKeeps` takes away an item that is not complete, `LinkKeeps` links one somewhere behind
  what is complete (`LinkedPlace`: `AddTCPDataListItem` finds no other place, although it looks at
  `next` only), `CompletedKeeps` lets the chain grow over all items that now join it, `ReadKeeps` moves `r`.
  An item whose memory was refused is in the list without data and joins nothing. A list in which one
  is linked a second time is followed no further (`down`).
- *The walk.* `UnreadBytes` is where the two meet: for a list as above `Unread` is the bytes from the
  place of reading up to `complete`. `Bytes` is a recursive function; what it gives is proved for
  every index by looking at the least one where it would not hold (`Upwards`), as the library's
  induction cannot be used.
- *The sockets.* `Streams` ties the list to the connection: `complete` is `receive_next`, and a socket
  that still waits for the handshake expects byte 1, so that `InitTCPSock` begins where the stream
  does. Every handler is shown to keep `Good`; most leave alone what it is about (`Alike`). `tcp`
  moves `receive_next` to what `AddTCPDataListItem` made complete, never to what the segment says;
  this is the step that a handler which acknowledges refused data would break.
- `Resends`: `retry` runs only with a packet, or with the null that `alloc_mem` gave for one. `tcp_newstate` ends both at once (`NewStateParts`).

**NetProofs, the clients.** For any servers, addresses, number of blocks, tries and resends:
`LeaseCorrect`
(`LeaseAcked`), `SaveCorrect` (`SavedWhole`) and `LoadCorrect` (`LoadedNoGap`). Since any datagram that
was ever sent may arrive, the invariant says of each one in the net that was sent in this call what its
being there tells of the past (`Dhcp`, `Save`, `Load`): an acknowledgement of block n was sent after the server had n blocks,
block n after the client had written those before it, an acknowledged address is on the server's list
and is the one that was asked for. What the sockets keep was sent (`Held`).

The proofs use no axioms beyond the modules' ASSUMEs; every leaf is checked by SMT, Zenon or (for
the last, temporal step) LS4.

## Only model-checked

Liveness (tasks_live, sci_line, iprx_queues, tcp): the prover has no rules for fairness and ENABLED.
All safety
properties that the passing runs check are theorems. Type correctness is a theorem for Tasks, Heap and Ring;
in the other proofs it is the first part of the invariant, for the variables it speaks of.

What the properties leave out is in their comments. The larger exceptions:

- `WaitIsOver` is stated until the pid counter wraps.
- `LedgerTrue` and `ShmBacked` say nothing once a task got the pid of another or asked for 0 bytes.
- `AnswerTrue` does not say that a frame left: `udp_send` reports success with no interface too.
- `StreamHeld` and the liveness properties of tcp say nothing of a kernel that is `down`. `AckTried` ends where
  `process_tcp_out` is called: it may find no memory or no interface, and no caller learns of that.
- `ChainsApart`, `ReadBack` and `CacheTrue` say nothing once a buffer was overrun or the rule of sharing broken.
- `ReadBack` leaves out what `kept` does not hold for: files that were being written when the disk
  ran full, that were rewritten from a place inside a page, that got the last page of the disk
  (`write_ram` refuses it), whose directory, or the one it lies in, got a third page (only two fit into
  the buffer), or that were made while a file that lost its entry in this way was still being
  written (`Lost`).
- `KernelReads` allows data to go astray only after `newfile` found no room.
- `PageRead` has `CYCLE <= TIMEOVER`, that is, an EEPROM that is as fast as its data sheet, and pages
  that the EEPROM takes in one write.
- `LeaseAcked`, `SavedWhole` and `LoadedNoGap` except a call that takes a reply to an earlier call for its PACK,
  for its last acknowledgement or for a block.
- `SavedWhole` is about a server that acknowledges only blocks it has. `LoadedNoGap` allows that a
  block which arrives twice is written twice, and does not say that the file is whole.

## Not modelled

- In Tasks: signals (`set_timer`), whose handler is called through a field that is never assigned;
  file, shared memory and allocation requests (`Other`; their effects are in ProcMem and MiniFs);
  TCP calls other than accept (they are in Tcp); the boot before the kernel enters its loop.
- In Sci: baud rate, parity and framing errors, the second and third line (they share no state).
- In Arp: packet formats; netmasks other than 24 bits; the broadcast address.
- In Ne: sending, probing and setting up the card; the other handlers of `irq.c`.
- In IpRx and Reassembly: headers, checksums, sending; identifers that are 0 or shared by two
  senders; in Reassembly the memory of the packets, which moves from IpRx with the fragment.
- In Tcp: sequence numbers that wrap, urgent data, options, checksums, and the data that goes out
  beyond the one packet in flight.
- In MiniFs: relative paths and the working directory, names that begin other names, empty names and
  names that begin with 0xff, memory for buffers that is refused. In Seeprom: the waveform on the two lines, closing.
- In CoreCom and Put: the commands that look at memory, load into it and start programs; the flash
  algorithm, which is machine code in a header.
- In Clients: gateway and netmask from DHCP, names of files.
- ICMP (no state), the device table (dispatch only; its masking is what makes a call of a driver one
  action), the register-level drivers for LCD, timers, AD and ports, start-up code and the program
  loader, the block cache (nobody calls it), formatted printing, shell and HTTP server (programs on
  top of the calls that are modelled), and the host tools other than `put`, above all
  `tool/h8write.c`, which talks to the boot ROM of a chip before any of this system runs.

## What was found

*Disagreements of comments and code.*

- `src/MES/arp.c:172` says that `get_mac` returns 0 when there is no NIC, and `arp_request`
  (`src/MES/request.c:103`) ends a call at once on that answer. The code returns 0 only when there is
  no table. arp_no_nic shows it: with no interface the answer is -1, so a call repeats ARP requests
  until its timeout.
- `src/tool/put.c:491` says that `-r` writes to the EEPROM. A line counts as written when the answer
  holds a full stop (`src/tool/put.c:356`), and the monitor answers `@` to a line that it wrote and with
  a message that ends in a full stop to one that it refused. put_seeprom shows an upload that ends
  although a line was not written; a line that *was* written is sent for ever.

*Behaviour of the code that a reader of the properties should know.*

- A fragment that belongs between two others is put *behind* the second (`src/MES/ip.c:258`); a packet
  whose middle comes last is never put together and waits for the timeout.
- `write_sci` sends a byte at once when the transmitter is empty even if the CR of a line end is
  due; that CR is lost.
- A failing `attach_task` leaves the program's memory with SuperPID for ever; the ledger has such
  blocks as `lost`.
- The receive interrupt ignores a full fifo; that packet's memory is lost (`MemoryFollowsQueue`
  names exactly these packets).
- `int_ne` clears the status of the card after the frames were read (`src/ne.c:229`): a frame that
  comes in between raises no interrupt of its own and is read with the next one.
- After the pid counter wraps, one pass over the ring does not make the new pid unique. The end of one
  of two tasks with the same pid frees the memory of the other (`src/MES/task.c:73`).
- A DHCP transaction has the same number in every call (`src/MES/libsys/dhcp.c:34`), so a late PACK of an
  earlier call sets the address that the new call was offered and nobody acknowledged. After a timeout
  the buffer is compared although nothing was received into it (`src/MES/libsys/dhcp.c:110`).
- Any change to CONNECTED counts as the acknowledgement of the packet in flight
  (`src/MES/tcp.c:470`); the results of `alloc_mem` for a packet and for a list are used unseen
  (`src/MES/tcp.c:477`, `:1287`, `:229`); and a SYN|ACK that was answered when no socket is free is a step to an address
  that was never assigned (`src/MES/tcp.c:1174`).
- `newfile` compares an unsigned result with -1 and never notices that there is no room
  (`src/MES/core_com.c:350`).
- A directory that gets a third page loses its second one (`src/MES/minifs.c:285` links the new page
  to the first), with the files that have their entries there. A file that is being written then
  keeps the number of its entry, and its `minifs_close` (`src/MES/minifs.c:342`) writes the entry over
  the file or directory that got the place in the meantime.
- `minifs_delete` deletes open files (`src/MES/minifs.c:492`), and the calls on descriptors do not look whether
  they are open (`:334`): the close of a deleted file writes its old entry back, over pages that another
  file may have.
- `minifs_delete` tests a variable that was never set for the first page of a chain
  (`src/MES/minifs.c:517`) and may leak the chain; `get_fullpath` asks for two bytes less than it fills
  (`src/MES/fileio.c:20`).
- `tftp_load` reports success after a timeout. `if_dhcp` takes the option of the router only when a
  gateway is already known (`src/MES/libsys/dhcp.c:119`), for example from the field of a relay agent.

## The plan

Done: Tasks, Heap, Ring and Sci, ProcMem, Arp, the receive path from the card to whole packets, TCP,
UDP with its clients, the files on three disks with the monitor and the upload; the proofs above.
What is left, in the order in which it would add most:

1. **Composition**: ProcMem with Tasks' task table (the pids of the one are the blocks of the
   other); IpRx with Reassembly, for the memory of fragments.
2. **Tcp**: an abstract byte stream with the state of a connection, and Tcp shown to implement it;
   sequence numbers of a small width that wrap.
3. **Programs**: the HTTP server on Tcp and MiniFs, the shell's jobs on Tasks.
