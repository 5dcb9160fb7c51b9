------------------------------ MODULE ProcMem ------------------------------
(***************************************************************************)
(* Who owns which memory of MES: the requests that allocate and free       *)
(* (_exec and request of MES/request.c, attach_task and dettach_task of    *)
(* MES/task.c, MES/shm.c) on top of the page allocator Heap.  The task     *)
(* `initial' handles one request at a time and the timer handler does not  *)
(* allocate, so a request is one step.                                     *)
(*   The ledger is a ghost: what every block was handed out for.  It is    *)
(* kept from the intention of each request, the table mat from its calls   *)
(* of the allocator.                                                       *)
(***************************************************************************)
EXTENDS Integers, Sequences

CONSTANTS
    MEMSIZE, SECSIZE,      \* as in Heap
    MAX_PID,               \* where the counter of pids wraps (30000)
    MAX_TASK,              \* user tasks that the table has room for
    SHM_NUM,               \* entries of the table of shared segments
    Keys,                  \* the keys that shmget is called with
    ShmSizes,              \* the sizes that shmget is called with
    ProgSizes, StackSizes, \* the memory that programs ask for
    DataSizes,             \* the sizes that s_malloc is called with, 0 perhaps
    KernelSize             \* what the kernel allocates when it starts

SuperPID == 1

\* The pids of user tasks; 2 is the shell's.
PIDS == 3 .. MAX_PID + MAX_TASK

ASSUME ProcMemAssumption ==
    /\ MEMSIZE \in Nat /\ SECSIZE \in Nat \ {0}
    /\ MAX_TASK \in Nat /\ SHM_NUM \in Nat
    /\ Keys \subseteq Nat /\ ShmSizes \subseteq Nat
    /\ ProgSizes \cup StackSizes \cup {KernelSize} \subseteq Nat \ {0} /\ DataSizes \subseteq Nat

ASSUME PidAssumption == MAX_PID \in Nat /\ 3 <= MAX_PID /\ MAX_PID + MAX_TASK < 65535

VARIABLES
    mat,        \* the table of meminfo
    pid_count,  \* the pid that was given last
    tasks,      \* the pids in the ring, in its order
    sharemem,   \* the table of shared segments
    ledger,     \* ghost: the blocks and what they are for
    spoilt      \* ghost: two tasks got the same pid, or one asked for 0 bytes

vars == <<mat, pid_count, tasks, sharemem, ledger, spoilt>>

H == INSTANCE Heap WITH
        IDS <- PIDS \cup {SuperPID},
        BYTES <- ProgSizes \cup StackSizes \cup DataSizes,
        PTRS <- {},
        caller <- SuperPID

Entry == 0 .. SHM_NUM - 1

\* The section where alloc_mem places n bytes, 0 when there is no room.
Where(m, n) ==
    IF \E a \in H!Sec : H!Place(m, a, H!Count(n))
    THEN CHOOSE a \in H!Sec : H!Place(m, a, H!Count(n)) ELSE 0

\* The table after alloc_mem(id, n) found room at a.
With(m, id, a, n) == H!Taken(m, id, a, H!Count(n))

\* A line of the ledger: n bytes at section a are there for this use of id.
Line(id, a, n, use) == [id |-> id, at |-> a, len |-> H!Count(n), use |-> use]

Empty == [i \in H!Sec |-> H!FREE]

\* The memory holds what the kernel allocates when it starts: task_init
\* writes to its table without a test of alloc_mem, so with less memory
\* nothing runs.
ASSUME KernelFits == H!SecStart + H!Count(KernelSize) <= H!SecEnd

\* shm_init, and what the kernel allocates for its own tables at the start.
Init ==
    /\ mat = With(Empty, SuperPID, H!SecStart, KernelSize)
    /\ ledger = {Line(SuperPID, H!SecStart, KernelSize, "kernel")}
    /\ pid_count = 2 /\ tasks = <<>> /\ spoilt = FALSE
    /\ sharemem = [i \in Entry |-> [key |-> 0, size |-> 0, ptr |-> 0]]

-----------------------------------------------------------------------------
(* Tasks. *)

\* (mutant of Handed) The program stays with SuperPID.
HandedNot(m, pid, a) == m
\* change_id_mem of attach_task.
Handed(m, pid, a) == IF m[a] = SuperPID THEN [m EXCEPT ![a] = pid] ELSE m

\* Does a task with this pid run.
Runs(pid) == \E i \in DOMAIN tasks : tasks[i] = pid

Full == Len(tasks) >= MAX_TASK

\* attach_task's search of a new pid: one pass over the ring, each task whose
\* pid is the candidate moves the candidate on.  Once the counter has wrapped
\* the pid may be one that an earlier task of the ring has.
FirstPid == IF pid_count + 1 > MAX_PID THEN 3 ELSE pid_count + 1
NextPid ==
    LET p[i \in 0 .. Len(tasks)] ==
            IF i = 0 THEN FirstPid ELSE IF tasks[i] = p[i - 1] THEN p[i - 1] + 1 ELSE p[i - 1]
    IN  p[Len(tasks)]

\* attach_task fails after _exec: there is no free block of the task table,
\* or no room for the stack.  Nobody frees the program.
AttachFails(m, a, n, k) ==
    /\ \/ Full /\ UNCHANGED pid_count
       \/ ~ Full /\ Where(m, k) = 0 /\ pid_count' = NextPid
    /\ mat' = m
    /\ ledger' = ledger \cup {Line(SuperPID, a, n, "lost")}
    /\ UNCHANGED <<tasks, spoilt>>

\* attach_task: the stack (with heap and arguments) of the task gets its pid,
\* then the program does; the task becomes the first of the ring.
AttachRuns(m, a, n, k) ==
    /\ ~ Full
    /\ LET s == Where(m, k)
       IN  /\ s # 0
           /\ \E pid \in PIDS :
                 /\ pid = NextPid
                 /\ pid_count' = pid
                 /\ mat' = Handed(With(m, pid, s, k), pid, a)
                 /\ ledger' = ledger \cup {Line(pid, a, n, "program"), Line(pid, s, k, "stack")}
                 /\ tasks' = <<pid>> \o tasks
                 /\ spoilt' = (spoilt \/ Runs(pid))

\* EXEC_REQ when _exec finds room for the program.  (Everything else that
\* makes _exec fail gives back what was allocated and changes nothing.)
Exec(n, k) ==
    /\ LET a == Where(mat, n)
           m == With(mat, SuperPID, a, n)
       IN  a # 0 /\ (AttachFails(m, a, n, k) \/ AttachRuns(m, a, n, k))
    /\ UNCHANGED sharemem

\* dettach_task: what has the pid of the task is freed.
Exit(pid) ==
    /\ \E i \in DOMAIN tasks :
          tasks[i] = pid /\ tasks' = SubSeq(tasks, 1, i - 1) \o SubSeq(tasks, i + 1, Len(tasks))
    /\ mat' = H!FreedId(mat, pid)
    /\ ledger' = {l \in ledger : l.id # pid}
    /\ UNCHANGED <<pid_count, sharemem, spoilt>>

\* ALLOC_REQ.  For 0 bytes alloc_mem writes the pid over a section of
\* whoever owns it.
Alloc(pid, n) ==
    /\ Runs(pid)
    /\ \/ /\ n > 0
          /\ LET a == Where(mat, n)
             IN  /\ a # 0
                 /\ mat' = With(mat, pid, a, n)
                 /\ ledger' = ledger \cup {Line(pid, a, n, "data")}
          /\ UNCHANGED spoilt
       \/ H!AllocZero(pid, n) /\ spoilt' = TRUE /\ UNCHANGED ledger
    /\ UNCHANGED <<pid_count, tasks, sharemem>>

\* The test of free_mem.
Allowed(pid, a) == mat[a] = pid

\* FREE_REQ of any address: of the data, the program or the stack of the task,
\* of memory it has freed before, or of somebody else's.
Free(pid, a) ==
    /\ Runs(pid)
    /\ \/ /\ Allowed(pid, a)
          /\ mat' = H!Freed(mat, a)
          /\ ledger' = {l \in ledger : ~ (l.id = pid /\ l.at = a)}
       \/ ~ Allowed(pid, a) /\ UNCHANGED <<mat, ledger>>
    /\ UNCHANGED <<pid_count, tasks, sharemem, spoilt>>

-----------------------------------------------------------------------------
(* Shared memory. *)

\* The entries that shm_get finds for a key.
Known(key) == {i \in Entry : sharemem[i].key = key}

\* SHM_GET_REQ: a known key gets its entry, a new one the first unused entry.
ShmGet(key, size) ==
    /\ tasks # <<>> /\ Known(key) = {}
    /\ \E i \in Entry :
          /\ sharemem[i].size = 0 /\ \A j \in Entry : j < i => sharemem[j].size # 0
          /\ sharemem' = [sharemem EXCEPT ![i].key = key, ![i].size = size]
    /\ UNCHANGED <<mat, pid_count, tasks, ledger, spoilt>>

InUse(i) == sharemem[i].size # 0 /\ sharemem[i].key # 0

\* (mutant of Unbacked) Every shm_at allocates.
UnbackedEver(i) == TRUE
\* The test of shm_at.
Unbacked(i) == sharemem[i].ptr = 0

\* SHM_AT_REQ: the first one allocates the segment.
ShmAt(i) ==
    /\ tasks # <<>> /\ InUse(i) /\ Unbacked(i)
    /\ LET n == sharemem[i].size
           a == Where(mat, n)
       IN  /\ a # 0
           /\ mat' = With(mat, SuperPID, a, n)
           /\ sharemem' = [sharemem EXCEPT ![i].ptr = a]
           /\ ledger' = ledger \cup {Line(SuperPID, a, n, "shm")}
    /\ UNCHANGED <<pid_count, tasks, spoilt>>

Dropped(i) == [key |-> 0, size |-> 0, ptr |-> 0]

\* SHM_DT_REQ: the segment is freed, whoever else has attached it.
ShmDt(i) ==
    /\ tasks # <<>> /\ InUse(i) /\ sharemem[i].ptr # 0
    /\ LET a == sharemem[i].ptr
       IN  /\ mat' = IF mat[a] = SuperPID THEN H!Freed(mat, a) ELSE mat
           /\ ledger' = {l \in ledger : ~ (l.use = "shm" /\ l.at = a)}
    /\ sharemem' = [sharemem EXCEPT ![i] = Dropped(i)]
    /\ UNCHANGED <<pid_count, tasks, spoilt>>

Next ==
    \/ \E n \in ProgSizes, k \in StackSizes : Exec(n, k)
    \/ \E pid \in PIDS :
          \/ Exit(pid)
          \/ \E n \in DataSizes : Alloc(pid, n)
          \/ \E a \in H!Sec : Free(pid, a)
    \/ \E key \in Keys, size \in ShmSizes : ShmGet(key, size)
    \/ \E i \in Entry : ShmAt(i) \/ ShmDt(i)

Spec == Init /\ [][Next]_vars

-----------------------------------------------------------------------------
(* Properties. *)

\* As long as every task has a pid of its own and none has asked for 0 bytes
\* (attach_task and alloc_mem guard against neither), the table says of every
\* block what it was handed out for: no request of one task, whatever address
\* it frees and whenever it ends, takes memory of another task, of the kernel
\* or of a segment, and nothing that was given back is still in the table.
LedgerTrue ==
    ~ spoilt =>
        /\ \A l \in ledger :
              /\ mat[l.at] = l.id
              /\ H!Run(mat, l.at) = l.at .. l.at + l.len - 1
        /\ H!Heads(mat) = {l.at : l \in ledger}

\* As long as that is so, a segment that was attached has memory of its own,
\* as much as it was created with, that the kernel owns: the end of the task
\* that attached it first does not free it.  No memory of a segment is without
\* its entry, and two entries never have the same key, so all tasks that ask
\* for a key get the same segment.
ShmBacked ==
    ~ spoilt =>
        /\ \A i \in Entry : sharemem[i].ptr # 0 =>
              /\ Line(SuperPID, sharemem[i].ptr, sharemem[i].size, "shm") \in ledger
              /\ mat[sharemem[i].ptr] = SuperPID
        /\ \A i, j \in Entry :
              i # j /\ sharemem[i].ptr # 0 => sharemem[i].ptr # sharemem[j].ptr
        /\ \A l \in ledger : l.use = "shm" => \E i \in Entry : sharemem[i].ptr = l.at
        /\ \A i, j \in Entry : i # j /\ sharemem[i].key = sharemem[j].key => sharemem[i].key = 0
=============================================================================
