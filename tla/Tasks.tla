------------------------------- MODULE Tasks -------------------------------
(***************************************************************************)
(* The task scheduler of MES and the life of a system call:                *)
(* src/MES/task.c (tcb ring, attach_task, dettach_task, initial, task_sw), *)
(* src/MES/request.c (request, net_request), the datagram hand-over of     *)
(* src/MES/udp.c and the stubs of src/MES/libsys.                          *)
(*                                                                         *)
(* A user task posts a request in its task control block and traps.  The   *)
(* kernel task `initial' walks the ring with interrupts off, answers the   *)
(* posted requests, counts timeouts down, then lets the network run.  The  *)
(* timer takes the CPU from any task that runs with interrupts on.         *)
(***************************************************************************)
EXTENDS Integers, FiniteSets

CONSTANTS
    MAX_TASK,    \* number of task control blocks (64 in task.h)
    MAX_PID,     \* the last pid before the counter wraps to 3 (30000)
    NET_COUNT,   \* scans a call waits for the network (8000, 3 * 4000)
    SLEEPS,      \* arguments of sleep() that the tasks use
    COUNTER,     \* timer ticks in one unit of Task.count
    CALLS,       \* the system calls that the tasks make
    PIDS,        \* pids that the tasks pass to kill and wait
    MAX_TIME,    \* bound: time_count saturates here
    MAX_EXEC,    \* bound: calls of execute() in a behaviour
    MAX_PKT      \* bound: datagrams that arrive in a behaviour

Call == {"exec", "kill", "wait", "bind", "recv", "send", "accept", "other"}

ASSUME TasksAssumption ==
    /\ MAX_TASK \in Nat /\ MAX_TASK >= 2
    /\ MAX_PID \in Nat /\ MAX_PID >= 3
    /\ NET_COUNT \in Nat \ {0}
    /\ SLEEPS \subseteq Nat
    /\ COUNTER \in Nat \ {0}
    /\ CALLS \subseteq Call
    /\ PIDS \subseteq Nat \ {0}
    /\ MAX_TIME \in Nat
    /\ MAX_EXEC \in Nat
    /\ MAX_PKT \in Nat

Slot == 0 .. MAX_TASK - 1
K == 0                                   \* the kernel task: tcb_table[0]
Flag == {"REQ", "EXIT", "WAIT", "NET"}   \* the bits of Task.state

VARIABLES
    \* the tcb ring
    pid, next, prev, pid_count,
    \* the other fields of a Task
    wait_pid, state, count, net_count, req, arg, retval,
    \* what runs, the time since the last scan, and the kernel's own place
    curtask, time_count, kpc, taskptr,
    \* where the code of each user task is in its current system call
    upc,
    \* the UDP socket, whether the peer's MAC address is in the ARP table
    sock_id, sock_packet, mac,
    \* ghosts: did pid_count wrap, execs and datagrams so far, what the call
    \* did to the outside (passes of udp_send over the interfaces, or the datagram
    \* copied, or the connection taken), the datagram received last
    wrapped, execs, pkts, done, lastRecv

ring == <<pid, next, prev, pid_count, wrapped>>
call == <<req, arg>>
sock == <<sock_id, sock_packet>>
net == <<sock_id, sock_packet, mac, pkts, lastRecv>>
vars == <<pid, next, prev, pid_count, wait_pid, state, count, net_count, req,
          arg, retval, curtask, time_count, kpc, taskptr, upc, sock_id, sock_packet,
          mac, wrapped, execs, pkts, done, lastRecv>>

Live(t) == pid[t] # 0
\* (mutant) task_sw looks at the counters only.
RunnableByCount(t) == count[t] = 0 /\ net_count[t] = 0
Runnable(t) == state[t] = {} /\ count[t] = 0 /\ net_count[t] = 0

(***************************************************************************)
(* After task_init and the first lines of initial: the kernel has pid 1,   *)
(* the shell pid 2, and the kernel is about to enter its loop.             *)
(***************************************************************************)
Init ==
    /\ pid = [t \in Slot |-> IF t = 0 THEN 1 ELSE IF t = 1 THEN 2 ELSE 0]
    /\ next = [t \in Slot |-> IF t = 0 THEN 1 ELSE 0]
    /\ prev = [t \in Slot |-> IF t = 0 THEN 1 ELSE 0]
    /\ pid_count = 2
    /\ wait_pid = [t \in Slot |-> 0]
    /\ state = [t \in Slot |-> {}]
    /\ count = [t \in Slot |-> 0]
    /\ net_count = [t \in Slot |-> 0]
    /\ req = [t \in Slot |-> "none"]
    /\ arg = [t \in Slot |-> 0]
    /\ retval = [t \in Slot |-> 0]
    /\ curtask = K
    /\ time_count = 0
    /\ kpc = "loop"
    /\ taskptr = K
    /\ upc = [t \in Slot |-> "run"]
    /\ sock_id = 0
    /\ sock_packet = 0
    /\ mac = FALSE
    /\ wrapped = FALSE
    /\ execs = 0
    /\ pkts = 0
    /\ done = [t \in Slot |-> 0]
    /\ lastRecv = 0

-----------------------------------------------------------------------------
(* Walks of the ring. *)

\* The i-th task from t on, going along the next pointers.
Along(t) ==
    LET w[i \in 0 .. MAX_TASK] == IF i = 0 THEN t ELSE next[w[i - 1]]
    IN  w

\* u is the first task of the kernel's ring, the kernel left out, with pid p.
FirstWith(p, u) ==
    LET w == Along(next[K])
    IN  \E i \in Slot :
            /\ w[i] = u /\ pid[u] = p
            /\ \A j \in 0 .. i : w[j] # K
            /\ \A j \in 0 .. i - 1 : pid[w[j]] # p

\* get_taskptr: u is the task with pid p; the kernel is looked at last.
TaskWith(p, u) ==
    \/ u # K /\ FirstWith(p, u)
    \/ u = K /\ pid[K] = p /\ \A v \in Slot \ {K} : ~ FirstWith(p, v)

\* attach_task's search of a new pid: one pass over the ring, each task whose
\* pid is the candidate moves the candidate on.
FirstPid == IF pid_count + 1 > MAX_PID THEN 3 ELSE pid_count + 1
NextPid ==
    LET w == Along(next[K])
        onRing(i) == \A j \in 0 .. i : w[j] # K
        p[i \in 0 .. MAX_TASK] ==
            IF i = 0 THEN FirstPid
            ELSE IF onRing(i - 1) /\ pid[w[i - 1]] = p[i - 1] THEN p[i - 1] + 1
            ELSE p[i - 1]
    IN  p[MAX_TASK]

\* The slot that attach_task takes: the first one that is free.
FreeSlot(c) == pid[c] = 0 /\ \A d \in Slot : d < c => pid[d] # 0

-----------------------------------------------------------------------------
(* The CPU changes hands: the trap of a task, or the timer's interrupt. *)

\* (mutant of SearchFrom) task_sw searches from the head of the ring.
SearchFromHead == next[K]
\* Where task_sw starts its search.
SearchFrom == next[curtask]

\* task_sw: the next task of the ring that waits for nothing.  start_timer
\* adds the length of the slice that ends, one tick at least.
Switch ==
    /\ \E u, i \in Slot :
          LET w == Along(SearchFrom)
          IN  /\ w[i] = u /\ Runnable(u)
              /\ \A j \in 0 .. i - 1 : ~ Runnable(w[j])
              /\ curtask' = u
    /\ time_count' = IF time_count < MAX_TIME THEN time_count + 1 ELSE time_count

\* The timer interrupt (int_wovi); the kernel masks it while it scans.
Preempt ==
    /\ curtask = K => kpc \in {"loop", "trap"}
    /\ Switch
    /\ UNCHANGED <<ring, wait_pid, state, count, net_count, call, retval, kpc,
                   taskptr, upc, net, execs, done>>

-----------------------------------------------------------------------------
(* A user task. *)

User(t) == curtask = t /\ t # K

\* A stub of libsys: fill in the request, raise REQ_STATE.
Post(t, c, a) ==
    /\ User(t) /\ upc[t] = "run" /\ c \in CALLS
    /\ c = "exec" => execs < MAX_EXEC
    /\ req' = [req EXCEPT ![t] = c]
    /\ arg' = [arg EXCEPT ![t] = a]
    /\ state' = [state EXCEPT ![t] = @ \cup {"REQ"}]
    /\ upc' = [upc EXCEPT ![t] = "trap"]
    /\ execs' = IF c = "exec" THEN execs + 1 ELSE execs
    /\ done' = [done EXCEPT ![t] = 0]
    /\ UNCHANGED <<ring, wait_pid, count, net_count, retval, curtask,
                   time_count, kpc, taskptr, net>>

\* sleep: only the counter is set, no request is posted.
Sleep(t, n) ==
    /\ User(t) /\ upc[t] = "run"
    /\ count' = [count EXCEPT ![t] = n]
    /\ upc' = [upc EXCEPT ![t] = "nap"]
    /\ UNCHANGED <<ring, wait_pid, state, net_count, call, retval, curtask,
                   time_count, kpc, taskptr, net, execs, done>>

\* s_exit.
Exit(t) ==
    /\ User(t) /\ upc[t] = "run"
    /\ state' = [state EXCEPT ![t] = @ \cup {"EXIT"}]
    /\ upc' = [upc EXCEPT ![t] = "exit"]
    /\ UNCHANGED <<ring, wait_pid, count, net_count, call, retval, curtask,
                   time_count, kpc, taskptr, net, execs, done>>

\* TRAP0 at the end of a stub.
Trap(t) ==
    /\ User(t) /\ upc[t] \in {"trap", "nap", "exit"}
    /\ upc' = [upc EXCEPT ![t] =
                  CASE @ = "trap" -> "ret" [] @ = "nap" -> "run" [] OTHER -> "gone"]
    /\ Switch
    /\ UNCHANGED <<ring, wait_pid, state, count, net_count, call, retval, kpc,
                   taskptr, net, execs, done>>

\* `return task->retval': the call is over.
Return(t) ==
    /\ User(t) /\ upc[t] = "ret"
    /\ upc' = [upc EXCEPT ![t] = "run"]
    /\ UNCHANGED <<ring, wait_pid, state, count, net_count, call, retval,
                   curtask, time_count, kpc, taskptr, net, execs, done>>

UserStep(t) ==
    \/ \E c \in {"kill", "wait"}, a \in PIDS : Post(t, c, a)
    \/ \E c \in Call \ {"kill", "wait"} : Post(t, c, 0)
    \/ \E n \in SLEEPS : Sleep(t, n)
    \/ Exit(t)
    \/ Trap(t)
    \/ Return(t)

-----------------------------------------------------------------------------
(* The kernel's scan: initial's loop, interrupts off from "scan" to "trap". *)

\* (mutant of ScanFrom) The scan misses the head of the ring.
ScanFromSecond == next[next[K]]
\* Where the scan starts: behind the kernel's own block.
ScanFrom == next[K]

\* int_disable, and the scan starts.
StartScan ==
    /\ curtask = K /\ kpc = "loop"
    /\ kpc' = "scan" /\ taskptr' = ScanFrom
    /\ UNCHANGED <<ring, wait_pid, state, count, net_count, call, retval,
                   curtask, time_count, upc, net, execs, done>>

At(t) == curtask = K /\ kpc = "scan" /\ taskptr = t /\ t # K

\* (mutant of LinkIn) The tail is lost.
LinkNoTail(c) ==
    /\ prev' = [prev EXCEPT ![c] = K, ![K] = c]
    /\ next' = [next EXCEPT ![c] = K, ![K] = c]
\* The new block goes right behind the kernel's.
LinkIn(c) ==
    /\ prev' = [prev EXCEPT ![c] = K, ![next[K]] = c]
    /\ next' = [next EXCEPT ![c] = next[K], ![K] = c]

\* attach_task once a slot c and a pid p are found: c is linked and its fields
\* are reset.  call, retval and arg are not.
Link(c, p) ==
    /\ LinkIn(c)
    /\ pid' = [pid EXCEPT ![c] = p]
    /\ count' = [count EXCEPT ![c] = 0]
    /\ net_count' = [net_count EXCEPT ![c] = 0]
    /\ wait_pid' = [wait_pid EXCEPT ![c] = 0]
    /\ upc' = [upc EXCEPT ![c] = "run"]

\* request's last lines: the request is answered with v.
Answer(t, v) ==
    /\ retval' = [retval EXCEPT ![t] = v]
    /\ kpc' = "count"

Clear(t) == state' = [state EXCEPT ![t] = @ \ {"REQ"}]

\* EXEC_REQ.  It fails when the program cannot be loaded, when no slot is
\* free, and when the heap has no room for the stack; the last failure comes
\* after pid_count was advanced.
ExecFails(t) ==
    /\ Clear(t) /\ Answer(t, -1)
    /\ UNCHANGED <<ring, wait_pid, count, net_count, upc, net, done>>

ExecRuns(t) ==
    \E c \in Slot, p \in FirstPid .. FirstPid + MAX_TASK :
        /\ FreeSlot(c) /\ p = NextPid
        /\ pid_count' = p
        /\ wrapped' = (wrapped \/ pid_count + 1 > MAX_PID)
        /\ \/ /\ Clear(t) /\ Answer(t, -1)
              /\ UNCHANGED <<pid, next, prev, wait_pid, count, net_count, upc>>
           \/ /\ Link(c, p)
              /\ state' = [state EXCEPT ![t] = @ \ {"REQ"}, ![c] = {}]
              /\ Answer(t, p)
        /\ UNCHANGED <<net, done>>

\* KILL_REQ: raise EXIT_STATE of the first task of the ring with that pid.
Kill(t) ==
    \/ \E v \in Slot \ {K} :
          /\ FirstWith(arg[t], v)
          /\ state' = [u \in Slot |-> (state[u] \ (IF u = t THEN {"REQ"} ELSE {}))
                                        \cup (IF u = v THEN {"EXIT"} ELSE {})]
          /\ Answer(t, 0)
          /\ UNCHANGED <<ring, wait_pid, count, net_count, upc, net, done>>
    \/ /\ \A v \in Slot \ {K} : ~ FirstWith(arg[t], v)
       /\ Clear(t) /\ Answer(t, -1)
       /\ UNCHANGED <<ring, wait_pid, count, net_count, upc, net, done>>

\* WAIT_REQ: sleep until the task with that pid is detached.
Wait(t) ==
    \/ \E v \in Slot \ {K} :
          /\ FirstWith(arg[t], v)
          /\ state' = [state EXCEPT ![t] = (@ \ {"REQ"}) \cup {"WAIT"}]
          /\ wait_pid' = [wait_pid EXCEPT ![t] = arg[t]]
          /\ Answer(t, 0)
          /\ UNCHANGED <<ring, count, net_count, upc, net, done>>
    \/ /\ \A v \in Slot \ {K} : ~ FirstWith(arg[t], v)
       /\ Clear(t) /\ Answer(t, -1)
       /\ UNCHANGED <<ring, wait_pid, count, net_count, upc, net, done>>

\* UDP_SOCK_REQ and UDP_BIND_REQ on the one socket of the model.
Bind(t) ==
    /\ IF sock_id = 0
       THEN sock_id' = pid[t] /\ sock_packet' = 0 /\ Answer(t, 0)
       ELSE UNCHANGED sock /\ Answer(t, -1)
    /\ Clear(t)
    /\ UNCHANGED <<ring, wait_pid, count, net_count, upc, mac, pkts, done, lastRecv>>

\* (mutant of TakePacket) The packet stays in the socket.
TakeCopy == sock_packet' = sock_packet
TakePacket == sock_packet' = 0

\* UDP_RECV_REQ: take the packet that the socket keeps, or wait for one.
\* udp_recv does not ask whose socket it is.
Recv(t) ==
    /\ IF sock_packet # 0
       THEN /\ done' = [done EXCEPT ![t] = sock_packet]
            /\ lastRecv' = sock_packet
            /\ TakePacket
            /\ Answer(t, 1)
            /\ UNCHANGED net_count
       ELSE /\ net_count' = [net_count EXCEPT ![t] = NET_COUNT]
            /\ Answer(t, -1)
            /\ UNCHANGED <<sock_packet, done, lastRecv>>
    /\ Clear(t)
    /\ UNCHANGED <<ring, wait_pid, count, upc, sock_id, mac, pkts>>

\* udp_send: the datagram is given to every interface that is configured (to
\* none, and with success, if none is), or the socket is none or alloc_mem
\* gives no packet, and nothing is sent.
UdpSend(t) ==
    \/ done' = [done EXCEPT ![t] = @ + 1] /\ retval' = [retval EXCEPT ![t] = 1]
    \/ UNCHANGED done /\ retval' = [retval EXCEPT ![t] = -1]

\* UDP_SEND_REQ: arp_request, then udp_send if the MAC address is known.
Send(t) ==
    /\ IF mac
       THEN /\ net_count' = [net_count EXCEPT ![t] = 0]
            /\ UdpSend(t) /\ kpc' = "count"
       ELSE /\ net_count' = [net_count EXCEPT ![t] = NET_COUNT]
            /\ Answer(t, -1)
            /\ UNCHANGED done
    /\ Clear(t)
    /\ UNCHANGED <<ring, wait_pid, count, upc, net>>

\* TCP_ACCEPT_REQ: wait for the network if the socket listens.  ret is not
\* assigned then: whatever it holds goes into retval.
Accept(t) ==
    /\ \/ /\ state' = [state EXCEPT ![t] = (@ \ {"REQ"}) \cup {"NET"}]
          /\ \E v \in {-1, 0, 1} : Answer(t, v)
       \/ Clear(t) /\ Answer(t, -1)
    /\ UNCHANGED <<ring, wait_pid, count, net_count, upc, net, done>>

\* Every request that touches neither the scheduler nor the two calls above.
Other(t) ==
    /\ \E v \in {-1, 0} : Answer(t, v)
    /\ Clear(t)
    /\ UNCHANGED <<ring, wait_pid, count, net_count, upc, net, done>>

\* request.
HandleRequest(t) ==
    /\ At(t) /\ "EXIT" \notin state[t] /\ "REQ" \in state[t]
    /\ CASE req[t] = "exec" -> ExecFails(t) \/ ExecRuns(t)
         [] req[t] = "kill" -> Kill(t)
         [] req[t] = "wait" -> Wait(t)
         [] req[t] = "bind" -> Bind(t)
         [] req[t] = "recv" -> Recv(t)
         [] req[t] = "send" -> Send(t)
         [] req[t] = "accept" -> Accept(t)
         [] OTHER -> Other(t)
    /\ UNCHANGED <<call, curtask, time_count, taskptr, execs>>

\* No request is posted: on to the counters.
NoReq(t) ==
    /\ At(t) /\ state[t] \cap {"EXIT", "REQ"} = {}
    /\ kpc' = "count"
    /\ UNCHANGED <<ring, wait_pid, state, count, net_count, call, retval,
                   curtask, time_count, taskptr, upc, net, execs, done>>

\* (mutant of NetRequest) Not counting down.
NetRequestNoCount(t) ==
    /\ retval' = [retval EXCEPT ![t] = IF net_count[t] > 0 THEN -1 ELSE @]
    /\ UNCHANGED <<net_count, done>>

\* net_count-- and net_request: a call that waits for the network tries
\* again, and fails unless this try or an arriving packet ends it.
NetRequest(t) ==
    IF net_count[t] = 0
    THEN UNCHANGED <<net_count, retval, done>>
    ELSE IF req[t] = "send" /\ mac
    THEN /\ net_count' = [net_count EXCEPT ![t] = 0]
         /\ UdpSend(t)
    ELSE /\ net_count' = [net_count EXCEPT ![t] = @ - 1]
         /\ retval' = [retval EXCEPT ![t] = -1]
         /\ UNCHANGED done

Following(t) == next[t]

\* The network's and the sleep's counters of the task, and on to the next
\* task of the ring.
CountDown(t) ==
    /\ curtask = K /\ kpc = "count" /\ taskptr = t
    /\ NetRequest(t)
    /\ LET left == count[t] - time_count \div COUNTER
       IN  count' = [count EXCEPT ![t] = IF @ > 0 /\ left > 0 THEN left ELSE 0]
    /\ kpc' = "scan"
    /\ taskptr' = Following(t)
    /\ UNCHANGED <<ring, wait_pid, state, call, curtask, time_count, upc, net, execs>>

\* (mutants of Woken) Every waiting task is woken; none is.
WokenAll(t) == {u \in Slot : Live(u) /\ "WAIT" \in state[u]}
WokenNone(t) == {}
\* The tasks that dettach_task wakes: those that wait for the pid of t.
Woken(t) == {u \in Slot : Live(u) /\ "WAIT" \in state[u] /\ wait_pid[u] = pid[t]}

\* udpfreeid
FreeSock(p) ==
    IF sock_id = p THEN sock_id' = 0 /\ sock_packet' = 0 ELSE UNCHANGED sock

\* (mutant of Resume) The cursor stays where it is.
ResumeHere == taskptr' = taskptr
\* The scan starts over, one task late: the `continue' runs the increment of
\* the loop after the cursor was set to the head.
Resume == taskptr' = next'[next'[K]]

\* dettach_task
Detach(t) ==
    /\ At(t) /\ "EXIT" \in state[t]
    /\ state' = [u \in Slot |->
                    IF u \in Woken(t) THEN state[u] \ {"WAIT"} ELSE state[u]]
    /\ FreeSock(pid[t])
    /\ pid' = [pid EXCEPT ![t] = 0]
    /\ next' = [next EXCEPT ![prev[t]] = next[t]]
    /\ prev' = [prev EXCEPT ![next[t]] = prev[t]]
    /\ Resume
    /\ UNCHANGED <<pid_count, wrapped, wait_pid, count, net_count, call, retval,
                   curtask, time_count, kpc, upc, mac, pkts, lastRecv, execs, done>>

\* The ring is walked: ip_request takes over.
EndScan ==
    /\ curtask = K /\ kpc = "scan" /\ taskptr = K
    /\ kpc' = "ip"
    /\ UNCHANGED <<ring, wait_pid, state, count, net_count, call, retval,
                   curtask, time_count, taskptr, upc, net, execs, done>>

\* (mutant of InRecv) udp does not ask whether the task still waits.
InRecvEver(u) == req[u] = "recv"
\* The task waits in UDP_RECV_REQ.
InRecv(u) == req[u] = "recv" /\ net_count[u] > 0

\* udp: a datagram for the socket.  A task that waits in UDP_RECV gets it at
\* once, otherwise the socket keeps it, in place of an older one.
Deliver(u) ==
    /\ TaskWith(sock_id, u)
    /\ IF InRecv(u)
       THEN /\ net_count' = [net_count EXCEPT ![u] = 0]
            /\ retval' = [retval EXCEPT ![u] = 1]
            /\ done' = [done EXCEPT ![u] = pkts + 1]
            /\ lastRecv' = pkts + 1
            /\ UNCHANGED sock
       ELSE /\ sock_packet' \in {0, pkts + 1}
            /\ UNCHANGED <<sock_id, net_count, retval, done, lastRecv>>

Udp ==
    /\ curtask = K /\ kpc = "ip" /\ pkts < MAX_PKT
    /\ pkts' = pkts + 1
    /\ IF sock_id # 0 /\ \E u \in Slot : TaskWith(sock_id, u)
       THEN \E u \in Slot : Deliver(u)
       ELSE UNCHANGED <<net_count, retval, done, sock, lastRecv>>
    /\ UNCHANGED <<ring, wait_pid, state, count, call, curtask, time_count,
                   kpc, taskptr, upc, mac, execs>>

\* tcp: a connection arrives for a task that waits in TCP_ACCEPT, or the
\* socket goes away.
Tcp(u) ==
    /\ curtask = K /\ kpc = "ip" /\ Live(u)
    /\ "NET" \in state[u] /\ req[u] = "accept"
    /\ state' = [state EXCEPT ![u] = @ \ {"NET"}]
    /\ \/ retval' = [retval EXCEPT ![u] = 1] /\ done' = [done EXCEPT ![u] = 1]
       \/ retval' = [retval EXCEPT ![u] = -1] /\ UNCHANGED done
    /\ UNCHANGED <<ring, wait_pid, count, net_count, call, curtask, time_count,
                   kpc, taskptr, upc, net, execs>>

\* arp: an answer arrives, or the entry of the table ages away.
Arp ==
    /\ curtask = K /\ kpc = "ip" /\ "send" \in CALLS
    /\ mac' = ~ mac
    /\ UNCHANGED <<ring, wait_pid, state, count, net_count, call, retval,
                   curtask, time_count, kpc, taskptr, upc, sock, pkts,
                   lastRecv, execs, done>>

\* The scan has spent the whole units of the time; int_enable.
EndIp ==
    /\ curtask = K /\ kpc = "ip"
    /\ kpc' = "trap"
    /\ time_count' = time_count % COUNTER
    /\ UNCHANGED <<ring, wait_pid, state, count, net_count, call, retval,
                   curtask, taskptr, upc, net, execs, done>>

\* TRAP0 at the end of the loop.
KernelTrap ==
    /\ curtask = K /\ kpc = "trap"
    /\ kpc' = "loop"
    /\ Switch
    /\ UNCHANGED <<ring, wait_pid, state, count, net_count, call, retval,
                   taskptr, upc, net, execs, done>>

ScanStep ==
    \/ StartScan
    \/ \E t \in Slot \ {K} : \/ HandleRequest(t) \/ NoReq(t)
                             \/ CountDown(t) \/ Detach(t)
    \/ EndScan \/ EndIp \/ KernelTrap

IpStep == Udp \/ Arp \/ \E u \in Slot \ {K} : Tcp(u)

Next ==
    \/ \E t \in Slot \ {K} : UserStep(t)
    \/ Preempt
    \/ ScanStep
    \/ IpStep

Spec == Init /\ [][Next]_vars

(***************************************************************************)
(* Fairness.  The timer keeps interrupting, so a slice ends (Preempt); a   *)
(* slice is long enough for the kernel to get on each time it has the CPU  *)
(* (ScanStep); the calls of a user program and the packets are not fair.   *)
(***************************************************************************)
FairSpec == Spec /\ WF_vars(Preempt) /\ SF_vars(ScanStep)

-----------------------------------------------------------------------------
(* Properties. *)

\* Every variable keeps its type: the fields of the tcb table, the kernel's
\* place in its loop, and the ghosts.
TypeOK ==
    /\ pid \in [Slot -> Nat] /\ wait_pid \in [Slot -> Nat]
    /\ next \in [Slot -> Slot] /\ prev \in [Slot -> Slot]
    /\ pid_count \in Nat \ {0}
    /\ state \in [Slot -> SUBSET Flag]
    /\ count \in [Slot -> Nat] /\ net_count \in [Slot -> Nat]
    /\ req \in [Slot -> Call \cup {"none"}] /\ arg \in [Slot -> Nat] /\ retval \in [Slot -> Int]
    /\ curtask \in Slot /\ taskptr \in Slot
    /\ time_count \in Nat
    /\ kpc \in {"loop", "scan", "count", "ip", "trap"}
    /\ upc \in [Slot -> {"run", "trap", "nap", "ret", "exit", "gone"}]
    /\ sock_id \in Nat /\ sock_packet \in Nat
    /\ mac \in BOOLEAN /\ wrapped \in BOOLEAN
    /\ execs \in Nat /\ pkts \in Nat /\ done \in [Slot -> Nat] /\ lastRecv \in Nat

\* The links of the used blocks are each other's inverse and stay among the
\* used blocks, and the kernel never leaves the ring (attach_task links while
\* the scan is under way, dettach_task unlinks under the scan's cursor).
RingLinks ==
    /\ Live(K)
    /\ \A t \in Slot : Live(t) => /\ Live(next[t]) /\ prev[next[t]] = t
                                  /\ Live(prev[t]) /\ next[prev[t]] = t

\* The scan's cursor is always a used block, whatever was linked or unlinked.
CursorLive == kpc # "loop" => Live(taskptr)

\* Both together: what the next turn of the scan and the next switch rely on.
RingHolds == RingLinks /\ CursorLive

\* The used blocks form ONE ring: task_sw and the scan reach every task.
RingReaches ==
    \A t \in Slot : Live(t) => \E i \in Slot : Along(K)[i] = t

\* No wakeup is lost: a task that waits in WAIT_REQ waits for a task that is
\* still in the ring, so some later dettach_task will wake it.
WaitsForLive ==
    \A t \in Slot : Live(t) /\ "WAIT" \in state[t] =>
        \E u \in Slot \ {K} : Live(u) /\ pid[u] = wait_pid[t]

\* What recvfrom, sendto and accept return agrees with what happened: -1
\* exactly if no datagram was copied, none was given to the interfaces by
\* udp_send, no connection was taken; and udp_send gives a datagram to them
\* at most once, however often the call is tried.  (Success does not promise
\* a frame: no interface may be configured.)  A late packet and the timeout
\* of the call race for net_count and retval.
AnswerTrue ==
    \A t \in Slot \ {K} :
        /\ req[t] = "send" => done[t] <= 1
        /\ Live(t) /\ curtask = t /\ upc[t] = "ret" /\ req[t] \in {"recv", "send", "accept"} =>
              (retval[t] = -1 <=> done[t] = 0)

\* Datagrams reach the tasks in the order in which they arrived, none twice.
RecvInOrder ==
    [][\A t \in Slot : req'[t] = "recv" /\ done'[t] \notin {0, done[t]} =>
          done'[t] > lastRecv]_vars

\* s_wait returns only once the task waited for has left the ring (until the
\* pid counter wraps: after that the single pass of attach_task over the ring
\* can miss a clash, and two tasks may have the same pid).
WaitIsOver ==
    [][\A t \in Slot : Live(t) /\ Live(t)' /\ "WAIT" \in state[t] \ state'[t] /\ ~ wrapped =>
          \A u \in Slot : pid'[u] # wait_pid[t]]_vars

\* Once EXIT_STATE is up (kill or exit) the task stops: it makes no call, it
\* is not even resumed, and the flag stays until dettach_task frees the block.
ExitIsFinal ==
    [][\A t \in Slot : Live(t) /\ "EXIT" \in state[t] =>
          /\ curtask' = t => curtask = t
          /\ Live(t)' => "EXIT" \in state'[t]
          /\ upc'[t] # upc[t] => curtask = t /\ upc'[t] = "gone"]_vars

\* Every posted request is taken up, unless its task is killed first.
RequestTaken ==
    \A t \in Slot \ {K} : (Live(t) /\ "REQ" \in state[t]) ~> (~ Live(t) \/ "REQ" \notin state[t])

\* sleep() ends, and a call that waits for the network ends, at the latest by
\* its timeout.
TimersEnd ==
    \A t \in Slot \ {K} : (Live(t) /\ count[t] + net_count[t] > 0)
                             ~> (~ Live(t) \/ count[t] + net_count[t] = 0)

\* The ring is fair: a task that waits for nothing gets the CPU, unless it is
\* killed first.
EveryoneRuns ==
    \A t \in Slot \ {K} : (Live(t) /\ Runnable(t))
                             ~> (curtask = t \/ ~ Live(t) \/ "EXIT" \in state[t])
=============================================================================
