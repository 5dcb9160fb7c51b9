---------------------------- MODULE TasksProofs ----------------------------
(***************************************************************************)
(* What Tasks guarantees for every number of blocks, pids and calls.  The  *)
(* inductive invariant has five parts, each proved on top of those before: *)
(*   IInv      types, the links of the ring with the cursor of the scan,   *)
(*             and that nobody waits for a task that is gone;              *)
(*   Ringed    the used blocks are one ring;                               *)
(*   TellsTrue what net_count, retval and the outside say of one call;     *)
(*   PidsApart no two pids are equal before the counter wraps;             *)
(*   Queue     the socket's datagram is younger than any that was read.    *)
(***************************************************************************)
EXTENDS Tasks, FiniteSetTheorems, WellFoundedInduction, TLAPS

USE DEF Slot, K, Live

\* The parts of TasksAssumption, each a fact the provers can use directly.
LEMMA Constants ==
    /\ MAX_TASK \in Nat /\ MAX_TASK >= 2
    /\ NET_COUNT \in Nat \ {0}
    /\ COUNTER \in Nat \ {0}
    /\ \A n \in SLEEPS : n \in Nat
    /\ \A p \in PIDS : p \in Nat /\ p # 0
    /\ CALLS \subseteq Call
BY TasksAssumption, Zenon DEF TasksAssumption

LEMMA KernelSlot == K \in Slot
BY Constants, SMT

\* The pid that attach_task starts its search from is never 0.
LEMMA FirstPidPositive ==
    ASSUME TypeOK PROVE FirstPid \in Nat \ {0}
BY SMT DEF TypeOK, FirstPid

-----------------------------------------------------------------------------
(* Types. *)

\* Raising and clearing bits of one block keeps the type of state.
LEMMA StateType ==
    ASSUME TypeOK, NEW t \in Slot, NEW on \in SUBSET Flag, NEW off,
           state' = [state EXCEPT ![t] = (@ \ off) \cup on]
    PROVE  state' \in [Slot -> SUBSET Flag]
<1>1. state \in [Slot -> SUBSET Flag]
  BY DEF TypeOK
<1>2. (state[t] \ off) \cup on \in SUBSET Flag
  BY <1>1, SMT
<1>. QED
  BY <1>1, <1>2, Zenon

LEMMA SwitchType ==
    ASSUME TypeOK, Switch
    PROVE  curtask' \in Slot /\ time_count' \in Nat
BY Constants, SMT DEF TypeOK, Switch

LEMMA TypeInit == Init => TypeOK
<1>. SUFFICES ASSUME Init PROVE TypeOK
  OBVIOUS
<1>1. state \in [Slot -> SUBSET Flag]
  BY Zenon DEF Init
<1>2. pid \in [Slot -> Nat] /\ next \in [Slot -> Slot] /\ prev \in [Slot -> Slot]
  BY Constants, SMT DEF Init
<1>3. /\ wait_pid \in [Slot -> Nat] /\ pid_count \in Nat \ {0}
      /\ count \in [Slot -> Nat] /\ net_count \in [Slot -> Nat]
      /\ req \in [Slot -> Call \cup {"none"}] /\ arg \in [Slot -> Nat]
      /\ retval \in [Slot -> Int] /\ done \in [Slot -> Nat]
      /\ upc \in [Slot -> {"run", "trap", "nap", "ret", "exit", "gone"}]
  BY SMT DEF Init
<1>4. curtask \in Slot /\ taskptr \in Slot
  BY Constants, SMT DEF Init
<1>5. /\ time_count \in Nat /\ kpc = "loop" /\ sock_id \in Nat /\ sock_packet \in Nat
      /\ mac \in BOOLEAN /\ wrapped \in BOOLEAN
      /\ execs \in Nat /\ pkts \in Nat /\ lastRecv \in Nat
  <2>1. /\ time_count = 0 /\ kpc = "loop" /\ sock_id = 0 /\ sock_packet = 0
        /\ mac = FALSE /\ wrapped = FALSE /\ execs = 0 /\ pkts = 0 /\ lastRecv = 0
    BY Zenon DEF Init
  <2>2. 0 \in Nat
    BY SMT
  <2>. QED
    BY <2>1, <2>2, Zenon
<1>. QED
  BY <1>1, <1>2, <1>3, <1>4, <1>5, Zenon DEF TypeOK

LEMMA TypePost ==
    ASSUME TypeOK, NEW t \in Slot, NEW c \in Call, NEW a \in Nat, Post(t, c, a)
    PROVE  TypeOK'
<1>. USE DEF ring, net
<1>1. state' \in [Slot -> SUBSET Flag]
  <2>1. state' = [state EXCEPT ![t] = (@ \ {}) \cup {"REQ"}]
    BY Zenon DEF Post
  <2>. QED
    BY <2>1, StateType, Zenon DEF Flag
<1>2. req' \in [Slot -> Call \cup {"none"}] /\ arg' \in [Slot -> Nat]
  BY SMT DEF TypeOK, Post
<1>. QED
  BY <1>1, <1>2, SMT DEF TypeOK, Post

LEMMA TypeSleep ==
    ASSUME TypeOK, NEW t \in Slot, NEW n \in Nat, Sleep(t, n)
    PROVE  TypeOK'
BY Zenon DEF TypeOK, Sleep, ring, net, call

LEMMA TypeExit ==
    ASSUME TypeOK, NEW t \in Slot, Exit(t)
    PROVE  TypeOK'
<1>1. state' = [state EXCEPT ![t] = (@ \ {}) \cup {"EXIT"}]
  BY Zenon DEF Exit
<1>2. state' \in [Slot -> SUBSET Flag]
  BY <1>1, StateType, Zenon DEF Flag
<1>. QED
  BY <1>2, Zenon DEF TypeOK, Exit, ring, net, call

LEMMA TypeTrap ==
    ASSUME TypeOK, NEW t \in Slot, Trap(t)
    PROVE  TypeOK'
<1>1. upc' \in [Slot -> {"run", "trap", "nap", "ret", "exit", "gone"}]
  BY SMT DEF TypeOK, Trap
<1>2. curtask' \in Slot /\ time_count' \in Nat
  BY SwitchType, Zenon DEF Trap
<1>3. UNCHANGED <<ring, wait_pid, state, count, net_count, call, retval, kpc,
                  taskptr, net, execs, done>>
  BY Zenon DEF Trap
<1>. QED
  BY <1>1, <1>2, <1>3, Zenon DEF TypeOK, ring, net, call

LEMMA TypeReturn ==
    ASSUME TypeOK, NEW t \in Slot, Return(t)
    PROVE  TypeOK'
BY SMT DEF TypeOK, Return, ring, net, call

LEMMA TypeUser ==
    ASSUME TypeOK, NEW t \in Slot \ {K}, UserStep(t)
    PROVE  TypeOK'
<1>1. CASE \E c \in {"kill", "wait"}, a \in PIDS : Post(t, c, a)
  <2>1. PICK c \in Call, a \in Nat : Post(t, c, a)
    BY <1>1, Constants, Zenon DEF Call
  <2>. QED
    BY <2>1, TypePost, Zenon
<1>2. CASE \E c \in Call \ {"kill", "wait"} : Post(t, c, 0)
  BY <1>2, TypePost, Zenon
<1>3. CASE \E n \in SLEEPS : Sleep(t, n)
  BY <1>3, TypeSleep, Constants, Zenon
<1>. QED
  BY <1>1, <1>2, <1>3, TypeExit, TypeTrap, TypeReturn, Zenon DEF UserStep

-----------------------------------------------------------------------------
(* Types in the kernel's answers. *)

\* What HandleRequest leaves alone, whatever the request.
RequestFrame(t) ==
    /\ UNCHANGED <<call, curtask, time_count, taskptr, execs>>
    /\ kpc' = "count"

\* An answer only touches retval of the caller.
LEMMA AnswerType ==
    ASSUME TypeOK, NEW t \in Slot, NEW v \in Int, Answer(t, v)
    PROVE  retval' \in [Slot -> Int] /\ kpc' = "count"
BY SMT DEF TypeOK, Answer

\* Clearing REQ_STATE keeps the type of state.
LEMMA ClearType ==
    ASSUME TypeOK, NEW t \in Slot, Clear(t)
    PROVE  state' \in [Slot -> SUBSET Flag]
<1>1. state' = [state EXCEPT ![t] = (@ \ {"REQ"}) \cup {}]
  BY Zenon DEF Clear
<1>. QED
  BY <1>1, StateType, Zenon

\* attach_task fills in a block with values of the right types.
LEMMA LinkType ==
    ASSUME TypeOK, NEW c \in Slot, NEW p \in Nat, Link(c, p)
    PROVE  /\ pid' \in [Slot -> Nat] /\ next' \in [Slot -> Slot] /\ prev' \in [Slot -> Slot]
           /\ count' \in [Slot -> Nat] /\ net_count' \in [Slot -> Nat]
           /\ wait_pid' \in [Slot -> Nat]
           /\ upc' \in [Slot -> {"run", "trap", "nap", "ret", "exit", "gone"}]
<1>1. next[K] \in Slot /\ K \in Slot
  BY Constants, SMT DEF TypeOK
<1>2. next \in [Slot -> Slot] /\ prev \in [Slot -> Slot] /\ LinkIn(c)
  BY Zenon DEF TypeOK, Link
<1>3. next' \in [Slot -> Slot] /\ prev' \in [Slot -> Slot]
  BY <1>1, <1>2, SMT DEF LinkIn
<1>. QED
  BY <1>3, SMT DEF TypeOK, Link

LEMMA TypeExec ==
    ASSUME TypeOK, NEW t \in Slot, ExecFails(t) \/ ExecRuns(t), RequestFrame(t)
    PROVE  TypeOK'
<1>. USE DEF ring, net, call
<1>1. CASE ExecFails(t)
  <2>1. state' \in [Slot -> SUBSET Flag] /\ retval' \in [Slot -> Int]
    <3>1. Clear(t) /\ Answer(t, -1)
      BY <1>1, Zenon DEF ExecFails
    <3>. QED
      BY <3>1, ClearType, AnswerType, SMT
  <2>2. UNCHANGED <<ring, wait_pid, count, net_count, upc, net, done>>
    BY <1>1, Zenon DEF ExecFails
  <2>. QED
    BY <2>1, <2>2, SMT DEF TypeOK, RequestFrame
<1>2. CASE ExecRuns(t)
  <2>1. PICK c \in Slot, p \in FirstPid .. FirstPid + MAX_TASK :
          /\ pid_count' = p
          /\ wrapped' = (wrapped \/ pid_count + 1 > MAX_PID)
          /\ \/ /\ Clear(t) /\ Answer(t, -1)
                /\ UNCHANGED <<pid, next, prev, wait_pid, count, net_count, upc>>
             \/ /\ Link(c, p)
                /\ state' = [state EXCEPT ![t] = @ \ {"REQ"}, ![c] = {}]
                /\ Answer(t, p)
          /\ UNCHANGED <<net, done>>
    BY <1>2, Zenon DEF ExecRuns
  <2>2. p \in Nat \ {0} /\ p \in Int /\ -1 \in Int
    BY FirstPidPositive, Constants, SMT
  <2>3. retval' \in [Slot -> Int]
    BY <2>1, <2>2, AnswerType, Zenon
  <2>4. state' \in [Slot -> SUBSET Flag]
    <3>1. state \in [Slot -> SUBSET Flag]
      BY Zenon DEF TypeOK
    <3>2. CASE Clear(t)
      BY <3>2, ClearType, Zenon
    <3>3. CASE state' = [state EXCEPT ![t] = @ \ {"REQ"}, ![c] = {}]
      BY <3>1, <3>3, SMT
    <3>. QED
      BY <2>1, <3>2, <3>3, Zenon
  <2>5. wrapped' \in BOOLEAN
    BY <2>1, Zenon DEF TypeOK
  <2>6. CASE UNCHANGED <<pid, next, prev, wait_pid, count, net_count, upc>>
    <3>1. UNCHANGED <<pid, next, prev, wait_pid, count, net_count, upc, sock_id, sock_packet,
                      mac, pkts, lastRecv, done, req, arg, curtask, time_count, taskptr, execs>>
      BY <2>1, <2>6, SMT DEF RequestFrame
    <3>2. pid_count' \in Nat \ {0} /\ kpc' = "count"
      BY <2>1, <2>2, Zenon DEF RequestFrame
    <3>. QED
      BY <2>3, <2>4, <2>5, <3>1, <3>2, Zenon DEF TypeOK
  <2>7. CASE Link(c, p)
    <3>1. /\ pid' \in [Slot -> Nat] /\ next' \in [Slot -> Slot] /\ prev' \in [Slot -> Slot]
          /\ count' \in [Slot -> Nat] /\ net_count' \in [Slot -> Nat]
          /\ wait_pid' \in [Slot -> Nat]
          /\ upc' \in [Slot -> {"run", "trap", "nap", "ret", "exit", "gone"}]
      BY <2>2, <2>7, LinkType, Zenon
    <3>2. UNCHANGED <<net, done>> /\ pid_count' \in Nat \ {0}
      BY <2>1, <2>2, Zenon
    <3>3. /\ req' = req /\ arg' = arg /\ curtask' = curtask /\ time_count' = time_count
          /\ taskptr' = taskptr /\ execs' = execs /\ kpc' = "count"
          /\ done' = done /\ sock_id' = sock_id /\ sock_packet' = sock_packet
          /\ mac' = mac /\ pkts' = pkts /\ lastRecv' = lastRecv
      BY <3>2, SMT DEF RequestFrame
    <3>. QED
      BY <2>3, <2>4, <2>5, <3>1, <3>2, <3>3, Zenon DEF TypeOK
  <2>. QED
    BY <2>1, <2>6, <2>7, Zenon
<1>. QED
  BY <1>1, <1>2

LEMMA TypeKill ==
    ASSUME TypeOK, NEW t \in Slot, Kill(t), RequestFrame(t)
    PROVE  TypeOK'
<1>1. UNCHANGED <<ring, wait_pid, count, net_count, upc, net, done>>
  BY Zenon DEF Kill
<1>2. retval' \in [Slot -> Int]
  BY AnswerType, SMT DEF Kill
<1>3. state' \in [Slot -> SUBSET Flag]
  <2>1. CASE Clear(t)
    BY <2>1, ClearType
  <2>2. CASE \E v \in Slot :
               state' = [u \in Slot |-> (state[u] \ (IF u = t THEN {"REQ"} ELSE {}))
                                         \cup (IF u = v THEN {"EXIT"} ELSE {})]
    <3>1. state \in [Slot -> SUBSET Flag]
      BY Zenon DEF TypeOK
    <3>. QED
      BY <2>2, <3>1, SMT DEF Flag
  <2>. QED
    BY <2>1, <2>2, Zenon DEF Kill
<1>. QED
  BY <1>1, <1>2, <1>3, SMT DEF TypeOK, RequestFrame, ring, net, call

LEMMA TypeWait ==
    ASSUME TypeOK, NEW t \in Slot, Wait(t), RequestFrame(t)
    PROVE  TypeOK'
<1>1. UNCHANGED <<ring, count, net_count, upc, net, done>>
  BY Zenon DEF Wait
<1>2. retval' \in [Slot -> Int]
  BY AnswerType, SMT DEF Wait
<1>3. wait_pid' \in [Slot -> Nat]
  <2>1. wait_pid \in [Slot -> Nat] /\ arg \in [Slot -> Nat]
    BY Zenon DEF TypeOK
  <2>2. wait_pid' = wait_pid \/ wait_pid' = [wait_pid EXCEPT ![t] = arg[t]]
    BY Zenon DEF Wait
  <2>. QED
    BY <2>1, <2>2, SMT
<1>4. state' \in [Slot -> SUBSET Flag]
  BY StateType, ClearType, Zenon DEF Wait, Flag
<1>. QED
  BY <1>1, <1>2, <1>3, <1>4, Zenon DEF TypeOK, RequestFrame, ring, net, call

LEMMA TypeBind ==
    ASSUME TypeOK, NEW t \in Slot, Bind(t), RequestFrame(t)
    PROVE  TypeOK'
<1>1. retval' \in [Slot -> Int] /\ state' \in [Slot -> SUBSET Flag]
  <2>1. Clear(t) /\ (Answer(t, 0) \/ Answer(t, -1))
    BY Zenon DEF Bind
  <2>. QED
    BY <2>1, AnswerType, ClearType, SMT
<1>2. sock_id' \in Nat /\ sock_packet' \in Nat
  <2>1. \/ sock_id' = pid[t] /\ sock_packet' = 0
        \/ sock_id' = sock_id /\ sock_packet' = sock_packet
    BY Zenon DEF Bind, sock
  <2>. QED
    BY <2>1, SMT DEF TypeOK
<1>3. UNCHANGED <<ring, wait_pid, count, net_count, upc, mac, pkts, done, lastRecv>>
  BY Zenon DEF Bind
<1>. QED
  BY <1>1, <1>2, <1>3, Zenon DEF TypeOK, RequestFrame, ring, call

LEMMA TypeRecv ==
    ASSUME TypeOK, NEW t \in Slot, Recv(t), RequestFrame(t)
    PROVE  TypeOK'
<1>1. retval' \in [Slot -> Int] /\ state' \in [Slot -> SUBSET Flag]
  <2>1. Clear(t) /\ (Answer(t, 1) \/ Answer(t, -1))
    BY Zenon DEF Recv
  <2>. QED
    BY <2>1, AnswerType, ClearType, SMT
<1>2. /\ sock_packet' \in Nat /\ net_count' \in [Slot -> Nat]
      /\ done' \in [Slot -> Nat] /\ lastRecv' \in Nat
  <2>1. /\ sock_packet \in Nat /\ net_count \in [Slot -> Nat]
        /\ done \in [Slot -> Nat] /\ lastRecv \in Nat
    BY Zenon DEF TypeOK
  <2>2. CASE sock_packet # 0
    <3>1. /\ done' = [done EXCEPT ![t] = sock_packet] /\ lastRecv' = sock_packet
          /\ sock_packet' = 0 /\ net_count' = net_count
      BY <2>2, Zenon DEF Recv, TakePacket
    <3>. QED
      BY <2>1, <3>1, SMT
  <2>3. CASE sock_packet = 0
    <3>1. /\ net_count' = [net_count EXCEPT ![t] = NET_COUNT]
          /\ UNCHANGED <<sock_packet, done, lastRecv>>
      BY <2>3, Zenon DEF Recv
    <3>. QED
      BY <2>1, <3>1, Constants, SMT
  <2>. QED
    BY <2>2, <2>3
<1>3. UNCHANGED <<ring, wait_pid, count, upc, sock_id, mac, pkts>>
  BY Zenon DEF Recv
<1>. QED
  <2>1. /\ UNCHANGED <<pid, next, prev, pid_count, wrapped, wait_pid, count, upc,
                       sock_id, mac, pkts, req, arg, curtask, time_count, taskptr, execs>>
        /\ kpc' = "count"
    BY <1>3, SMT DEF RequestFrame, ring, call
  <2>. QED
    BY <1>1, <1>2, <2>1, Zenon DEF TypeOK

LEMMA TypeSend ==
    ASSUME TypeOK, NEW t \in Slot, Send(t), RequestFrame(t)
    PROVE  TypeOK'
<1>1. retval' \in [Slot -> Int] /\ state' \in [Slot -> SUBSET Flag]
  <2>1. Clear(t) /\ (Answer(t, 1) \/ Answer(t, -1))
    BY Zenon DEF Send, UdpSend, Answer
  <2>. QED
    BY <2>1, AnswerType, ClearType, SMT
<1>2. net_count' \in [Slot -> Nat] /\ done' \in [Slot -> Nat]
  <2>0. NET_COUNT \in Nat
    BY Constants
  <2>1. net_count \in [Slot -> Nat] /\ done \in [Slot -> Nat]
    BY Zenon DEF TypeOK
  <2>2. \/ /\ net_count' = [net_count EXCEPT ![t] = 0]
           /\ done' = [done EXCEPT ![t] = @ + 1] \/ done' = done
        \/ /\ net_count' = [net_count EXCEPT ![t] = NET_COUNT]
           /\ done' = done
    BY Zenon DEF Send, UdpSend
  <2>. QED
    BY <2>0, <2>1, <2>2, SMT
<1>3. UNCHANGED <<ring, wait_pid, count, upc, net>>
  BY Zenon DEF Send
<1>. QED
  BY <1>1, <1>2, <1>3, Zenon DEF TypeOK, RequestFrame, ring, net, call

LEMMA TypeAccept ==
    ASSUME TypeOK, NEW t \in Slot, Accept(t) \/ Other(t), RequestFrame(t)
    PROVE  TypeOK'
<1>1. UNCHANGED <<ring, wait_pid, count, net_count, upc, net, done>>
  BY Zenon DEF Accept, Other
<1>2. PICK v \in {-1, 0, 1} : Answer(t, v)
  BY SMT DEF Accept, Other
<1>3. retval' \in [Slot -> Int]
  BY <1>2, AnswerType, SMT
<1>4. \/ Clear(t)
      \/ state' = [state EXCEPT ![t] = (@ \ {"REQ"}) \cup {"NET"}]
  BY Zenon DEF Accept, Other
<1>5. state' \in [Slot -> SUBSET Flag]
  BY <1>4, StateType, ClearType, Zenon DEF Flag
<1>. QED
  BY <1>1, <1>3, <1>5, Zenon DEF TypeOK, RequestFrame, ring, net, call

LEMMA TypeRequest ==
    ASSUME TypeOK, NEW t \in Slot \ {K}, HandleRequest(t)
    PROVE  TypeOK'
<1>1. \/ ExecFails(t) \/ ExecRuns(t) \/ Kill(t) \/ Wait(t) \/ Bind(t)
      \/ Recv(t) \/ Send(t) \/ Accept(t) \/ Other(t)
  BY Zenon DEF HandleRequest
<1>2. UNCHANGED <<call, curtask, time_count, taskptr, execs>>
  BY Zenon DEF HandleRequest
<1>3. kpc' = "count"
  BY <1>1, Zenon DEF ExecFails, ExecRuns, Kill, Wait, Bind, Recv, Send, Accept, Other, Answer
<1>4. RequestFrame(t)
  BY <1>2, <1>3, Zenon DEF RequestFrame
<1>. QED
  BY <1>1, <1>4, TypeExec, TypeKill, TypeWait, TypeBind, TypeRecv, TypeSend,
     TypeAccept, Zenon

-----------------------------------------------------------------------------
(* Types in the rest of the scan and in the network's turn. *)

LEMMA TypeStartScan == ASSUME TypeOK, StartScan PROVE TypeOK'
<1>1. taskptr' \in Slot /\ kpc' = "scan"
  <2>1. taskptr' = next[K] /\ kpc' = "scan" /\ next \in [Slot -> Slot]
    BY Zenon DEF TypeOK, StartScan, ScanFrom
  <2>. QED
    BY <2>1, Constants, SMT
<1>2. UNCHANGED <<ring, wait_pid, state, count, net_count, call, retval,
                  curtask, time_count, upc, net, execs, done>>
  BY Zenon DEF StartScan
<1>. QED
  BY <1>1, <1>2, SMT DEF TypeOK, ring, net, call

LEMMA TypeNoReq ==
    ASSUME TypeOK, NEW t \in Slot, NoReq(t) PROVE TypeOK'
BY SMT DEF TypeOK, NoReq, ring, net, call

LEMMA TypeCountDown ==
    ASSUME TypeOK, NEW t \in Slot, CountDown(t) PROVE TypeOK'
<1>1. /\ net_count' \in [Slot -> Nat] /\ retval' \in [Slot -> Int] /\ done' \in [Slot -> Nat]
  <2>1. net_count \in [Slot -> Nat] /\ retval \in [Slot -> Int] /\ done \in [Slot -> Nat]
    BY Zenon DEF TypeOK
  <2>2. \/ UNCHANGED <<net_count, retval, done>>
        \/ /\ net_count' = [net_count EXCEPT ![t] = 0]
           /\ done' = [done EXCEPT ![t] = @ + 1]
           /\ retval' = [retval EXCEPT ![t] = 1]
        \/ /\ net_count[t] # 0
           /\ \E n \in {0, net_count[t] - 1} : net_count' = [net_count EXCEPT ![t] = n]
           /\ retval' = [retval EXCEPT ![t] = -1]
           /\ done' = done
    BY SMT DEF CountDown, NetRequest, UdpSend
  <2>. QED
    BY <2>1, <2>2, SMT
<1>2. count' \in [Slot -> Nat]
  <2>. DEFINE left == count[t] - time_count \div COUNTER
  <2>0. count \in [Slot -> Nat] /\ time_count \in Nat
    BY Zenon DEF TypeOK
  <2>1. left \in Int
    BY <2>0, Constants, SMT
  <2>2. count' = [count EXCEPT ![t] = IF @ > 0 /\ left > 0 THEN left ELSE 0]
    BY Zenon DEF CountDown
  <2>. HIDE DEF left
  <2>. QED
    BY <2>0, <2>1, <2>2, SMT
<1>3. taskptr' \in Slot /\ kpc' = "scan"
  <2>1. taskptr' = next[t] /\ kpc' = "scan" /\ next \in [Slot -> Slot]
    BY Zenon DEF TypeOK, CountDown, Following
  <2>. QED
    BY <2>1, SMT
<1>4. UNCHANGED <<ring, wait_pid, state, call, curtask, time_count, upc, net, execs>>
  BY Zenon DEF CountDown
<1>. QED
  <2>1. /\ UNCHANGED <<pid, next, prev, pid_count, wrapped, wait_pid, state, req, arg,
                       curtask, time_count, upc, sock_id, sock_packet, mac, pkts, lastRecv,
                       execs>>
    BY <1>4, SMT DEF ring, call, net
  <2>. QED
    BY <1>1, <1>2, <1>3, <2>1, Zenon DEF TypeOK

LEMMA TypeDetach ==
    ASSUME TypeOK, NEW t \in Slot, Detach(t) PROVE TypeOK'
<1>1. state' \in [Slot -> SUBSET Flag]
  <2>1. state' = [u \in Slot |-> IF u \in Woken(t) THEN state[u] \ {"WAIT"} ELSE state[u]]
    BY Zenon DEF Detach
  <2>2. state \in [Slot -> SUBSET Flag]
    BY Zenon DEF TypeOK
  <2>. QED
    BY <2>1, <2>2, SMT
<1>2. pid' \in [Slot -> Nat] /\ next' \in [Slot -> Slot] /\ prev' \in [Slot -> Slot]
  <2>1. pid \in [Slot -> Nat] /\ next \in [Slot -> Slot] /\ prev \in [Slot -> Slot]
    BY Zenon DEF TypeOK
  <2>2. /\ pid' = [pid EXCEPT ![t] = 0]
        /\ next' = [next EXCEPT ![prev[t]] = next[t]]
        /\ prev' = [prev EXCEPT ![next[t]] = prev[t]]
    BY Zenon DEF Detach
  <2>. QED
    BY <2>1, <2>2, SMT
<1>3. taskptr' \in Slot
  <2>1. taskptr' = next'[next'[K]] /\ K \in Slot
    BY Constants, SMT DEF Detach, Resume
  <2>. QED
    BY <1>2, <2>1, SMT
<1>4. sock_id' \in Nat /\ sock_packet' \in Nat
  <2>1. \/ sock_id' = 0 /\ sock_packet' = 0
        \/ sock_id' = sock_id /\ sock_packet' = sock_packet
    BY Zenon DEF Detach, FreeSock, sock
  <2>. QED
    BY <2>1, SMT DEF TypeOK
<1>5. UNCHANGED <<pid_count, wrapped, wait_pid, count, net_count, call, retval,
                  curtask, time_count, kpc, upc, mac, pkts, lastRecv, execs, done>>
  BY Zenon DEF Detach
<1>. QED
  BY <1>1, <1>2, <1>3, <1>4, <1>5, Zenon DEF TypeOK, call

LEMMA TypeEnd ==
    ASSUME TypeOK, EndScan \/ EndIp \/ KernelTrap PROVE TypeOK'
<1>. USE DEF ring, net, call
<1>1. CASE EndScan
  BY <1>1, SMT DEF TypeOK, EndScan
<1>2. CASE EndIp
  <2>1. time_count % COUNTER \in Nat
    BY Constants, SMT DEF TypeOK
  <2>. QED
    BY <1>2, <2>1, SMT DEF TypeOK, EndIp
<1>3. CASE KernelTrap
  <2>1. curtask' \in Slot /\ time_count' \in Nat
    BY <1>3, SwitchType, Zenon DEF KernelTrap
  <2>. QED
    BY <1>3, <2>1, SMT DEF TypeOK, KernelTrap
<1>. QED
  BY <1>1, <1>2, <1>3

LEMMA TypeScan ==
    ASSUME TypeOK, ScanStep PROVE TypeOK'
BY TypeStartScan, TypeRequest, TypeNoReq, TypeCountDown, TypeDetach, TypeEnd,
   Zenon DEF ScanStep

LEMMA TypeUdp == ASSUME TypeOK, Udp PROVE TypeOK'
<1>. DEFINE Received ==
         /\ net_count' \in [Slot -> Nat] /\ retval' \in [Slot -> Int]
         /\ done' \in [Slot -> Nat] /\ lastRecv' \in Nat
         /\ sock_id' \in Nat /\ sock_packet' \in Nat
<1>1. Received
  <2>1. /\ net_count \in [Slot -> Nat] /\ retval \in [Slot -> Int]
        /\ done \in [Slot -> Nat] /\ lastRecv \in Nat /\ pkts \in Nat
        /\ sock_id \in Nat /\ sock_packet \in Nat
    BY Zenon DEF TypeOK
  <2>2. \/ \E u \in Slot : /\ net_count' = [net_count EXCEPT ![u] = 0]
                            /\ retval' = [retval EXCEPT ![u] = 1]
                            /\ done' = [done EXCEPT ![u] = pkts + 1]
                            /\ lastRecv' = pkts + 1
                            /\ UNCHANGED sock
        \/ /\ sock_packet' \in {0, pkts + 1}
           /\ UNCHANGED <<sock_id, net_count, retval, done, lastRecv>>
        \/ UNCHANGED <<net_count, retval, done, sock, lastRecv>>
    BY Zenon DEF Udp, Deliver
  <2>. QED
    BY <2>1, <2>2, SMT DEF sock
<1>2. /\ pkts' = pkts + 1
      /\ UNCHANGED <<ring, wait_pid, state, count, call, curtask, time_count,
                     kpc, taskptr, upc, mac, execs>>
  BY Zenon DEF Udp
<1>. QED
  <2>1. UNCHANGED <<pid, next, prev, pid_count, wrapped, wait_pid, state, count, req,
                    arg, curtask, time_count, kpc, taskptr, upc, mac, execs>>
    BY <1>2, SMT DEF ring, call
  <2>2. pkts' \in Nat
    BY <1>2, SMT DEF TypeOK
  <2>. QED
    BY <1>1, <2>1, <2>2, Zenon DEF TypeOK

LEMMA TypeIp ==
    ASSUME TypeOK, IpStep
    PROVE  TypeOK'
<1>1. CASE Arp
  <2>1. mac' \in BOOLEAN
    BY <1>1, Zenon DEF Arp
  <2>2. UNCHANGED <<ring, wait_pid, state, count, net_count, call, retval,
                    curtask, time_count, kpc, taskptr, upc, sock, pkts,
                    lastRecv, execs, done>>
    BY <1>1, Zenon DEF Arp
  <2>. QED
    BY <2>1, <2>2, Zenon DEF TypeOK, ring, call, sock
<1>2. ASSUME NEW u \in Slot \ {K}, Tcp(u) PROVE TypeOK'
  <2>1. state' = [state EXCEPT ![u] = (@ \ {"NET"}) \cup {}]
    BY <1>2, Zenon DEF Tcp
  <2>2. state' \in [Slot -> SUBSET Flag]
    BY <2>1, StateType, Zenon
  <2>3. retval' \in [Slot -> Int] /\ done' \in [Slot -> Nat]
    <3>1. retval \in [Slot -> Int] /\ done \in [Slot -> Nat]
      BY Zenon DEF TypeOK
    <3>2. \/ retval' = [retval EXCEPT ![u] = 1] /\ done' = [done EXCEPT ![u] = 1]
          \/ retval' = [retval EXCEPT ![u] = -1] /\ done' = done
      BY <1>2, Zenon DEF Tcp
    <3>. QED
      BY <3>1, <3>2, SMT
  <2>4. UNCHANGED <<ring, wait_pid, count, net_count, call, curtask, time_count,
                    kpc, taskptr, upc, net, execs>>
    BY <1>2, Zenon DEF Tcp
  <2>. QED
    BY <2>2, <2>3, <2>4, Zenon DEF TypeOK, ring, net, call
<1>. QED
  BY <1>1, <1>2, TypeUdp, Zenon DEF IpStep

LEMMA TypePreempt == ASSUME TypeOK, Preempt PROVE TypeOK'
<1>1. curtask' \in Slot /\ time_count' \in Nat
  BY SwitchType, Zenon DEF Preempt
<1>2. UNCHANGED <<ring, wait_pid, state, count, net_count, call, retval, kpc,
                  taskptr, upc, net, execs, done>>
  BY Zenon DEF Preempt
<1>. QED
  BY <1>1, <1>2, SMT DEF TypeOK, ring, net, call

LEMMA TypeStep == TypeOK /\ [Next]_vars => TypeOK'
<1>1. ASSUME TypeOK, UNCHANGED vars PROVE TypeOK'
  BY <1>1, SMT DEF TypeOK, vars
<1>. QED
  BY <1>1, TypePreempt, TypeUser, TypeScan, TypeIp, Zenon DEF Next

\* Every variable of the scheduler keeps its type in every behaviour, for any
\* size of the tcb table and any calls of the tasks.
THEOREM TypeCorrect == Spec => []TypeOK
BY TypeInit, TypeStep, PTL DEF Spec

-----------------------------------------------------------------------------
(* The ring and the waiters. *)

\* Only the pids that s_wait is called with, none of them 0, are waited for.
ArgOK == \A t \in Slot : req[t] = "wait" => arg[t] # 0

IInv == TypeOK /\ RingLinks /\ CursorLive /\ ArgOK /\ WaitsForLive

\* What most steps do to the ring and to the waiters: nothing.
Calm ==
    /\ UNCHANGED <<pid, next, prev, wait_pid>>
    /\ \A u \in Slot : "WAIT" \in state'[u] => "WAIT" \in state[u]

\* A change of bits other than WAIT_STATE makes nobody wait.
LEMMA NoNewWait ==
    ASSUME TypeOK, NEW t \in Slot, NEW on, NEW off, "WAIT" \notin on,
           state' = [state EXCEPT ![t] = (@ \ off) \cup on]
    PROVE  \A u \in Slot : "WAIT" \in state'[u] => "WAIT" \in state[u]
<1>1. state \in [Slot -> SUBSET Flag]
  BY Zenon DEF TypeOK
<1>. QED
  BY <1>1, SMT

LEMMA OtherBits ==
    "WAIT" \notin {"REQ"} /\ "WAIT" \notin {"EXIT"} /\ "WAIT" \notin {"NET"} /\ "WAIT" \notin {}
BY SMT

LEMMA CalmKeeps ==
    ASSUME Calm, RingLinks, WaitsForLive
    PROVE  RingLinks' /\ WaitsForLive'
<1>1. RingLinks'
  BY SMT DEF Calm, RingLinks
<1>2. WaitsForLive'
  BY SMT DEF Calm, WaitsForLive
<1>. QED
  BY <1>1, <1>2

LEMMA CalmRing ==
    ASSUME RingLinks, UNCHANGED <<pid, next, prev>>
    PROVE  RingLinks' /\ \A u \in Slot : Live(u) => Live(u)'
<1>1. RingLinks'
  BY SMT DEF RingLinks
<1>2. \A u \in Slot : Live(u) => Live(u)'
  BY SMT
<1>. QED
  BY <1>1, <1>2

\* attach_task keeps the links: the new block is linked between the kernel
\* and the old head.
LEMMA LinkKeepsRing ==
    ASSUME TypeOK, RingLinks, NEW c \in Slot, NEW p \in Nat \ {0}, pid[c] = 0, Link(c, p)
    PROVE  RingLinks' /\ \A u \in Slot : Live(u) => Live(u)'
<1>. DEFINE h == next[K]
<1>0. pid \in [Slot -> Nat] /\ next \in [Slot -> Slot] /\ prev \in [Slot -> Slot]
  BY Zenon DEF TypeOK
<1>1. /\ pid \in [Slot -> Nat] /\ next \in [Slot -> Slot] /\ prev \in [Slot -> Slot]
      /\ K \in Slot /\ h \in Slot
  BY <1>0, KernelSlot, SMT
<1>2. /\ prev' = [prev EXCEPT ![c] = K, ![h] = c]
      /\ next' = [next EXCEPT ![c] = h, ![K] = c]
      /\ pid' = [pid EXCEPT ![c] = p]
  BY Zenon DEF Link, LinkIn
<1>3. /\ pid[K] # 0 /\ pid[h] # 0 /\ prev[h] = K /\ c # K /\ c # h
      /\ \A t \in Slot : pid[t] # 0 => /\ pid[next[t]] # 0 /\ prev[next[t]] = t
                                       /\ pid[prev[t]] # 0 /\ next[prev[t]] = t
  BY <1>1, SMT DEF RingLinks
<1>. HIDE DEF h
<1>4. ASSUME NEW t \in Slot, pid'[t] # 0
      PROVE  /\ pid'[next'[t]] # 0 /\ prev'[next'[t]] = t
             /\ pid'[prev'[t]] # 0 /\ next'[prev'[t]] = t
  <2>1. CASE t = c
    <3>1. next'[c] = h /\ prev'[h] = c /\ prev'[c] = K /\ next'[K] = c
      BY <1>1, <1>2, <1>3, SMT
    <3>2. pid'[h] # 0 /\ pid'[K] # 0
      BY <1>1, <1>2, <1>3, SMT
    <3>. QED
      BY <2>1, <3>1, <3>2, Zenon
  <2>2. CASE t = K
    BY <1>1, <1>2, <1>3, <2>2, SMT
  <2>3. CASE t # c /\ t # K
    <3>1. pid[t] # 0 /\ next[t] # h /\ next[t] # c /\ prev[t] # c
      BY <1>1, <1>2, <1>3, <1>4, <2>3, SMT
    <3>2. next'[t] = next[t] /\ prev'[next[t]] = t /\ pid'[next[t]] # 0
      BY <1>1, <1>2, <1>3, <2>3, <3>1, SMT
    <3>3. CASE t = h
      BY <1>1, <1>2, <1>3, <2>3, <3>1, <3>2, <3>3, SMT
    <3>4. CASE t # h
      <4>1. prev'[t] = prev[t] /\ pid'[prev[t]] # 0 /\ prev[t] # K
        BY <1>1, <1>2, <1>3, <2>3, <3>1, <3>4, SMT
      <4>2. next'[prev[t]] = t
        BY <1>1, <1>2, <1>3, <2>3, <3>1, <4>1, SMT
      <4>. QED
        BY <3>2, <4>1, <4>2, Zenon
    <3>. QED
      BY <3>3, <3>4
  <2>. QED
    BY <2>1, <2>2, <2>3
<1>5. pid'[K] # 0 /\ \A u \in Slot : pid[u] # 0 => pid'[u] # 0
  BY <1>1, <1>2, <1>3, SMT
<1>. QED
  BY <1>4, <1>5, SMT DEF RingLinks

\* dettach_task keeps the links: the neighbours of the block meet.
LEMMA DetachKeepsRing ==
    ASSUME TypeOK, RingLinks, CursorLive, NEW t \in Slot \ {K}, Detach(t)
    PROVE  RingLinks' /\ Live(taskptr)'
<1>0. pid \in [Slot -> Nat] /\ next \in [Slot -> Slot] /\ prev \in [Slot -> Slot]
  BY Zenon DEF TypeOK
<1>1. /\ pid \in [Slot -> Nat] /\ next \in [Slot -> Slot] /\ prev \in [Slot -> Slot]
      /\ K \in Slot
  BY <1>0, KernelSlot, SMT
<1>2. /\ pid' = [pid EXCEPT ![t] = 0]
      /\ next' = [next EXCEPT ![prev[t]] = next[t]]
      /\ prev' = [prev EXCEPT ![next[t]] = prev[t]]
      /\ taskptr' = next'[next'[K]]
  BY Zenon DEF Detach, Resume
<1>3. pid[t] # 0
  BY SMT DEF Detach, At, CursorLive
<1>4. /\ pid[K] # 0 /\ t # K
      /\ \A u \in Slot : pid[u] # 0 => /\ pid[next[u]] # 0 /\ prev[next[u]] = u
                                       /\ pid[prev[u]] # 0 /\ next[prev[u]] = u
  BY <1>1, SMT DEF RingLinks
<1>5. ASSUME NEW u \in Slot, pid'[u] # 0
      PROVE  /\ pid'[next'[u]] # 0 /\ prev'[next'[u]] = u
             /\ pid'[prev'[u]] # 0 /\ next'[prev'[u]] = u
             /\ next'[u] \in Slot
  <2>1. pid[u] # 0 /\ u # t
    BY <1>1, <1>2, <1>5, SMT
  <2>2. pid'[next'[u]] # 0 /\ prev'[next'[u]] = u /\ next'[u] \in Slot
    <3>1. CASE next[u] = t
      BY <1>1, <1>2, <1>3, <1>4, <2>1, <3>1, SMT
    <3>2. CASE next[u] # t
      BY <1>1, <1>2, <1>3, <1>4, <2>1, <3>2, SMT
    <3>. QED
      BY <3>1, <3>2
  <2>3. pid'[prev'[u]] # 0 /\ next'[prev'[u]] = u
    <3>1. CASE prev[u] = t
      BY <1>1, <1>2, <1>3, <1>4, <2>1, <3>1, SMT
    <3>2. CASE prev[u] # t
      BY <1>1, <1>2, <1>3, <1>4, <2>1, <3>2, SMT
    <3>. QED
      BY <3>1, <3>2
  <2>. QED
    BY <2>2, <2>3
<1>6. pid'[K] # 0
  BY <1>1, <1>2, <1>4, SMT
<1>7. pid'[next'[next'[K]]] # 0
  BY <1>1, <1>5, <1>6, SMT
<1>. QED
  BY <1>2, <1>5, <1>6, <1>7, SMT DEF RingLinks

\* dettach_task keeps WaitsForLive: whoever waited for the task is woken.
LEMMA DetachKeepsWaits ==
    ASSUME TypeOK, WaitsForLive, NEW t \in Slot \ {K}, Detach(t)
    PROVE  WaitsForLive'
<1>1. /\ pid \in [Slot -> Nat] /\ state \in [Slot -> SUBSET Flag]
      /\ t \in Slot
  BY Zenon DEF TypeOK
<1>2. /\ pid' = [pid EXCEPT ![t] = 0]
      /\ state' = [u \in Slot |-> IF u \in Woken(t) THEN state[u] \ {"WAIT"} ELSE state[u]]
      /\ wait_pid' = wait_pid
  BY Zenon DEF Detach
<1>3. SUFFICES ASSUME NEW u \in Slot, pid'[u] # 0, "WAIT" \in state'[u]
               PROVE  \E v \in Slot \ {K} : pid'[v] # 0 /\ pid'[v] = wait_pid'[u]
  BY SMT DEF WaitsForLive
<1>4. u # t /\ pid[u] # 0 /\ "WAIT" \in state[u] /\ wait_pid[u] # pid[t]
  BY <1>1, <1>2, <1>3, SMT DEF Woken
<1>5. PICK v \in Slot \ {K} : pid[v] # 0 /\ pid[v] = wait_pid[u]
  BY <1>4, SMT DEF WaitsForLive
<1>6. v # t
  BY <1>4, <1>5
<1>. QED
  BY <1>1, <1>2, <1>5, <1>6, SMT

\* WAIT_REQ found its task: the caller waits for one that is in the ring.
LEMMA WaitKeepsWaits ==
    ASSUME TypeOK, WaitsForLive, ArgOK, NEW t \in Slot \ {K}, Wait(t), req[t] = "wait"
    PROVE  UNCHANGED <<pid, next, prev>> /\ WaitsForLive'
<1>1. UNCHANGED <<pid, next, prev>>
  BY SMT DEF Wait, ring
<1>2. CASE Clear(t) /\ wait_pid' = wait_pid
  <2>1. state' = [state EXCEPT ![t] = (@ \ {"REQ"}) \cup {}]
    BY <1>2, Zenon DEF Clear
  <2>2. \A u \in Slot : "WAIT" \in state'[u] => "WAIT" \in state[u]
    BY <2>1, NoNewWait, Zenon
  <2>. QED
    BY <1>1, <1>2, <2>2, SMT DEF WaitsForLive
<1>3. ASSUME NEW v \in Slot \ {K}, pid[v] = arg[t],
             state' = [state EXCEPT ![t] = (@ \ {"REQ"}) \cup {"WAIT"}],
             wait_pid' = [wait_pid EXCEPT ![t] = arg[t]]
      PROVE  WaitsForLive'
  <2>1. /\ state \in [Slot -> SUBSET Flag] /\ wait_pid \in [Slot -> Nat] /\ t \in Slot
    BY Zenon DEF TypeOK
  <2>2. pid[v] # 0
    BY <1>3, SMT DEF ArgOK
  <2>3. SUFFICES ASSUME NEW u \in Slot, pid'[u] # 0, "WAIT" \in state'[u]
                 PROVE  \E w \in Slot \ {K} : pid'[w] # 0 /\ pid'[w] = wait_pid'[u]
    BY SMT DEF WaitsForLive
  <2>4. CASE u = t
    BY <1>1, <1>3, <2>1, <2>2, <2>4, SMT
  <2>5. CASE u # t
    <3>1. "WAIT" \in state[u] /\ pid[u] # 0 /\ wait_pid'[u] = wait_pid[u]
      BY <1>1, <1>3, <2>1, <2>3, <2>5, SMT
    <3>. QED
      BY <1>1, <3>1, SMT DEF WaitsForLive
  <2>. QED
    BY <2>4, <2>5
<1>4. \/ Clear(t) /\ wait_pid' = wait_pid
      \/ \E v \in Slot \ {K} : /\ FirstWith(arg[t], v)
                               /\ state' = [state EXCEPT ![t] = (@ \ {"REQ"}) \cup {"WAIT"}]
                               /\ wait_pid' = [wait_pid EXCEPT ![t] = arg[t]]
  BY Zenon DEF Wait
<1>5. \A v \in Slot : FirstWith(arg[t], v) => pid[v] = arg[t]
  BY Zenon DEF FirstWith
<1>6. WaitsForLive'
  BY <1>2, <1>3, <1>4, <1>5, Zenon
<1>. QED
  BY <1>1, <1>6

\* A block that attach_task hands out waits for nobody.
LEMMA ExecKeeps ==
    ASSUME TypeOK, RingLinks, WaitsForLive, NEW t \in Slot \ {K}, ExecRuns(t)
    PROVE  /\ RingLinks' /\ WaitsForLive'
           /\ \A u \in Slot : Live(u) => Live(u)'
<1>1. PICK c \in Slot, p \in FirstPid .. FirstPid + MAX_TASK :
          /\ FreeSlot(c)
          /\ \/ Clear(t) /\ UNCHANGED <<pid, next, prev, wait_pid>>
             \/ Link(c, p) /\ state' = [state EXCEPT ![t] = @ \ {"REQ"}, ![c] = {}]
  BY Zenon DEF ExecRuns
<1>2. p \in Nat \ {0}
  BY FirstPidPositive, Constants, SMT
<1>3. pid[c] = 0
  BY <1>1, Zenon DEF FreeSlot
<1>4. CASE Clear(t) /\ UNCHANGED <<pid, next, prev, wait_pid>>
  <2>1. state' = [state EXCEPT ![t] = (@ \ {"REQ"}) \cup {}]
    BY <1>4, Zenon DEF Clear
  <2>2. Calm
    BY <1>4, <2>1, NoNewWait, Zenon DEF Calm
  <2>. QED
    BY <1>4, <2>2, CalmKeeps, Zenon
<1>5. CASE Link(c, p) /\ state' = [state EXCEPT ![t] = @ \ {"REQ"}, ![c] = {}]
  <2>1. RingLinks' /\ \A u \in Slot : Live(u) => Live(u)'
    BY <1>2, <1>3, <1>5, LinkKeepsRing, Zenon
  <2>2. /\ pid \in [Slot -> Nat] /\ state \in [Slot -> SUBSET Flag]
        /\ wait_pid \in [Slot -> Nat] /\ t \in Slot
    BY Zenon DEF TypeOK
  <2>3. pid' = [pid EXCEPT ![c] = p] /\ wait_pid' = [wait_pid EXCEPT ![c] = 0]
    BY <1>5, Zenon DEF Link
  <2>4. SUFFICES ASSUME NEW u \in Slot, pid'[u] # 0, "WAIT" \in state'[u]
                 PROVE  \E v \in Slot \ {K} : pid'[v] # 0 /\ pid'[v] = wait_pid'[u]
    BY <2>1, SMT DEF WaitsForLive
  <2>5. u # c /\ pid[u] # 0 /\ "WAIT" \in state[u] /\ wait_pid'[u] = wait_pid[u]
    BY <1>5, <2>2, <2>3, <2>4, SMT
  <2>6. PICK v \in Slot \ {K} : pid[v] # 0 /\ pid[v] = wait_pid[u]
    BY <2>5, SMT DEF WaitsForLive
  <2>7. v # c
    BY <1>3, <2>6
  <2>. QED
    BY <2>2, <2>3, <2>5, <2>6, <2>7, SMT
<1>. QED
  BY <1>1, <1>4, <1>5, Zenon

\* A request leaves the links and the waiters right and frees no block.
LEMMA RequestKeeps ==
    ASSUME IInv, NEW t \in Slot \ {K}, HandleRequest(t)
    PROVE  /\ RingLinks' /\ WaitsForLive'
           /\ \A u \in Slot : Live(u) => Live(u)'
<1>. USE DEF IInv
<1>1. CASE ExecRuns(t)
  BY <1>1, ExecKeeps, Zenon
<1>2. CASE req[t] = "wait"
  <2>1. Wait(t)
    BY <1>2, SMT DEF HandleRequest
  <2>. QED
    BY <1>2, <2>1, WaitKeepsWaits, CalmRing, Zenon
<1>3. CASE Kill(t)
  <2>1. \/ Clear(t)
        \/ \E v \in Slot :
             state' = [u \in Slot |-> (state[u] \ (IF u = t THEN {"REQ"} ELSE {}))
                                       \cup (IF u = v THEN {"EXIT"} ELSE {})]
    BY <1>3, Zenon DEF Kill
  <2>2. \A u \in Slot : "WAIT" \in state'[u] => "WAIT" \in state[u]
    <3>1. CASE Clear(t)
      <4>1. state' = [state EXCEPT ![t] = (@ \ {"REQ"}) \cup {}]
        BY <3>1, Zenon DEF Clear
      <4>. QED
        BY <4>1, NoNewWait, Zenon
    <3>2. ASSUME NEW v \in Slot,
                 state' = [u \in Slot |-> (state[u] \ (IF u = t THEN {"REQ"} ELSE {}))
                                            \cup (IF u = v THEN {"EXIT"} ELSE {})],
                 NEW w \in Slot, "WAIT" \in state'[w]
          PROVE  "WAIT" \in state[w]
      BY <3>2, SMT
    <3>. QED
      BY <2>1, <3>1, <3>2, Zenon
  <2>3. Calm
    BY <1>3, <2>2, SMT DEF Kill, Calm, ring
  <2>. QED
    BY <2>3, CalmKeeps, Zenon DEF Calm
<1>4. CASE \/ ExecFails(t) \/ Bind(t) \/ Recv(t) \/ Send(t) \/ Accept(t) \/ Other(t)
  <2>1. \/ Clear(t)
        \/ state' = [state EXCEPT ![t] = (@ \ {"REQ"}) \cup {"NET"}]
    BY <1>4, Zenon DEF ExecFails, Bind, Recv, Send, Accept, Other
  <2>2. \/ state' = [state EXCEPT ![t] = (@ \ {"REQ"}) \cup {}]
        \/ state' = [state EXCEPT ![t] = (@ \ {"REQ"}) \cup {"NET"}]
    BY <2>1, Zenon DEF Clear
  <2>3. \A u \in Slot : "WAIT" \in state'[u] => "WAIT" \in state[u]
    BY <2>2, NoNewWait, OtherBits, Zenon
  <2>4. UNCHANGED <<ring, wait_pid>>
    BY <1>4, SMT DEF ExecFails, Bind, Recv, Send, Accept, Other
  <2>5. Calm
    BY <2>3, <2>4, SMT DEF Calm, ring
  <2>. QED
    BY <2>5, CalmKeeps, SMT DEF Calm
<1>. QED
  BY <1>1, <1>2, <1>3, <1>4, Zenon DEF HandleRequest

\* A step of a user task, or the timer, moves neither links nor cursor.
LEMMA UserCalm ==
    ASSUME TypeOK, NEW t \in Slot \ {K}, UserStep(t)
    PROVE  Calm /\ UNCHANGED <<kpc, taskptr>>
<1>1. \/ state' = [state EXCEPT ![t] = (@ \ {}) \cup {"REQ"}]
      \/ state' = [state EXCEPT ![t] = (@ \ {}) \cup {"EXIT"}]
      \/ state' = state
  BY Zenon DEF UserStep, Post, Sleep, Exit, Trap, Return
<1>2. \A u \in Slot : "WAIT" \in state'[u] => "WAIT" \in state[u]
  BY <1>1, NoNewWait, OtherBits, Zenon
<1>3. UNCHANGED <<ring, wait_pid, kpc, taskptr>>
  BY Zenon DEF UserStep, Post, Sleep, Exit, Trap, Return
<1>. QED
  BY <1>2, <1>3, Zenon DEF Calm, ring

LEMMA IpCalm ==
    ASSUME TypeOK, IpStep
    PROVE  Calm /\ UNCHANGED <<kpc, taskptr>>
<1>1. \/ state' = state
      \/ \E u \in Slot : state' = [state EXCEPT ![u] = (@ \ {"NET"}) \cup {}]
  BY Zenon DEF IpStep, Udp, Arp, Tcp
<1>2. \A u \in Slot : "WAIT" \in state'[u] => "WAIT" \in state[u]
  BY <1>1, NoNewWait, OtherBits, Zenon
<1>3. UNCHANGED <<ring, wait_pid, kpc, taskptr>>
  BY SMT DEF IpStep, Udp, Arp, Tcp
<1>. QED
  BY <1>2, <1>3, SMT DEF Calm, ring

\* s_wait is called with a pid that is not 0.
LEMMA ArgStep == IInv /\ [Next]_vars => ArgOK'
<1>. SUFFICES ASSUME IInv, [Next]_vars PROVE ArgOK'
  OBVIOUS
<1>1. ASSUME NEW t \in Slot, NEW c \in Call, NEW a, c = "wait" => a # 0, Post(t, c, a)
      PROVE  ArgOK'
  <2>1. req' = [req EXCEPT ![t] = c] /\ arg' = [arg EXCEPT ![t] = a]
    BY <1>1, Zenon DEF Post
  <2>2. req \in [Slot -> Call \cup {"none"}] /\ arg \in [Slot -> Nat]
    BY Zenon DEF IInv, TypeOK
  <2>. QED
    BY <1>1, <2>1, <2>2, SMT DEF ArgOK, IInv
<1>2. CASE UNCHANGED call
  BY <1>2, SMT DEF call, ArgOK, IInv
<1>3. ASSUME NEW t \in Slot, UserStep(t) PROVE ArgOK'
  <2>1. CASE \E c \in {"kill", "wait"}, a \in PIDS : Post(t, c, a)
    <3>1. PICK c \in Call, a \in PIDS : Post(t, c, a)
      BY <2>1, Zenon DEF Call
    <3>2. a # 0
      BY Constants
    <3>. QED
      BY <1>1, <3>1, <3>2, Zenon
  <2>2. CASE \E c \in Call \ {"kill", "wait"} : Post(t, c, 0)
    BY <1>1, <2>2, Zenon
  <2>. QED
    BY <1>2, <1>3, <2>1, <2>2, Zenon DEF UserStep, Sleep, Exit, Trap, Return
<1>4. CASE Preempt \/ ScanStep \/ IpStep
  BY <1>2, <1>4, Zenon DEF Preempt, ScanStep, StartScan, HandleRequest, NoReq,
     CountDown, Detach, EndScan, EndIp, KernelTrap, IpStep, Udp, Arp, Tcp
<1>5. CASE UNCHANGED vars
  BY <1>2, <1>5, SMT DEF vars, call
<1>. QED
  BY <1>3, <1>4, <1>5, Zenon DEF Next

LEMMA InvInit == Init => IInv
<1>. SUFFICES ASSUME Init PROVE IInv
  OBVIOUS
<1>1. RingLinks
  BY Constants, SMT DEF Init, RingLinks
<1>2. CursorLive /\ ArgOK
  BY SMT DEF Init, CursorLive, ArgOK
<1>3. WaitsForLive
  BY SMT DEF Init, WaitsForLive
<1>. QED
  BY <1>1, <1>2, <1>3, TypeInit DEF IInv

LEMMA InvStep == IInv /\ [Next]_vars => IInv'
<1>. SUFFICES ASSUME IInv, [Next]_vars PROVE RingLinks' /\ CursorLive' /\ WaitsForLive'
  BY TypeStep, ArgStep, Zenon DEF IInv
<1>. USE DEF IInv
\* Steps that move neither the links nor the cursor, and end the scan at most.
<1>1. ASSUME Calm, taskptr' = taskptr \/ taskptr' = next[taskptr], kpc # "loop",
             kpc' # "loop"
      PROVE  RingLinks' /\ CursorLive' /\ WaitsForLive'
  <2>1. RingLinks' /\ WaitsForLive'
    BY <1>1, CalmKeeps, Zenon
  <2>2. taskptr \in Slot /\ Live(taskptr)
    BY <1>1, SMT DEF CursorLive, TypeOK
  <2>3. Live(taskptr')
    BY <1>1, <2>2, SMT DEF RingLinks
  <2>4. CursorLive'
    BY <1>1, <2>3, SMT DEF CursorLive, Calm
  <2>. QED
    BY <2>1, <2>4
<1>2. ASSUME Calm, UNCHANGED <<kpc, taskptr>>
      PROVE  RingLinks' /\ CursorLive' /\ WaitsForLive'
  <2>1. CursorLive'
    BY <1>2, SMT DEF CursorLive, Calm
  <2>. QED
    BY <1>2, <2>1, CalmKeeps, Zenon
<1>3. ASSUME Calm, kpc' = "loop"
      PROVE  RingLinks' /\ CursorLive' /\ WaitsForLive'
  BY <1>3, CalmKeeps, Zenon DEF CursorLive
<1>4. ASSUME NEW t \in Slot \ {K}, UserStep(t)
      PROVE  RingLinks' /\ CursorLive' /\ WaitsForLive'
  BY <1>2, <1>4, UserCalm, Zenon
<1>5. ASSUME IpStep PROVE RingLinks' /\ CursorLive' /\ WaitsForLive'
  BY <1>2, <1>5, IpCalm, Zenon
<1>6. ASSUME Preempt PROVE RingLinks' /\ CursorLive' /\ WaitsForLive'
  BY <1>2, <1>6, SMT DEF Preempt, Calm, ring
<1>7. ASSUME StartScan PROVE RingLinks' /\ CursorLive' /\ WaitsForLive'
  <2>1. Calm
    BY <1>7, SMT DEF StartScan, Calm, ring
  <2>2. Live(next[K])
    BY KernelSlot, SMT DEF RingLinks
  <2>3. taskptr' = next[K]
    BY <1>7, Zenon DEF StartScan, ScanFrom
  <2>4. CursorLive'
    BY <2>1, <2>2, <2>3, SMT DEF CursorLive, Calm
  <2>. QED
    BY <2>1, <2>4, CalmKeeps, Zenon
<1>8. ASSUME NEW t \in Slot \ {K}, HandleRequest(t)
      PROVE  RingLinks' /\ CursorLive' /\ WaitsForLive'
  <2>1. RingLinks' /\ WaitsForLive' /\ \A u \in Slot : Live(u) => Live(u)'
    BY <1>8, RequestKeeps, Zenon
  <2>2. taskptr' = taskptr /\ kpc = "scan" /\ taskptr \in Slot
    BY <1>8, SMT DEF HandleRequest, At, TypeOK
  <2>3. CursorLive'
    BY <2>1, <2>2, SMT DEF CursorLive
  <2>. QED
    BY <2>1, <2>3
<1>9. ASSUME NEW t \in Slot \ {K}, NoReq(t) \/ CountDown(t)
      PROVE  RingLinks' /\ CursorLive' /\ WaitsForLive'
  <2>1. Calm
    BY <1>9, SMT DEF NoReq, CountDown, Calm, ring
  <2>2. (taskptr' = taskptr \/ taskptr' = next[taskptr]) /\ kpc # "loop" /\ kpc' # "loop"
    BY <1>9, SMT DEF NoReq, At, CountDown, Following
  <2>. QED
    BY <1>1, <2>1, <2>2, Zenon
<1>10. ASSUME NEW t \in Slot \ {K}, Detach(t)
       PROVE  RingLinks' /\ CursorLive' /\ WaitsForLive'
  <2>1. RingLinks' /\ Live(taskptr)' /\ WaitsForLive'
    BY <1>10, DetachKeepsRing, DetachKeepsWaits, Zenon
  <2>. QED
    BY <2>1, Zenon DEF CursorLive
<1>11. ASSUME EndScan \/ EndIp PROVE RingLinks' /\ CursorLive' /\ WaitsForLive'
  <2>1. Calm
    BY <1>11, SMT DEF EndScan, EndIp, Calm, ring
  <2>2. taskptr' = taskptr /\ kpc # "loop" /\ kpc' # "loop"
    BY <1>11, SMT DEF EndScan, EndIp
  <2>. QED
    BY <1>1, <2>1, <2>2, Zenon
<1>12. ASSUME KernelTrap PROVE RingLinks' /\ CursorLive' /\ WaitsForLive'
  <2>1. Calm
    BY <1>12, SMT DEF KernelTrap, Calm, ring
  <2>2. kpc' = "loop"
    BY <1>12, Zenon DEF KernelTrap
  <2>. QED
    BY <1>3, <2>1, <2>2, Zenon
<1>13. ASSUME UNCHANGED vars PROVE RingLinks' /\ CursorLive' /\ WaitsForLive'
  BY <1>2, <1>13, SMT DEF vars, Calm
<1>. QED
  BY <1>4, <1>5, <1>6, <1>7, <1>8, <1>9, <1>10, <1>11, <1>12, <1>13, Zenon
     DEF Next, ScanStep

\* The tcb table keeps its links, and the scan its place in the ring, whatever
\* is attached and detached, in every behaviour and for any number of blocks.
THEOREM RingCorrect == Spec => []RingHolds
<1>1. IInv => RingHolds
  BY DEF IInv, RingHolds
<1>. QED
  BY <1>1, InvInit, InvStep, PTL DEF Spec

\* No wakeup is lost: whoever waits in s_wait waits for a task that is in the
\* ring, even after the pid counter wrapped and pids are no longer unique.
THEOREM WaitsCorrect == Spec => []WaitsForLive
<1>1. IInv => WaitsForLive
  BY DEF IInv
<1>. QED
  BY <1>1, InvInit, InvStep, PTL DEF Spec

-----------------------------------------------------------------------------
(* The used blocks are one ring. *)

\* A set of numbers that is not empty has a least one.
LEMMA LeastOf ==
    ASSUME NEW S, S \subseteq Nat, S # {}
    PROVE  \E x \in S : \A y \in S : x <= y
<1>. DEFINE R == OpToRel(<, Nat)
<1>1. \E x \in S : \A y \in S : ~ (<<y, x>> \in R)
  BY NatLessThanWellFounded, WFMin
<1>2. \A x, y \in S : <<y, x>> \in R <=> y < x
  BY DEF OpToRel
<1>. HIDE DEF R
<1>3. PICK x \in S : \A y \in S : ~ (<<y, x>> \in R)
  BY <1>1
<1>4. \A y \in S : ~ (y < x)
  BY <1>2, <1>3
<1>5. \A y \in S : x <= y
  BY <1>4, SMT
<1>. QED
  BY <1>5

\* w is the walk of m steps from t along the links nx.
Walk(nx, t, m, w) == w = [i \in 0 .. m |-> IF i = 0 THEN t ELSE nx[w[i - 1]]]

\* The recursive function of Along exists.
LEMMA WalkExists ==
    ASSUME NEW nx, NEW t, NEW n \in Nat
    PROVE  \E w : Walk(nx, t, n, w)
<1>. DEFINE S == {m \in Nat : ~ \E w : Walk(nx, t, m, w)}
<1>. SUFFICES ASSUME n \in S PROVE FALSE
  BY Zenon
<1>1. PICK m \in S : \A y \in S : m <= y
  BY LeastOf, Zenon
<1>2. m \in Nat /\ ~ \E w : Walk(nx, t, m, w)
  BY <1>1, Zenon
<1>3. CASE m = 0
  <2>1. Walk(nx, t, 0, [i \in 0 .. 0 |-> t])
    BY SMT DEF Walk
  <2>. QED
    BY <1>2, <1>3, <2>1, Zenon
<1>4. CASE m # 0
  <2>1. m - 1 \in Nat /\ ~ (m <= m - 1)
    BY <1>2, <1>4, SMT
  <2>2. m - 1 \notin S
    BY <1>1, <2>1, Zenon
  <2>3. PICK w : Walk(nx, t, m - 1, w)
    BY <2>1, <2>2, Zenon
  <2>4. w = [i \in 0 .. m - 1 |-> IF i = 0 THEN t ELSE nx[w[i - 1]]]
    BY <2>3, Zenon DEF Walk
  <2>. DEFINE v == [i \in 0 .. m |-> IF i = m THEN nx[w[m - 1]] ELSE w[i]]
  <2>5. \A i \in 0 .. m : v[i] = IF i = 0 THEN t ELSE nx[v[i - 1]]
    <3>1. \A i \in 0 .. m - 1 : w[i] = IF i = 0 THEN t ELSE nx[w[i - 1]]
      BY <2>4, Zenon
    <3>. HIDE DEF S
    <3>2. TAKE i \in 0 .. m
    <3>3. CASE i = m
      BY <1>2, <1>4, <3>3, SMT
    <3>4. CASE i = 0
      BY <1>2, <1>4, <3>1, <3>4, SMT
    <3>5. CASE i # m /\ i # 0
      <4>1. i \in 0 .. m - 1 /\ i - 1 \in 0 .. m /\ i - 1 # m
        BY <1>2, <1>4, <3>5, SMT
      <4>2. v[i] = w[i] /\ v[i - 1] = w[i - 1]
        BY <3>5, <4>1, Zenon
      <4>. QED
        BY <3>1, <3>5, <4>1, <4>2, Zenon
    <3>. QED
      BY <3>3, <3>4, <3>5
  <2>6. v = [i \in 0 .. m |-> IF i = 0 THEN t ELSE nx[v[i - 1]]]
    BY <2>5, SMT
  <2>7. Walk(nx, t, m, v)
    BY <2>6, Zenon DEF Walk
  <2>. QED
    BY <1>2, <2>7, Zenon
<1>. QED
  BY <1>3, <1>4

\* Along, with the links as a parameter.
AlongOf(nx, t) ==
    LET w[i \in 0 .. MAX_TASK] == IF i = 0 THEN t ELSE nx[w[i - 1]]
    IN  w

\* Along as the code walks: from t on, each time to the next block.
LEMMA AlongSteps ==
    ASSUME NEW nx, NEW t
    PROVE  /\ AlongOf(nx, t)[0] = t
           /\ \A i \in 1 .. MAX_TASK : AlongOf(nx, t)[i] = nx[AlongOf(nx, t)[i - 1]]
<1>1. MAX_TASK \in Nat
  BY Constants
<1>2. \E w : w = [i \in 0 .. MAX_TASK |-> IF i = 0 THEN t ELSE nx[w[i - 1]]]
  <2>1. \E w : Walk(nx, t, MAX_TASK, w)
    BY <1>1, WalkExists, Zenon
  <2>. QED
    BY <2>1, Zenon DEF Walk
<1>. DEFINE a == AlongOf(nx, t)
<1>3. a = [i \in 0 .. MAX_TASK |-> IF i = 0 THEN t ELSE nx[a[i - 1]]]
  BY <1>2, Zenon DEF AlongOf
<1>. HIDE DEF a
<1>4. a[0] = t /\ \A i \in 1 .. MAX_TASK : a[i] = nx[a[i - 1]]
  BY <1>1, <1>3, SMT
<1>. QED
  BY <1>4 DEF a

\* f lists the n blocks that are used, in the order of the links, the kernel's
\* first: nx holds the links and pd the pids.
OneRing(nx, pd, n, f) ==
    /\ n \in Nat \ {0} /\ f \in [0 .. n - 1 -> Slot]
    /\ f[0] = K /\ nx[f[n - 1]] = K
    /\ \A i \in 0 .. n - 2 : nx[f[i]] = f[i + 1]
    /\ \A i, j \in 0 .. n - 1 : f[i] = f[j] => i = j
    /\ \A t \in Slot : pd[t] # 0 <=> \E i \in 0 .. n - 1 : f[i] = t

\* The list with c as its second block; the list without its j-th block.
Insert(n, f, c) == [i \in 0 .. n |-> IF i = 0 THEN K ELSE IF i = 1 THEN c ELSE f[i - 1]]
Remove(n, f, j) == [i \in 0 .. n - 2 |-> IF i < j THEN f[i] ELSE f[i + 1]]

Ringed == \E n, f : OneRing(next, pid, n, f)

LEMMA RingedInit == Init => Ringed
<1>. SUFFICES ASSUME Init PROVE Ringed
  OBVIOUS
<1>1. /\ pid = [t \in Slot |-> IF t = 0 THEN 1 ELSE IF t = 1 THEN 2 ELSE 0]
      /\ next = [t \in Slot |-> IF t = 0 THEN 1 ELSE 0]
  BY Zenon DEF Init
<1>2. OneRing(next, pid, 2, [i \in 0 .. 1 |-> i])
  BY <1>1, Constants, SMT DEF OneRing
<1>. QED
  BY <1>2, Zenon DEF Ringed

\* attach_task: the new block is the second of the list.
LEMMA LinkRinged ==
    ASSUME TypeOK, NEW n, NEW f, OneRing(next, pid, n, f),
           NEW c \in Slot, NEW p, p # 0, FreeSlot(c), Link(c, p)
    PROVE  OneRing(next', pid', n + 1, Insert(n, f, c))
<1>2. /\ pid \in [Slot -> Nat] /\ next \in [Slot -> Slot] /\ K \in Slot
  BY KernelSlot, Zenon DEF TypeOK
<1>3. /\ pid' = [pid EXCEPT ![c] = p] /\ next' = [next EXCEPT ![c] = next[K], ![K] = c] /\ pid[c] = 0
  BY Zenon DEF Link, LinkIn, FreeSlot
<1>4. /\ n \in Nat \ {0} /\ f \in [0 .. n - 1 -> Slot]
      /\ f[0] = K /\ next[f[n - 1]] = K
      /\ \A i \in 0 .. n - 2 : next[f[i]] = f[i + 1]
      /\ \A i, j \in 0 .. n - 1 : f[i] = f[j] => i = j
      /\ \A t \in Slot : pid[t] # 0 <=> \E i \in 0 .. n - 1 : f[i] = t
  BY Zenon DEF OneRing
<1>. DEFINE g == Insert(n, f, c)
<1>5. g \in [0 .. n -> Slot] /\ g[0] = K /\ g[1] = c /\ \A i \in 2 .. n : g[i] = f[i - 1]
  BY <1>2, <1>4, SMT DEF Insert
<1>6. \A i \in 0 .. n - 1 : f[i] # c
  BY <1>3, <1>4, SMT
<1>7. c # K
  BY <1>4, <1>6, SMT
<1>8. next'[K] = c /\ next'[c] = next[K] /\ \A t \in Slot : t # K /\ t # c => next'[t] = next[t]
  BY <1>2, <1>3, <1>7, SMT
<1>. HIDE DEF g
<1>9. next'[g[n]] = K
  <2>1. CASE n = 1
    BY <1>4, <1>5, <1>8, <2>1, SMT
  <2>2. CASE n # 1
    <3>1. g[n] = f[n - 1] /\ f[n - 1] \in Slot /\ f[n - 1] # c /\ f[n - 1] # K
      BY <1>4, <1>5, <1>6, <2>2, SMT
    <3>2. next'[f[n - 1]] = next[f[n - 1]]
      BY <1>8, <3>1, Zenon
    <3>3. next[f[n - 1]] = K
      BY <1>4, Zenon
    <3>. QED
      BY <3>1, <3>2, <3>3, Zenon
  <2>. QED
    BY <2>1, <2>2
<1>10. ASSUME NEW i \in 0 .. n - 1 PROVE next'[g[i]] = g[i + 1]
  <2>1. CASE i = 0
    BY <1>4, <1>5, <1>8, <2>1, SMT
  <2>2. CASE i = 1
    <3>1. g[1] = c /\ g[2] = f[1] /\ next[f[0]] = f[1]
      BY <1>4, <1>5, <2>2, SMT
    <3>. QED
      BY <1>4, <1>8, <2>2, <3>1, SMT
  <2>3. CASE i # 0 /\ i # 1
    <3>1. /\ g[i] = f[i - 1] /\ g[i + 1] = f[i] /\ f[i - 1] \in Slot /\ f[i - 1] # c /\ f[i - 1] # K
          /\ next[f[i - 1]] = f[i]
      BY <1>4, <1>5, <1>6, <2>3, SMT
    <3>. QED
      BY <1>8, <3>1, Zenon
  <2>. QED
    BY <2>1, <2>2, <2>3
<1>11. ASSUME NEW i \in 0 .. n, NEW j \in 0 .. n, g[i] = g[j] PROVE i = j
  <2>1. \A a, b \in 0 .. n - 1 : f[a] = f[b] => a = b
    BY <1>4
  <2>2. \A a \in 1 .. n - 1 : f[a] # K
    BY <1>4, <2>1, SMT
  <2>3. \A a \in 2 .. n : a - 1 \in 1 .. n - 1 /\ a - 1 \in 0 .. n - 1 /\ g[a] = f[a - 1]
    BY <1>4, <1>5, SMT
  <2>4. i \in {0, 1} \cup 2 .. n /\ j \in {0, 1} \cup 2 .. n
    BY <1>4, SMT
  <2>5. CASE i \in 2 .. n /\ j \in 2 .. n
    <3>1. f[i - 1] = f[j - 1] /\ i - 1 \in 0 .. n - 1 /\ j - 1 \in 0 .. n - 1
      BY <1>11, <2>3, <2>5, Zenon
    <3>2. i - 1 = j - 1
      BY <2>1, <3>1, Zenon
    <3>. QED
      BY <3>2, SMT
  <2>6. CASE i \in {0, 1} /\ j \in {0, 1}
    BY <1>5, <1>7, <1>11, <2>6, SMT
  <2>7. CASE i \in {0, 1} /\ j \in 2 .. n
    BY <1>5, <1>6, <1>11, <2>2, <2>3, <2>7, SMT
  <2>8. CASE i \in 2 .. n /\ j \in {0, 1}
    BY <1>5, <1>6, <1>11, <2>2, <2>3, <2>8, SMT
  <2>. QED
    BY <2>4, <2>5, <2>6, <2>7, <2>8, Zenon
<1>12. ASSUME NEW t \in Slot PROVE pid'[t] # 0 <=> \E i \in 0 .. n : g[i] = t
  <2>1. CASE t = c
    BY <1>2, <1>3, <1>4, <1>5, <2>1, SMT
  <2>2. CASE t # c
    <3>1. pid'[t] # 0 <=> pid[t] # 0
      BY <1>2, <1>3, <2>2, SMT
    <3>2. ASSUME NEW i \in 0 .. n - 1, f[i] = t PROVE \E j \in 0 .. n : g[j] = t
      <4>1. i = 0 => g[0] = t
        BY <1>4, <1>5, <3>2
      <4>2. i # 0 => i + 1 \in 2 .. n /\ g[i + 1] = f[i]
        BY <1>4, <1>5, SMT
      <4>3. 0 \in 0 .. n /\ (i # 0 => i + 1 \in 0 .. n)
        BY <1>4, SMT
      <4>. QED
        BY <3>2, <4>1, <4>2, <4>3, Zenon
    <3>3. ASSUME NEW i \in 0 .. n, g[i] = t PROVE \E j \in 0 .. n - 1 : f[j] = t
      <4>1. i # 1
        BY <1>5, <2>2, <3>3
      <4>2. i = 0 => 0 \in 0 .. n - 1 /\ f[0] = t
        BY <1>4, <1>5, <3>3, SMT
      <4>3. i # 0 => i - 1 \in 0 .. n - 1 /\ f[i - 1] = t
        BY <1>4, <1>5, <3>3, <4>1, SMT
      <4>. QED
        BY <4>2, <4>3, Zenon
    <3>. QED
      BY <1>4, <3>1, <3>2, <3>3, Zenon
  <2>. QED
    BY <2>1, <2>2
<1>13. /\ n + 1 \in Nat \ {0} /\ (n + 1) - 1 = n /\ (n + 1) - 2 = n - 1
  BY <1>4, SMT
<1>14. OneRing(next', pid', n + 1, g)
  <2>1. /\ g \in [0 .. (n + 1) - 1 -> Slot] /\ g[0] = K /\ next'[g[(n + 1) - 1]] = K
        /\ \A i \in 0 .. (n + 1) - 2 : next'[g[i]] = g[i + 1]
    BY <1>5, <1>9, <1>10, <1>13
  <2>2. /\ \A i, j \in 0 .. (n + 1) - 1 : g[i] = g[j] => i = j
        /\ \A t \in Slot : pid'[t] # 0 <=> \E i \in 0 .. (n + 1) - 1 : g[i] = t
    BY <1>11, <1>12, <1>13
  <2>. QED
    BY <1>13, <2>1, <2>2, Zenon DEF OneRing
<1>. QED
  BY <1>14 DEF g

\* dettach_task: the list without the block.
LEMMA DetachRinged ==
    ASSUME TypeOK, RingLinks, CursorLive, NEW n, NEW f, OneRing(next, pid, n, f),
           NEW t \in Slot \ {K}, Detach(t)
    PROVE  \E j \in 1 .. n - 1 : f[j] = t /\ OneRing(next', pid', n - 1, Remove(n, f, j))
<1>2. /\ pid \in [Slot -> Nat] /\ next \in [Slot -> Slot] /\ K \in Slot
  BY KernelSlot, Zenon DEF TypeOK
<1>3. /\ pid' = [pid EXCEPT ![t] = 0] /\ next' = [next EXCEPT ![prev[t]] = next[t]]
  BY Zenon DEF Detach
<1>4. /\ n \in Nat \ {0} /\ f \in [0 .. n - 1 -> Slot]
      /\ f[0] = K /\ next[f[n - 1]] = K
      /\ \A i \in 0 .. n - 2 : next[f[i]] = f[i + 1]
      /\ \A i, j \in 0 .. n - 1 : f[i] = f[j] => i = j
      /\ \A u \in Slot : pid[u] # 0 <=> \E i \in 0 .. n - 1 : f[i] = u
  BY Zenon DEF OneRing
<1>5. pid[t] # 0
  BY SMT DEF Detach, At, CursorLive
<1>6. PICK j \in 0 .. n - 1 : f[j] = t
  BY <1>4, <1>5, Zenon
<1>7. j # 0 /\ j - 1 \in 0 .. n - 2 /\ j - 1 \in 0 .. n - 1 /\ next[f[j - 1]] = t
  BY <1>4, <1>6, SMT
<1>8. prev[t] = f[j - 1]
  <2>1. f[j - 1] \in Slot /\ pid[f[j - 1]] # 0
    BY <1>4, <1>7, Zenon
  <2>. QED
    BY <1>7, <2>1, Zenon DEF RingLinks
<1>9. /\ next'[f[j - 1]] = next[t]
      /\ \A i \in 0 .. n - 1 : i # j - 1 => next'[f[i]] = next[f[i]]
  BY <1>2, <1>3, <1>4, <1>7, <1>8, SMT
<1>. DEFINE g == Remove(n, f, j)
<1>10. /\ g \in [0 .. n - 2 -> Slot]
       /\ \A i \in 0 .. n - 2 : (i < j => g[i] = f[i]) /\ (~ (i < j) => g[i] = f[i + 1])
  BY <1>4, SMT DEF Remove
<1>. HIDE DEF g
<1>11. n - 1 \in Nat \ {0} /\ (n - 1) - 1 = n - 2 /\ (n - 1) - 2 = n - 3 /\ n - 2 \in 0 .. n - 2 /\ 0 \in 0 .. n - 2
  BY <1>4, <1>7, SMT
<1>12. g[0] = K
  BY <1>4, <1>6, <1>7, <1>10, <1>11, SMT
<1>13. next'[g[n - 2]] = K
  <2>1. CASE j = n - 1
    <3>1. g[n - 2] = f[j - 1] /\ next[t] = K
      BY <1>4, <1>6, <1>10, <1>11, <2>1, SMT
    <3>. QED
      BY <1>9, <3>1
  <2>2. CASE j # n - 1
    <3>1. g[n - 2] = f[n - 1] /\ n - 1 \in 0 .. n - 1 /\ n - 1 # j - 1
      BY <1>4, <1>6, <1>10, <1>11, <2>2, SMT
    <3>2. next'[f[n - 1]] = next[f[n - 1]]
      BY <1>9, <3>1, Zenon
    <3>3. next[f[n - 1]] = K
      BY <1>4, Zenon
    <3>. QED
      BY <3>1, <3>2, <3>3, Zenon
  <2>. QED
    BY <2>1, <2>2
<1>14. ASSUME NEW i \in 0 .. n - 3 PROVE next'[g[i]] = g[i + 1]
  <2>1. i \in 0 .. n - 2 /\ i + 1 \in 0 .. n - 2 /\ i + 1 \in 0 .. n - 1 /\ i \in 0 .. n - 1
    BY <1>4, SMT
  <2>2. CASE i < j - 1
    <3>1. g[i] = f[i] /\ g[i + 1] = f[i + 1] /\ i # j - 1
      BY <1>4, <1>6, <1>10, <2>1, <2>2, SMT
    <3>. QED
      BY <1>4, <1>9, <2>1, <3>1, Zenon
  <2>3. CASE i = j - 1
    <3>1. g[i] = f[j - 1] /\ g[i + 1] = f[j + 1] /\ j \in 0 .. n - 2
      BY <1>4, <1>6, <1>10, <2>1, <2>3, SMT
    <3>. QED
      BY <1>4, <1>6, <1>9, <3>1, Zenon
  <2>4. CASE i > j - 1
    <3>1. g[i] = f[i + 1] /\ g[i + 1] = f[(i + 1) + 1] /\ i + 1 # j - 1
      BY <1>4, <1>6, <1>10, <2>1, <2>4, SMT
    <3>2. next[f[i + 1]] = f[(i + 1) + 1] /\ next'[f[i + 1]] = next[f[i + 1]]
      BY <1>4, <1>9, <2>1, <3>1, Zenon
    <3>. QED
      BY <3>1, <3>2
  <2>. QED
    BY <1>4, <1>6, <2>2, <2>3, <2>4, SMT
<1>15. ASSUME NEW i \in 0 .. n - 2, NEW k \in 0 .. n - 2, g[i] = g[k] PROVE i = k
  <2>1. i \in 0 .. n - 1 /\ i + 1 \in 0 .. n - 1 /\ k \in 0 .. n - 1 /\ k + 1 \in 0 .. n - 1 /\ j \in Int
    BY <1>4, <1>6, SMT
  <2>2. \A a, b \in 0 .. n - 1 : f[a] = f[b] => a = b
    BY <1>4
  <2>3. CASE i < j /\ k < j
    <3>1. f[i] = f[k]
      BY <1>10, <1>15, <2>3, Zenon
    <3>. QED
      BY <2>1, <2>2, <3>1, Zenon
  <2>4. CASE ~ (i < j) /\ ~ (k < j)
    <3>1. f[i + 1] = f[k + 1]
      BY <1>10, <1>15, <2>4, Zenon
    <3>2. i + 1 = k + 1
      BY <2>1, <2>2, <3>1, Zenon
    <3>. QED
      BY <3>2, SMT
  <2>5. CASE i < j /\ ~ (k < j)
    <3>1. f[i] = f[k + 1]
      BY <1>10, <1>15, <2>5, Zenon
    <3>2. i = k + 1
      BY <2>1, <2>2, <3>1, Zenon
    <3>. QED
      BY <2>1, <2>5, <3>2, SMT
  <2>6. CASE ~ (i < j) /\ k < j
    <3>1. f[i + 1] = f[k]
      BY <1>10, <1>15, <2>6, Zenon
    <3>2. i + 1 = k
      BY <2>1, <2>2, <3>1, Zenon
    <3>. QED
      BY <2>1, <2>6, <3>2, SMT
  <2>. QED
    BY <2>3, <2>4, <2>5, <2>6
<1>16. ASSUME NEW u \in Slot PROVE pid'[u] # 0 <=> \E i \in 0 .. n - 2 : g[i] = u
  <2>1. pid'[u] # 0 <=> pid[u] # 0 /\ u # t
    BY <1>2, <1>3, SMT
  <2>2. ASSUME NEW i \in 0 .. n - 1, f[i] = u, u # t PROVE \E k \in 0 .. n - 2 : g[k] = u
    <3>1. i # j
      BY <1>6, <2>2
    <3>2. CASE i < j
      <4>1. i \in 0 .. n - 2 /\ g[i] = u
        BY <1>4, <1>6, <1>10, <2>2, <3>2, SMT
      <4>. QED
        BY <4>1
    <3>3. CASE ~ (i < j)
      <4>1. i - 1 \in 0 .. n - 2 /\ g[i - 1] = u
        <5>1. i - 1 \in 0 .. n - 2 /\ ~ (i - 1 < j) /\ (i - 1) + 1 = i
          BY <1>4, <1>6, <3>1, <3>3, SMT
        <5>. QED
          BY <1>10, <2>2, <5>1, Zenon
      <4>. QED
        BY <4>1
    <3>. QED
      BY <3>2, <3>3
  <2>3. ASSUME NEW i \in 0 .. n - 2, g[i] = u PROVE pid[u] # 0 /\ u # t
    <3>1. i \in 0 .. n - 1 /\ i + 1 \in 0 .. n - 1 /\ (~ (i < j) => i + 1 # j) /\ (i < j => i # j)
      BY <1>4, <1>6, SMT
    <3>2. PICK k \in 0 .. n - 1 : k # j /\ f[k] = u
      <4>1. i < j => f[i] = u
        BY <1>10, <2>3
      <4>2. ~ (i < j) => f[i + 1] = u
        BY <1>10, <2>3
      <4>. QED
        BY <3>1, <4>1, <4>2, Zenon
    <3>3. \A a, b \in 0 .. n - 1 : f[a] = f[b] => a = b
      BY <1>4
    <3>4. u # t
      BY <1>6, <3>2, <3>3, Zenon
    <3>5. pid[u] # 0 <=> \E a \in 0 .. n - 1 : f[a] = u
      BY <1>4
    <3>. QED
      BY <3>2, <3>4, <3>5, Zenon
  <2>. QED
    BY <1>4, <2>1, <2>2, <2>3, Zenon
<1>17. OneRing(next', pid', n - 1, g)
  BY <1>10, <1>11, <1>12, <1>13, <1>14, <1>15, <1>16, Zenon DEF OneRing
<1>18. j \in 1 .. n - 1
  BY <1>4, <1>7, SMT
<1>. QED
  BY <1>6, <1>17, <1>18 DEF g

LEMMA RingedKept ==
    ASSUME Ringed, UNCHANGED <<pid, next>>
    PROVE  Ringed'
BY SMT DEF Ringed

LEMMA RingedStep == IInv /\ Ringed /\ [Next]_vars => Ringed'
<1>. SUFFICES ASSUME TypeOK, RingLinks, CursorLive, Ringed, [Next]_vars PROVE Ringed'
  BY Zenon DEF IInv
<1>1. ASSUME NEW t \in Slot \ {K}, HandleRequest(t) PROVE Ringed'
  <2>1. CASE ExecRuns(t)
    <3>1. PICK c \in Slot, p \in FirstPid .. FirstPid + MAX_TASK :
              FreeSlot(c) /\ (UNCHANGED <<pid, next>> \/ Link(c, p))
      BY <2>1, SMT DEF ExecRuns
    <3>2. p # 0
      BY FirstPidPositive, Constants, SMT
    <3>3. PICK n, f : OneRing(next, pid, n, f)
      BY Zenon DEF Ringed
    <3>4. CASE Link(c, p)
      <4>1. OneRing(next', pid', n + 1, Insert(n, f, c))
        BY <3>1, <3>2, <3>3, <3>4, LinkRinged, Zenon
      <4>. QED
        BY <4>1, Zenon DEF Ringed
    <3>. QED
      BY <3>1, <3>4, RingedKept, Zenon
  <2>2. CASE ~ ExecRuns(t)
    <3>1. UNCHANGED ring
      BY <1>1, <2>2, Zenon DEF HandleRequest, ExecFails, Kill, Wait, Bind, Recv, Send, Accept, Other
    <3>. QED
      BY <3>1, RingedKept, SMT DEF ring
  <2>. QED
    BY <2>1, <2>2
<1>2. CASE UNCHANGED ring
  BY <1>2, RingedKept, SMT DEF ring
<1>3. ASSUME NEW t \in Slot \ {K}, UserStep(t) PROVE UNCHANGED ring
  BY <1>3, Zenon DEF UserStep, Post, Sleep, Exit, Trap, Return
<1>4. ASSUME IpStep \/ Preempt \/ StartScan \/ EndScan \/ EndIp \/ KernelTrap PROVE UNCHANGED ring
  BY <1>4, Zenon DEF IpStep, Udp, Arp, Tcp, Preempt, StartScan, EndScan, EndIp, KernelTrap
<1>5. ASSUME NEW t \in Slot \ {K}, NoReq(t) \/ CountDown(t) PROVE UNCHANGED ring
  BY <1>5, Zenon DEF NoReq, CountDown
<1>6. CASE UNCHANGED vars
  BY <1>6, RingedKept, SMT DEF vars
<1>7. ASSUME NEW t \in Slot \ {K}, Detach(t) PROVE Ringed'
  <2>1. PICK n, f : OneRing(next, pid, n, f)
    BY Zenon DEF Ringed
  <2>2. \E j \in 1 .. n - 1 : OneRing(next', pid', n - 1, Remove(n, f, j))
    BY <1>7, <2>1, DetachRinged, Zenon
  <2>. QED
    BY <2>2, Zenon DEF Ringed
<1>. QED
  BY <1>1, <1>2, <1>3, <1>4, <1>5, <1>6, <1>7, Zenon DEF Next, ScanStep

\* There are no more used blocks than blocks.
LEMMA RingBound ==
    ASSUME NEW nx, NEW pd, NEW n, NEW f, OneRing(nx, pd, n, f)
    PROVE  n <= MAX_TASK
<1>1. /\ n \in Nat \ {0} /\ f \in [0 .. n - 1 -> Slot]
      /\ \A i, j \in 0 .. n - 1 : f[i] = f[j] => i = j
      /\ MAX_TASK \in Nat /\ MAX_TASK >= 2
  BY Constants, Zenon DEF OneRing
<1>2. f \in Injection(0 .. n - 1, 0 .. MAX_TASK - 1)
  BY <1>1, Zenon DEF Injection, IsInjective
<1>3. 0 \in Int /\ MAX_TASK - 1 \in Int /\ n - 1 \in Int
  BY <1>1, SMT
<1>4. /\ IsFiniteSet(0 .. MAX_TASK - 1)
      /\ Cardinality(0 .. MAX_TASK - 1) = IF 0 > MAX_TASK - 1 THEN 0 ELSE (MAX_TASK - 1) - 0 + 1
      /\ Cardinality(0 .. n - 1) = IF 0 > n - 1 THEN 0 ELSE (n - 1) - 0 + 1
  BY <1>3, FS_Interval, Zenon
<1>5. Cardinality(0 .. n - 1) <= Cardinality(0 .. MAX_TASK - 1)
  BY <1>2, <1>4, FS_Injection, Zenon
<1>. QED
  BY <1>1, <1>4, <1>5, SMT

\* A walk follows the list: from its k-th block on, as far as the list goes.
LEMMA AlongRing ==
    ASSUME NEW nx, NEW pd, NEW n, NEW f, OneRing(nx, pd, n, f),
           NEW k \in 0 .. n - 1, NEW m \in 0 .. (n - 1) - k
    PROVE  AlongOf(nx, f[k])[m] = f[k + m]
<1>. DEFINE w == AlongOf(nx, f[k])
            S == {i \in 0 .. (n - 1) - k : w[i] # f[k + i]}
<1>0. /\ n \in Nat \ {0} /\ MAX_TASK \in Nat /\ n <= MAX_TASK
      /\ \A i \in 0 .. n - 2 : nx[f[i]] = f[i + 1]
  <2>1. n <= MAX_TASK
    BY RingBound, Zenon
  <2>. QED
    BY <2>1, Constants, Zenon DEF OneRing
<1>a. w[0] = f[k] /\ \A i \in 1 .. MAX_TASK : w[i] = nx[w[i - 1]]
  <2>. HIDE DEF S
  <2>. QED
    BY AlongSteps
<1>. HIDE DEF w
<1>. SUFFICES ASSUME m \in S PROVE FALSE
  BY Zenon DEF w
<1>1. S \subseteq Nat
  BY <1>0, SMT
<1>2. PICK i \in S : \A y \in S : i <= y
  BY <1>1, LeastOf, Zenon
<1>3. i \in 0 .. (n - 1) - k /\ w[i] # f[k + i]
  BY <1>2, Zenon
<1>4. i # 0
  <2>1. k + 0 = k
    BY <1>0, SMT
  <2>. QED
    BY <1>a, <1>3, <2>1, Zenon
<1>5. /\ i - 1 \in 0 .. (n - 1) - k /\ k + (i - 1) \in 0 .. n - 2 /\ ~ (i <= i - 1)
      /\ i \in 1 .. MAX_TASK /\ (k + (i - 1)) + 1 = k + i
  BY <1>0, <1>3, <1>4, SMT
<1>6. w[i - 1] = f[k + (i - 1)]
  BY <1>2, <1>5, Zenon
<1>7. w[i] = nx[w[i - 1]]
  BY <1>a, <1>5, Zenon
<1>8. nx[f[k + (i - 1)]] = f[k + i]
  <2>1. nx[f[k + (i - 1)]] = f[(k + (i - 1)) + 1]
    BY <1>0, <1>5, Zenon
  <2>. QED
    BY <1>5, <2>1
<1>. QED
  BY <1>3, <1>6, <1>7, <1>8, Zenon

\* The used blocks form one ring, in every behaviour and for any number of
\* blocks: no task is lost to task_sw and to the scan, whatever is attached
\* and detached.
THEOREM ReachCorrect == Spec => []RingReaches
<1>1. ASSUME Ringed PROVE RingReaches
  <2>1. PICK n, f : OneRing(next, pid, n, f)
    BY <1>1, Zenon DEF Ringed
  <2>2. /\ n \in Nat \ {0} /\ f[0] = K /\ n <= MAX_TASK
        /\ \A t \in Slot : pid[t] # 0 <=> \E i \in 0 .. n - 1 : f[i] = t
    <3>1. n <= MAX_TASK
      BY <2>1, RingBound, Zenon
    <3>. QED
      BY <2>1, <3>1, Zenon DEF OneRing
  <2>3. Along(K) = AlongOf(next, K)
    BY Zenon DEF Along, AlongOf
  <2>4. ASSUME NEW t \in Slot, Live(t) PROVE \E i \in Slot : Along(K)[i] = t
    <3>1. PICK i \in 0 .. n - 1 : f[i] = t
      BY <2>2, <2>4, Zenon
    <3>2. i \in Slot /\ 0 \in 0 .. n - 1 /\ i \in 0 .. (n - 1) - 0 /\ 0 + i = i
      BY <2>2, Constants, SMT
    <3>3. AlongOf(next, f[0])[i] = f[0 + i]
      BY <2>1, <3>2, AlongRing
    <3>. QED
      BY <2>2, <2>3, <3>1, <3>2, <3>3
  <2>. QED
    BY <2>4, Zenon DEF RingReaches
<1>2. Spec => [](IInv /\ Ringed)
  BY InvInit, InvStep, RingedInit, RingedStep, PTL DEF Spec
<1>. QED
  BY <1>1, <1>2, PTL

-----------------------------------------------------------------------------
(* What a call returns, and the end of a task. *)

\* One task in a call: s is its state, n, q, d, r and c are its net_count,
\* req, done, retval and upc.
Told(s, n, q, d, r, c) ==
    /\ "REQ" \in s => n = 0 /\ "NET" \notin s /\ d = 0
    /\ "NET" \in s => n = 0 /\ q = "accept" /\ d = 0
    /\ n > 0 => q \in {"recv", "send"} /\ d = 0 /\ r = -1
    /\ c \in {"trap", "ret"} /\ "REQ" \notin s /\ "NET" \notin s /\ q \in {"recv", "send", "accept"}
         => (r = -1 <=> d = 0)
    /\ q = "send" => d <= 1

\* The task that has the CPU.
Runs(s, n, c) ==
    /\ n = 0 /\ "NET" \notin s
    /\ "REQ" \in s => c = "trap"
    /\ "EXIT" \in s => c = "exit"

TellsTrue ==
    \A u \in Slot \ {K} :
        /\ Live(u) => Told(state[u], net_count[u], req[u], done[u], retval[u], upc[u])
        /\ curtask = u => Runs(state[u], net_count[u], upc[u])
        /\ req[u] = "send" => done[u] <= 1

\* The calls of one task go on, those of the others stay as they are.
LEMMA TellsOne ==
    ASSUME TellsTrue, NEW t \in Slot \ {K},
           \A u \in Slot \ {K} : u # t =>
               /\ pid'[u] = pid[u] /\ state'[u] = state[u] /\ net_count'[u] = net_count[u]
               /\ req'[u] = req[u] /\ done'[u] = done[u] /\ retval'[u] = retval[u]
               /\ upc'[u] = upc[u] /\ curtask' # u,
           Live(t)' => Told(state[t], net_count[t], req[t], done[t], retval[t], upc[t])',
           curtask' = t => Runs(state[t], net_count[t], upc[t])',
           req'[t] = "send" => done'[t] <= 1
    PROVE  TellsTrue'
BY SMT DEF TellsTrue

LEMMA TellsPost ==
    ASSUME TypeOK, TellsTrue, NEW t \in Slot \ {K}, NEW c \in Call, NEW a, Post(t, c, a)
    PROVE  TellsTrue'
<1>1. /\ state \in [Slot -> SUBSET Flag] /\ net_count \in [Slot -> Nat] /\ upc' = [upc EXCEPT ![t] = "trap"]
      /\ req' = [req EXCEPT ![t] = c] /\ done' = [done EXCEPT ![t] = 0]
      /\ state' = [state EXCEPT ![t] = @ \cup {"REQ"}]
      /\ UNCHANGED <<pid, net_count, retval, curtask>>
      /\ curtask = t /\ upc[t] = "run"
  BY SMT DEF TypeOK, Post, User, ring
<1>2. req \in [Slot -> Call \cup {"none"}] /\ done \in [Slot -> Nat] /\ upc \in [Slot -> {"run", "trap", "nap", "ret", "exit", "gone"}]
  BY Zenon DEF TypeOK
<1>3. (Live(t) => Told(state[t], net_count[t], req[t], done[t], retval[t], upc[t])) /\ Runs(state[t], net_count[t], upc[t])
  BY <1>1, Zenon DEF TellsTrue
<1>4. state'[t] = state[t] \cup {"REQ"} /\ req'[t] = c /\ done'[t] = 0 /\ upc'[t] = "trap"
  BY <1>1, <1>2, SMT
<1>5. \A u \in Slot \ {K} : u # t =>
               /\ pid'[u] = pid[u] /\ state'[u] = state[u] /\ net_count'[u] = net_count[u]
               /\ req'[u] = req[u] /\ done'[u] = done[u] /\ retval'[u] = retval[u]
               /\ upc'[u] = upc[u] /\ curtask' # u
  BY <1>1, <1>2, SMT
<1>6. Live(t) => Told(state[t], net_count[t], req[t], done[t], retval[t], upc[t])'
  BY <1>1, <1>3, <1>4, SMT DEF Told, Runs
<1>7. Runs(state[t], net_count[t], upc[t])'
  BY <1>1, <1>3, <1>4, SMT DEF Runs
<1>8. req'[t] = "send" => done'[t] <= 1
  BY <1>4, SMT
<1>9. Live(t)' => Told(state[t], net_count[t], req[t], done[t], retval[t], upc[t])'
  BY <1>1, <1>6, SMT
<1>. QED
  BY <1>5, <1>7, <1>8, <1>9, TellsOne, Zenon

\* Steps that answer nobody: only bits that no call waits for change, and where
\* a task is in its stub.
Bits(u) == ("REQ" \in state'[u] <=> "REQ" \in state[u]) /\ ("NET" \in state'[u] <=> "NET" \in state[u])

LEMMA TellsQuiet ==
    ASSUME TellsTrue, UNCHANGED <<net_count, req, done, retval>>,
           \A u \in Slot \ {K} : Bits(u) /\ (Live(u)' => Live(u)),
           \A u \in Slot \ {K} : upc'[u] \in {"trap", "ret"} => upc[u] \in {"trap", "ret"},
           \A u \in Slot \ {K} : curtask' = u => Runs(state'[u], net_count'[u], upc'[u])
    PROVE  TellsTrue'
<1>. SUFFICES ASSUME NEW u \in Slot \ {K}
              PROVE  Live(u)' => Told(state'[u], net_count'[u], req'[u], done'[u], retval'[u], upc'[u])
  BY Zenon DEF TellsTrue
<1>. QED
  BY SMT DEF Told, Bits, TellsTrue

\* A task that gets the CPU has no call pending.
LEMMA SwitchRuns ==
    ASSUME Switch, UNCHANGED <<state, net_count>>, NEW u, curtask' = u
    PROVE  state'[u] = {} /\ Runs(state'[u], net_count'[u], upc'[u])
BY SMT DEF Switch, Runnable, Runs

LEMMA TellsUser ==
    ASSUME TypeOK, TellsTrue, NEW t \in Slot \ {K}, UserStep(t)
    PROVE  TellsTrue'
<1>0. upc \in [Slot -> {"run", "trap", "nap", "ret", "exit", "gone"}] /\ state \in [Slot -> SUBSET Flag]
  BY Zenon DEF TypeOK
<1>1. ASSUME NEW c \in Call, NEW a, Post(t, c, a)
      PROVE  TellsTrue'
  BY <1>1, TellsPost, Zenon
<1>2. ASSUME NEW n, Sleep(t, n)
      PROVE  TellsTrue'
  <2>1. /\ UNCHANGED <<pid, state, net_count, req, done, retval, curtask>>
        /\ upc' = [upc EXCEPT ![t] = "nap"] /\ upc[t] = "run" /\ curtask = t
    BY <1>2, SMT DEF Sleep, User, ring, call
  <2>2. Runs(state[t], net_count[t], "run")
    BY <2>1, Zenon DEF TellsTrue
  <2>3. Runs(state'[t], net_count'[t], upc'[t])
    BY <1>0, <2>1, <2>2, SMT DEF Runs
  <2>. QED
    BY <1>0, <2>1, <2>3, TellsQuiet, SMT DEF Bits
<1>3. ASSUME Exit(t)
      PROVE  TellsTrue'
  <2>1. /\ UNCHANGED <<pid, net_count, req, done, retval, curtask>>
        /\ state' = [state EXCEPT ![t] = @ \cup {"EXIT"}]
        /\ upc' = [upc EXCEPT ![t] = "exit"] /\ upc[t] = "run" /\ curtask = t
    BY <1>3, SMT DEF Exit, User, ring, call
  <2>2. Runs(state[t], net_count[t], "run")
    BY <2>1, Zenon DEF TellsTrue
  <2>3. Runs(state'[t], net_count'[t], upc'[t])
    BY <1>0, <2>1, <2>2, SMT DEF Runs
  <2>4. \A u \in Slot \ {K} : Bits(u) /\ (Live(u)' => Live(u))
    BY <1>0, <2>1, SMT DEF Bits
  <2>5. /\ \A u \in Slot \ {K} : upc'[u] \in {"trap", "ret"} => upc[u] \in {"trap", "ret"}
        /\ \A u \in Slot \ {K} : curtask' = u => u = t
    BY <1>0, <2>1, SMT
  <2>6. \A u \in Slot \ {K} : curtask' = u => Runs(state'[u], net_count'[u], upc'[u])
    BY <2>3, <2>5, Zenon
  <2>. QED
    BY <2>1, <2>4, <2>5, <2>6, TellsQuiet, Zenon
<1>4. ASSUME Trap(t)
      PROVE  TellsTrue'
  <2>1. /\ UNCHANGED <<pid, state, net_count, req, done, retval>> /\ Switch
        /\ upc' = [upc EXCEPT ![t] =
                      CASE @ = "trap" -> "ret" [] @ = "nap" -> "run" [] OTHER -> "gone"]
    BY <1>4, SMT DEF Trap, ring, call
  <2>2. \A u \in Slot \ {K} : upc'[u] \in {"trap", "ret"} => upc[u] \in {"trap", "ret"}
    BY <1>0, <2>1, SMT
  <2>3. \A u \in Slot \ {K} : curtask' = u => Runs(state'[u], net_count'[u], upc'[u])
    BY <2>1, SwitchRuns, SMT
  <2>. QED
    BY <2>1, <2>2, <2>3, TellsQuiet, SMT DEF Bits
<1>5. ASSUME Return(t)
      PROVE  TellsTrue'
  <2>1. /\ UNCHANGED <<pid, state, net_count, req, done, retval, curtask>>
        /\ upc' = [upc EXCEPT ![t] = "run"] /\ upc[t] = "ret" /\ curtask = t
    BY <1>5, SMT DEF Return, User, ring, call
  <2>2. Runs(state[t], net_count[t], "ret")
    BY <2>1, Zenon DEF TellsTrue
  <2>3. Runs(state'[t], net_count'[t], upc'[t])
    BY <1>0, <2>1, <2>2, SMT DEF Runs
  <2>. QED
    BY <1>0, <2>1, <2>3, TellsQuiet, SMT DEF Bits
<1>. QED
  <2>1. CASE \E c \in {"kill", "wait"}, a \in PIDS : Post(t, c, a)
    <3>1. PICK c \in Call, a \in PIDS : Post(t, c, a)
      BY <2>1, Zenon DEF Call
    <3>. QED
      BY <1>1, <3>1
  <2>2. CASE \E c \in Call \ {"kill", "wait"} : Post(t, c, 0)
    BY <1>1, <2>2
  <2>. QED
    BY <1>2, <1>3, <1>4, <1>5, <2>1, <2>2, Zenon DEF UserStep

\* The kernel answers t; the others keep what their calls depend on.
LEMMA TellsKernel ==
    ASSUME TellsTrue, NEW t \in Slot \ {K}, Live(t), curtask' = K, req' = req,
           \A u \in Slot \ {K} : u # t /\ Live(u)' =>
               \/ Told(state'[u], net_count'[u], req'[u], done'[u], retval'[u], upc'[u])
               \/ /\ Live(u) /\ Bits(u) /\ upc'[u] = upc[u]
                  /\ net_count'[u] = net_count[u] /\ retval'[u] = retval[u],
           \A u \in Slot \ {K} : u # t => done'[u] = done[u],
           Told(state'[t], net_count'[t], req'[t], done'[t], retval'[t], upc'[t])
    PROVE  TellsTrue'
<1>1. \A u \in Slot \ {K} : curtask' # u
  BY SMT
<1>2. ASSUME NEW u \in Slot \ {K}, Live(u)'
      PROVE  Told(state'[u], net_count'[u], req'[u], done'[u], retval'[u], upc'[u])
  <2>1. CASE u = t
    BY <2>1
  <2>2. CASE u # t
    <3>1. CASE Live(u)
      <4>1. Told(state[u], net_count[u], req[u], done[u], retval[u], upc[u])
        BY <2>2, <3>1, SMT DEF TellsTrue
      <4>2. /\ Bits(u) /\ net_count'[u] = net_count[u] /\ retval'[u] = retval[u]
            /\ upc'[u] = upc[u] /\ done'[u] = done[u] /\ req'[u] = req[u]
            => Told(state'[u], net_count'[u], req'[u], done'[u], retval'[u], upc'[u])
        BY <4>1, SMT DEF Told, Bits
      <4>. QED
        BY <1>2, <2>2, <4>2, Zenon
    <3>2. CASE ~Live(u)
      BY <1>2, <2>2, <3>2, Zenon
    <3>. QED
      BY <3>1, <3>2
  <2>. QED
    BY <2>1, <2>2
<1>3. ASSUME NEW u \in Slot \ {K}, req'[u] = "send"
      PROVE  done'[u] <= 1
  BY <1>3, SMT DEF TellsTrue, Told
<1>. QED
  BY <1>1, <1>2, <1>3, Zenon DEF TellsTrue

\* What holds of the caller when its request is taken up.
LEMMA Asked ==
    ASSUME TellsTrue, NEW t \in Slot \ {K}, Live(t), "REQ" \in state[t]
    PROVE  net_count[t] = 0 /\ "NET" \notin state[t] /\ done[t] = 0
BY SMT DEF TellsTrue, Told

\* recvfrom and sendto.
LEMMA TellsRecv ==
    ASSUME TypeOK, TellsTrue, NEW t \in Slot \ {K}, Live(t), "REQ" \in state[t],
           (Recv(t) /\ req[t] = "recv") \/ (Send(t) /\ req[t] = "send"),
           curtask' = K, UNCHANGED call
    PROVE  TellsTrue'
<1>1. /\ state \in [Slot -> SUBSET Flag] /\ net_count \in [Slot -> Nat] /\ retval \in [Slot -> Int]
      /\ done \in [Slot -> Nat] /\ sock_packet \in Nat /\ t \in Slot
  BY Zenon DEF TypeOK
<1>2. /\ state' = [state EXCEPT ![t] = @ \ {"REQ"}]
      /\ UNCHANGED <<pid, upc, req>>
  BY SMT DEF Recv, Send, Clear, call, ring
<1>3. \/ /\ net_count' = net_count /\ retval' = [retval EXCEPT ![t] = 1]
         /\ req[t] = "recv" /\ sock_packet # 0 /\ done' = [done EXCEPT ![t] = sock_packet]
      \/ /\ net_count' = [net_count EXCEPT ![t] = 0] /\ retval' = [retval EXCEPT ![t] = 1]
         /\ req[t] = "send" /\ done' = [done EXCEPT ![t] = @ + 1]
      \/ /\ \E n \in {0, NET_COUNT} : net_count' = [net_count EXCEPT ![t] = n]
         /\ retval' = [retval EXCEPT ![t] = -1]
         /\ req[t] \in {"recv", "send"} /\ done' = done
  <2>1. CASE Recv(t) /\ req[t] = "recv"
    BY <2>1, SMT DEF Recv, Answer
  <2>2. CASE Send(t) /\ req[t] = "send"
    BY <2>2, SMT DEF Send, UdpSend, Answer
  <2>. QED
    BY <2>1, <2>2
<1>4. net_count[t] = 0 /\ "NET" \notin state[t] /\ done[t] = 0
  BY Asked
<1>5. /\ \/ net_count'[t] = 0 /\ retval'[t] = 1 /\ done'[t] # 0 /\ (req[t] = "send" => done'[t] = 1)
            /\ req[t] \in {"recv", "send"}
         \/ retval'[t] = -1 /\ done'[t] = 0 /\ req[t] \in {"recv", "send"}
      /\ \A u \in Slot \ {K} : u # t => /\ net_count'[u] = net_count[u] /\ retval'[u] = retval[u]
                                       /\ done'[u] = done[u]
  <2>1. CASE /\ net_count' = net_count /\ retval' = [retval EXCEPT ![t] = 1]
             /\ req[t] = "recv" /\ sock_packet # 0 /\ done' = [done EXCEPT ![t] = sock_packet]
    BY <1>1, <1>4, <2>1, SMT
  <2>2. CASE /\ net_count' = [net_count EXCEPT ![t] = 0] /\ retval' = [retval EXCEPT ![t] = 1]
             /\ req[t] = "send" /\ done' = [done EXCEPT ![t] = @ + 1]
    BY <1>1, <1>4, <2>2, SMT
  <2>3. CASE /\ \E n \in {0, NET_COUNT} : net_count' = [net_count EXCEPT ![t] = n]
             /\ retval' = [retval EXCEPT ![t] = -1]
             /\ req[t] \in {"recv", "send"} /\ done' = done
    BY <1>1, <1>4, <2>3, SMT
  <2>. QED
    BY <1>3, <2>1, <2>2, <2>3, Zenon
<1>6. Told(state'[t], net_count'[t], req'[t], done'[t], retval'[t], upc'[t])
  <2>1. state'[t] = state[t] \ {"REQ"} /\ req'[t] = req[t]
    BY <1>1, <1>2, SMT
  <2>. QED
    BY <1>4, <1>5, <2>1, SMT DEF Told
<1>7. \A u \in Slot \ {K} : u # t =>
          /\ Live(u)' => Live(u)
          /\ Bits(u) /\ upc'[u] = upc[u] /\ net_count'[u] = net_count[u] /\ retval'[u] = retval[u]
          /\ done'[u] = done[u]
  <2>1. \A u \in Slot \ {K} : u # t => Bits(u) /\ upc'[u] = upc[u] /\ (Live(u)' => Live(u))
    BY <1>1, <1>2, SMT DEF Bits
  <2>. QED
    BY <1>5, <2>1, Zenon
<1>8. req' = req
  BY <1>2
<1>. QED
  BY <1>6, <1>7, <1>8, TellsKernel, Zenon

\* Requests that are answered without a look at the net.
LEMMA TellsOther ==
    ASSUME TypeOK, TellsTrue, NEW t \in Slot \ {K}, Live(t), "REQ" \in state[t],
           curtask' = K, UNCHANGED <<pid, upc, req, net_count, done>>,
           NEW v \in Int, retval' = [retval EXCEPT ![t] = v],
           \/ state' = [state EXCEPT ![t] = @ \ {"REQ"}]
           \/ state' = [state EXCEPT ![t] = (@ \ {"REQ"}) \cup {"WAIT"}]
           \/ \E w \in Slot : state' = [u \in Slot |-> (state[u] \ (IF u = t THEN {"REQ"} ELSE {}))
                                                           \cup (IF u = w THEN {"EXIT"} ELSE {})],
           req[t] \in {"recv", "send", "accept"} => v = -1
    PROVE  TellsTrue'
<1>1. /\ state \in [Slot -> SUBSET Flag] /\ retval \in [Slot -> Int] /\ t \in Slot
  BY Zenon DEF TypeOK
<1>2. net_count[t] = 0 /\ "NET" \notin state[t] /\ done[t] = 0
  BY Asked
<1>3. /\ "REQ" \notin state'[t] /\ "NET" \notin state'[t] /\ retval'[t] = v
      /\ \A u \in Slot \ {K} : u # t => Bits(u) /\ retval'[u] = retval[u]
  <2>1. retval'[t] = v /\ \A u \in Slot \ {K} : u # t => retval'[u] = retval[u]
    BY <1>1, SMT
  <2>2. ASSUME NEW w \in Slot,
               state' = [u \in Slot |-> (state[u] \ (IF u = t THEN {"REQ"} ELSE {}))
                                           \cup (IF u = w THEN {"EXIT"} ELSE {})]
        PROVE  /\ "REQ" \notin state'[t] /\ "NET" \notin state'[t]
               /\ \A u \in Slot \ {K} : u # t => Bits(u)
    BY <1>1, <1>2, <2>2, SMT DEF Bits
  <2>3. CASE state' = [state EXCEPT ![t] = @ \ {"REQ"}]
    BY <1>1, <1>2, <2>3, SMT DEF Bits
  <2>4. CASE state' = [state EXCEPT ![t] = (@ \ {"REQ"}) \cup {"WAIT"}]
    BY <1>1, <1>2, <2>4, SMT DEF Bits
  <2>. QED
    BY <2>1, <2>2, <2>3, <2>4
<1>4. Told(state'[t], net_count'[t], req'[t], done'[t], retval'[t], upc'[t])
  BY <1>2, <1>3, SMT DEF Told
<1>5. req' = req /\ \A u \in Slot : u # t => /\ Live(u)' => Live(u)
                                            /\ upc'[u] = upc[u] /\ net_count'[u] = net_count[u]
                                            /\ done'[u] = done[u]
  BY SMT
<1>. QED
  BY <1>3, <1>4, <1>5, TellsKernel, Zenon

LEMMA TellsAccept ==
    ASSUME TypeOK, TellsTrue, NEW t \in Slot \ {K}, Live(t), "REQ" \in state[t], req[t] = "accept",
           Accept(t), curtask' = K, UNCHANGED call
    PROVE  TellsTrue'
<1>1. UNCHANGED <<pid, upc, req, net_count, done>>
  BY SMT DEF Accept, call, ring
<1>2. CASE Clear(t) /\ Answer(t, -1)
  <2>1. /\ state' = [state EXCEPT ![t] = @ \ {"REQ"}]
        /\ retval' = [retval EXCEPT ![t] = -1]
    BY <1>2, Zenon DEF Clear, Answer
  <2>2. -1 \in Int /\ pid' = pid /\ upc' = upc /\ req' = req /\ net_count' = net_count /\ done' = done
    BY <1>1, SMT
  <2>. QED
    BY <2>1, <2>2, TellsOther, Zenon
<1>3. ASSUME state' = [state EXCEPT ![t] = (@ \ {"REQ"}) \cup {"NET"}], NEW v \in {-1, 0, 1}, Answer(t, v)
      PROVE  TellsTrue'
  <2>1. state \in [Slot -> SUBSET Flag] /\ retval \in [Slot -> Int] /\ t \in Slot
    BY Zenon DEF TypeOK
  <2>2. net_count[t] = 0 /\ done[t] = 0
    BY Asked
  <2>3. /\ "REQ" \notin state'[t] /\ "NET" \in state'[t]
        /\ \A u \in Slot \ {K} : u # t => Bits(u) /\ retval'[u] = retval[u]
    BY <1>3, <2>1, SMT DEF Bits, Answer
  <2>4. Told(state'[t], net_count'[t], req'[t], done'[t], retval'[t], upc'[t])
    BY <1>1, <2>2, <2>3, SMT DEF Told
  <2>5. req' = req /\ \A u \in Slot : u # t => /\ Live(u)' => Live(u)
                                              /\ upc'[u] = upc[u] /\ net_count'[u] = net_count[u]
                                              /\ done'[u] = done[u]
    BY <1>1, SMT
  <2>. QED
    BY <2>3, <2>4, <2>5, TellsKernel, Zenon
<1>. QED
  BY <1>2, <1>3, Zenon DEF Accept

LEMMA TellsExec ==
    ASSUME TypeOK, TellsTrue, NEW t \in Slot \ {K}, Live(t), "REQ" \in state[t], req[t] = "exec",
           ExecRuns(t), curtask' = K, UNCHANGED call
    PROVE  TellsTrue'
<1>1. PICK c \in Slot, p \in FirstPid .. FirstPid + MAX_TASK :
          /\ FreeSlot(c)
          /\ \/ /\ Clear(t) /\ Answer(t, -1)
                /\ UNCHANGED <<pid, next, prev, wait_pid, count, net_count, upc>>
             \/ /\ Link(c, p)
                /\ state' = [state EXCEPT ![t] = @ \ {"REQ"}, ![c] = {}]
                /\ Answer(t, p)
          /\ UNCHANGED <<net, done>>
  BY Zenon DEF ExecRuns
<1>2. req' = req /\ done' = done
  BY <1>1, SMT DEF call
<1>3. CASE Clear(t) /\ Answer(t, -1) /\ UNCHANGED <<pid, next, prev, wait_pid, count, net_count, upc>>
  <2>1. /\ state' = [state EXCEPT ![t] = @ \ {"REQ"}]
        /\ retval' = [retval EXCEPT ![t] = -1]
    BY <1>3, Zenon DEF Clear, Answer
  <2>2. -1 \in Int /\ pid' = pid /\ upc' = upc /\ net_count' = net_count
    BY <1>3, SMT
  <2>3. req[t] \in {"recv", "send", "accept"} => -1 = -1
    OBVIOUS
  <2>. QED
    BY <1>2, <2>1, <2>2, <2>3, TellsOther, Zenon
<1>4. CASE Link(c, p) /\ state' = [state EXCEPT ![t] = @ \ {"REQ"}, ![c] = {}] /\ Answer(t, p)
  <2>1. /\ state \in [Slot -> SUBSET Flag] /\ retval \in [Slot -> Int] /\ t \in Slot
        /\ net_count \in [Slot -> Nat] /\ pid \in [Slot -> Nat]
        /\ upc \in [Slot -> {"run", "trap", "nap", "ret", "exit", "gone"}]
    BY Zenon DEF TypeOK
  <2>2. c # t
    BY <1>1, SMT DEF FreeSlot
  <2>3. /\ pid' = [pid EXCEPT ![c] = p] /\ net_count' = [net_count EXCEPT ![c] = 0]
        /\ upc' = [upc EXCEPT ![c] = "run"] /\ retval' = [retval EXCEPT ![t] = p]
    BY <1>4, Zenon DEF Link, Answer
  <2>4. net_count[t] = 0 /\ "NET" \notin state[t] /\ done[t] = 0
    BY Asked
  <2>5. /\ state'[t] = state[t] \ {"REQ"} /\ net_count'[t] = 0
        /\ state'[c] = {} /\ net_count'[c] = 0 /\ upc'[c] = "run"
    BY <1>4, <2>1, <2>2, <2>3, <2>4, SMT
  <2>6. Told(state'[t], net_count'[t], req'[t], done'[t], retval'[t], upc'[t])
    BY <1>2, <2>4, <2>5, SMT DEF Told
  <2>7. c \in Slot \ {K} => Told(state'[c], net_count'[c], req'[c], done'[c], retval'[c], upc'[c])
    BY <1>2, <2>5, SMT DEF Told, TellsTrue
  <2>8. \A u \in Slot \ {K} : u # t /\ u # c /\ Live(u)' =>
            /\ Live(u) /\ Bits(u) /\ upc'[u] = upc[u]
            /\ net_count'[u] = net_count[u] /\ retval'[u] = retval[u]
    BY <1>4, <2>1, <2>3, SMT DEF Bits
  <2>9. \A u \in Slot \ {K} : u # t => done'[u] = done[u]
    BY <1>2
  <2>. QED
    BY <1>2, <2>6, <2>7, <2>8, <2>9, TellsKernel, Zenon
<1>. QED
  BY <1>1, <1>3, <1>4, Zenon

LEMMA TellsRequest ==
    ASSUME TypeOK, CursorLive, TellsTrue, NEW t \in Slot \ {K}, HandleRequest(t)
    PROVE  TellsTrue'
<1>1. /\ Live(t) /\ "REQ" \in state[t] /\ curtask' = K /\ UNCHANGED call /\ req' = req
  BY SMT DEF HandleRequest, At, CursorLive, call
\* The answers that leave all but the caller's retval and the bits alone.
<1>2. ASSUME ExecFails(t) \/ Kill(t) \/ Wait(t) \/ Bind(t) \/ Other(t),
             req[t] \notin {"recv", "send", "accept"}
      PROVE  TellsTrue'
  <2>1. /\ pid' = pid /\ upc' = upc /\ net_count' = net_count /\ done' = done
    BY <1>2, SMT DEF ExecFails, Kill, Wait, Bind, Other, ring
  <2>2. \E v \in {-1, 0} : Answer(t, v)
    BY <1>2, SMT DEF ExecFails, Kill, Wait, Bind, Other
  <2>3. PICK v \in {-1, 0} : retval' = [retval EXCEPT ![t] = v]
    BY <2>2, Zenon DEF Answer
  <2>4. v \in Int
    BY SMT
  <2>5. \/ state' = [state EXCEPT ![t] = @ \ {"REQ"}]
        \/ state' = [state EXCEPT ![t] = (@ \ {"REQ"}) \cup {"WAIT"}]
        \/ \E w \in Slot : state' = [u \in Slot |-> (state[u] \ (IF u = t THEN {"REQ"} ELSE {}))
                                                           \cup (IF u = w THEN {"EXIT"} ELSE {})]
    <3>1. CASE Kill(t)
      BY <3>1, Zenon DEF Kill, Clear
    <3>2. CASE ExecFails(t) \/ Wait(t) \/ Bind(t) \/ Other(t)
      BY <3>2, Zenon DEF ExecFails, Wait, Bind, Other, Clear
    <3>. QED
      BY <1>2, <3>1, <3>2, Zenon
  <2>6. req[t] \in {"recv", "send", "accept"} => v = -1
    BY <1>2
  <2>7. UNCHANGED <<pid, upc, req, net_count, done>>
    BY <1>1, <2>1, SMT
  <2>. QED
    BY <1>1, <2>3, <2>4, <2>5, <2>6, <2>7, TellsOther, Zenon
<1>3. CASE req[t] = "exec"
  <2>1. ExecFails(t) \/ ExecRuns(t)
    BY <1>3, SMT DEF HandleRequest
  <2>2. req[t] \notin {"recv", "send", "accept"}
    BY <1>3, SMT
  <2>. QED
    BY <1>1, <1>2, <1>3, <2>1, <2>2, TellsExec, Zenon
<1>4. CASE req[t] \in {"recv", "send"}
  <2>1. (Recv(t) /\ req[t] = "recv") \/ (Send(t) /\ req[t] = "send")
    BY <1>4, SMT DEF HandleRequest
  <2>. QED
    BY <1>1, <2>1, TellsRecv, Zenon
<1>5. CASE req[t] = "accept"
  <2>1. Accept(t)
    BY <1>5, SMT DEF HandleRequest
  <2>. QED
    BY <1>1, <1>5, <2>1, TellsAccept, Zenon
<1>6. CASE req[t] \notin {"exec", "recv", "send", "accept"}
  <2>1. Kill(t) \/ Wait(t) \/ Bind(t) \/ Other(t)
    BY <1>6, SMT DEF HandleRequest
  <2>. QED
    BY <1>2, <1>6, <2>1, SMT
<1>. QED
  BY <1>3, <1>4, <1>5, <1>6, SMT

\* net_count-- and net_request.
LEMMA TellsCount ==
    ASSUME TypeOK, CursorLive, TellsTrue, NEW t \in Slot \ {K}, CountDown(t)
    PROVE  TellsTrue'
<1>1. /\ Live(t) /\ curtask' = K /\ UNCHANGED <<pid, state, req, upc>>
  BY SMT DEF CountDown, CursorLive, call, ring
<1>2. /\ net_count \in [Slot -> Nat] /\ retval \in [Slot -> Int] /\ done \in [Slot -> Nat] /\ t \in Slot
  BY Zenon DEF TypeOK
<1>3. Told(state[t], net_count[t], req[t], done[t], retval[t], upc[t])
  BY <1>1, Zenon DEF TellsTrue
<1>4. \/ UNCHANGED <<net_count, retval, done>>
      \/ /\ net_count[t] # 0 /\ req[t] = "send" /\ net_count' = [net_count EXCEPT ![t] = 0]
         /\ done' = [done EXCEPT ![t] = @ + 1] /\ retval' = [retval EXCEPT ![t] = 1]
      \/ /\ net_count[t] # 0
         /\ \E n \in {0, net_count[t] - 1} : net_count' = [net_count EXCEPT ![t] = n]
         /\ retval' = [retval EXCEPT ![t] = -1] /\ done' = done
  BY SMT DEF CountDown, NetRequest, UdpSend
<1>5. /\ Told(state'[t], net_count'[t], req'[t], done'[t], retval'[t], upc'[t])
      /\ \A u \in Slot \ {K} : u # t => /\ net_count'[u] = net_count[u] /\ retval'[u] = retval[u]
                                       /\ done'[u] = done[u]
  <2>1. CASE UNCHANGED <<net_count, retval, done>>
    BY <1>1, <1>3, <2>1, SMT
  <2>2. CASE /\ net_count[t] # 0 /\ req[t] = "send" /\ net_count' = [net_count EXCEPT ![t] = 0]
             /\ done' = [done EXCEPT ![t] = @ + 1] /\ retval' = [retval EXCEPT ![t] = 1]
    <3>1. net_count'[t] = 0 /\ done'[t] = done[t] + 1 /\ retval'[t] = 1 /\ net_count[t] > 0
      BY <1>2, <2>2, SMT
    <3>2. Told(state'[t], net_count'[t], req'[t], done'[t], retval'[t], upc'[t])
      BY <1>1, <1>3, <2>2, <3>1, SMT DEF Told
    <3>. QED
      BY <1>2, <2>2, <3>2, SMT
  <2>3. CASE /\ net_count[t] # 0
             /\ \E n \in {0, net_count[t] - 1} : net_count' = [net_count EXCEPT ![t] = n]
             /\ retval' = [retval EXCEPT ![t] = -1] /\ done' = done
    <3>1. net_count'[t] \in Nat /\ retval'[t] = -1 /\ done'[t] = done[t] /\ net_count[t] > 0
      BY <1>2, <2>3, SMT
    <3>2. Told(state'[t], net_count'[t], req'[t], done'[t], retval'[t], upc'[t])
      BY <1>1, <1>3, <3>1, SMT DEF Told
    <3>. QED
      BY <1>2, <2>3, <3>2, SMT
  <2>. QED
    BY <1>4, <2>1, <2>2, <2>3
<1>6. \A u \in Slot \ {K} : /\ Bits(u) /\ upc'[u] = upc[u] /\ (Live(u)' => Live(u))
  BY <1>1, SMT DEF Bits
<1>7. req' = req
  BY <1>1
<1>. QED
  BY <1>1, <1>5, <1>6, <1>7, TellsKernel, Zenon

\* A datagram or a connection is handed to the task that waits for it.
LEMMA TellsUdp ==
    ASSUME TypeOK, TellsTrue, Udp
    PROVE  TellsTrue'
<1>1. curtask' = K /\ UNCHANGED <<pid, state, req, upc>>
  BY SMT DEF Udp, call, ring
<1>2. CASE UNCHANGED <<net_count, retval, done>>
  BY <1>1, <1>2, TellsQuiet, SMT DEF Bits
<1>3. ASSUME NEW u \in Slot, TaskWith(sock_id, u), sock_id # 0, InRecv(u),
             net_count' = [net_count EXCEPT ![u] = 0],
             retval' = [retval EXCEPT ![u] = 1], done' = [done EXCEPT ![u] = pkts + 1]
      PROVE  TellsTrue'
  <2>1. /\ net_count \in [Slot -> Nat] /\ retval \in [Slot -> Int] /\ done \in [Slot -> Nat]
        /\ pkts \in Nat
    BY Zenon DEF TypeOK
  <2>2. /\ net_count'[u] = 0 /\ retval'[u] = 1 /\ done'[u] # 0 /\ req[u] = "recv" /\ net_count[u] > 0
        /\ \A v \in Slot \ {K} : v # u => /\ net_count'[v] = net_count[v] /\ retval'[v] = retval[v]
                                         /\ done'[v] = done[v]
    BY <1>3, <2>1, SMT DEF InRecv
  <2>3. \A v \in Slot \ {K} : Bits(v) /\ upc'[v] = upc[v] /\ (Live(v)' => Live(v))
    BY <1>1, SMT DEF Bits
  <2>4. CASE u = K
    BY <1>1, <2>2, <2>3, <2>4, SMT DEF TellsTrue
  <2>5. CASE u # K
    <3>1. pid[u] = sock_id /\ u \in Slot \ {K} /\ Live(u) /\ req' = req
      BY <1>1, <1>3, <2>5, SMT DEF TaskWith, FirstWith
    <3>2. Told(state[u], net_count[u], req[u], done[u], retval[u], upc[u])
      BY <3>1, Zenon DEF TellsTrue
    <3>3. Told(state'[u], net_count'[u], req'[u], done'[u], retval'[u], upc'[u])
      BY <1>1, <2>2, <3>2, SMT DEF Told
    <3>. QED
      BY <1>1, <2>2, <2>3, <3>1, <3>3, TellsKernel, Zenon
  <2>. QED
    BY <2>4, <2>5
<1>. QED
  BY <1>2, <1>3, Zenon DEF Udp, Deliver

LEMMA TellsTcp ==
    ASSUME TypeOK, TellsTrue, NEW u \in Slot \ {K}, Tcp(u)
    PROVE  TellsTrue'
<1>1. /\ curtask' = K /\ UNCHANGED <<pid, req, upc, net_count>>
      /\ Live(u) /\ "NET" \in state[u] /\ req[u] = "accept"
      /\ state' = [state EXCEPT ![u] = @ \ {"NET"}]
      /\ \/ retval' = [retval EXCEPT ![u] = 1] /\ done' = [done EXCEPT ![u] = 1]
         \/ retval' = [retval EXCEPT ![u] = -1] /\ done' = done
  BY SMT DEF Tcp, call, ring
<1>2. /\ state \in [Slot -> SUBSET Flag] /\ retval \in [Slot -> Int] /\ done \in [Slot -> Nat]
      /\ u \in Slot
  BY Zenon DEF TypeOK
<1>3. Told(state[u], net_count[u], req[u], done[u], retval[u], upc[u])
  BY <1>1, Zenon DEF TellsTrue
<1>4. done[u] = 0 /\ net_count[u] = 0 /\ "REQ" \notin state[u]
  BY <1>1, <1>3, SMT DEF Told
<1>5. /\ \/ retval'[u] = 1 /\ done'[u] = 1
         \/ retval'[u] = -1 /\ done'[u] = 0
      /\ \A v \in Slot \ {K} : v # u => retval'[v] = retval[v] /\ done'[v] = done[v]
  <2>1. CASE retval' = [retval EXCEPT ![u] = 1] /\ done' = [done EXCEPT ![u] = 1]
    BY <1>2, <2>1, SMT
  <2>2. CASE retval' = [retval EXCEPT ![u] = -1] /\ done' = done
    BY <1>2, <1>4, <2>2, SMT
  <2>. QED
    BY <1>1, <2>1, <2>2
<1>6. state'[u] = state[u] \ {"NET"} /\ \A v \in Slot \ {K} : v # u => Bits(v)
  BY <1>1, <1>2, SMT DEF Bits
<1>7. Told(state'[u], net_count'[u], req'[u], done'[u], retval'[u], upc'[u])
  BY <1>1, <1>4, <1>5, <1>6, SMT DEF Told
<1>8. \A v \in Slot \ {K} : v # u /\ Live(v)' => /\ Live(v) /\ Bits(v) /\ upc'[v] = upc[v]
                                                  /\ net_count'[v] = net_count[v] /\ retval'[v] = retval[v]
  BY <1>1, <1>5, <1>6, SMT
<1>9. req' = req
  BY <1>1
<1>. QED
  BY <1>1, <1>5, <1>7, <1>8, <1>9, TellsKernel, Zenon

LEMMA TellsInit == Init => TellsTrue
BY SMT DEF Init, TellsTrue, Told

LEMMA TellsStep == IInv /\ TellsTrue /\ [Next]_vars => TellsTrue'
<1>. SUFFICES ASSUME TypeOK, CursorLive, TellsTrue, [Next]_vars PROVE TellsTrue'
  BY Zenon DEF IInv
<1>1. ASSUME NEW t \in Slot \ {K}, UserStep(t) PROVE TellsTrue'
  BY <1>1, TellsUser, Zenon
<1>2. ASSUME NEW t \in Slot \ {K}, HandleRequest(t) PROVE TellsTrue'
  BY <1>2, TellsRequest, Zenon
<1>3. ASSUME NEW t \in Slot \ {K}, CountDown(t) PROVE TellsTrue'
  BY <1>3, TellsCount, Zenon
<1>4. ASSUME NEW u \in Slot \ {K}, Tcp(u) PROVE TellsTrue'
  BY <1>4, TellsTcp, Zenon
<1>5. CASE Udp
  BY <1>5, TellsUdp, Zenon
\* Steps of the kernel that answer nobody.
<1>6. CASE StartScan \/ EndScan \/ EndIp \/ Arp \/ \E t \in Slot \ {K} : NoReq(t)
  <2>1. curtask' = K /\ UNCHANGED <<pid, state, net_count, req, done, retval, upc>>
    BY <1>6, SMT DEF StartScan, EndScan, EndIp, Arp, NoReq, At, call, ring
  <2>. QED
    BY <2>1, TellsQuiet, SMT DEF Bits
<1>7. CASE Preempt \/ KernelTrap
  <2>1. Switch /\ UNCHANGED <<pid, state, net_count, req, done, retval, upc>>
    BY <1>7, SMT DEF Preempt, KernelTrap, call, ring
  <2>2. \A u \in Slot \ {K} : curtask' = u => Runs(state'[u], net_count'[u], upc'[u])
    BY <2>1, SwitchRuns, SMT
  <2>. QED
    BY <2>1, <2>2, TellsQuiet, SMT DEF Bits
<1>8. ASSUME NEW t \in Slot \ {K}, Detach(t) PROVE TellsTrue'
  <2>1. /\ curtask' = K /\ UNCHANGED <<net_count, req, done, retval, upc>>
        /\ pid' = [pid EXCEPT ![t] = 0]
        /\ state' = [u \in Slot |-> IF u \in Woken(t) THEN state[u] \ {"WAIT"} ELSE state[u]]
    BY <1>8, SMT DEF Detach, At, call
  <2>2. pid \in [Slot -> Nat] /\ state \in [Slot -> SUBSET Flag]
    BY Zenon DEF TypeOK
  <2>3. \A u \in Slot \ {K} : Bits(u)
    BY <2>1, <2>2, SMT DEF Bits
  <2>4. \A u \in Slot \ {K} : Live(u)' => Live(u)
    BY <2>1, <2>2, SMT
  <2>. QED
    BY <2>1, <2>3, <2>4, TellsQuiet, SMT
<1>9. CASE UNCHANGED vars
  BY <1>9, SMT DEF vars, TellsTrue
<1>. QED
  BY <1>1, <1>2, <1>3, <1>4, <1>5, <1>6, <1>7, <1>8, <1>9, Zenon DEF Next, ScanStep, IpStep

\* A call that waits for the network tells its task the truth: sendto and
\* recvfrom return -1 exactly if nothing was sent or copied, accept if no
\* connection was taken, and no frame goes out twice, whichever of the answer,
\* the retry and the timeout comes first.
THEOREM AnswersCorrect == Spec => []AnswerTrue
<1>1. ASSUME TellsTrue PROVE AnswerTrue
  BY <1>1, SMT DEF TellsTrue, Told, Runs, AnswerTrue
<1>2. Spec => [](IInv /\ TellsTrue)
  BY InvInit, InvStep, TellsInit, TellsStep, PTL DEF Spec
<1>. QED
  BY <1>1, <1>2, PTL

\* What a step does to a task whose EXIT_STATE is up.
Stops(t) ==
    Live(t) /\ "EXIT" \in state[t] =>
        /\ curtask' = t => curtask = t
        /\ Live(t)' => "EXIT" \in state'[t]
        /\ upc'[t] # upc[t] => curtask = t /\ upc'[t] = "gone"

\* Steps that touch neither the CPU nor the stubs, and clear no EXIT_STATE.
LEMMA StopsQuiet ==
    ASSUME UNCHANGED <<curtask, upc>>, NEW t,
           Live(t) /\ "EXIT" \in state[t] => "EXIT" \in state'[t]
    PROVE  Stops(t)
BY SMT DEF Stops

\* task_sw passes the CPU to a task with no bit set.
LEMMA StopsSwitch ==
    ASSUME Switch, NEW t, state'[t] = state[t], upc'[t] = upc[t]
    PROVE  Stops(t)
BY SMT DEF Stops, Switch, Runnable

\* Bits other than EXIT_STATE are cleared.
LEMMA ExitKept ==
    ASSUME TypeOK, NEW u, NEW off, NEW on, "EXIT" \notin off,
           state' = [state EXCEPT ![u] = (@ \ off) \cup on],
           NEW t \in Slot, "EXIT" \in state[t]
    PROVE  "EXIT" \in state'[t]
<1>1. state \in [Slot -> SUBSET Flag]
  BY Zenon DEF TypeOK
<1>. QED
  BY <1>1, SMT

LEMMA StopsUser ==
    ASSUME TypeOK, TellsTrue, NEW u \in Slot \ {K}, UserStep(u), NEW t \in Slot
    PROVE  Stops(t)
<1>1. state \in [Slot -> SUBSET Flag] /\ upc \in [Slot -> {"run", "trap", "nap", "ret", "exit", "gone"}]
  BY Zenon DEF TypeOK
<1>2. curtask = u
  BY Zenon DEF UserStep, Post, Sleep, Exit, Trap, Return, User
<1>3. "EXIT" \in state[u] => upc[u] = "exit"
  BY <1>2, SMT DEF TellsTrue, Runs
\* A stub that goes on: its task has not been told to exit.
<1>4. ASSUME upc[u] # "exit", curtask' = curtask,
             \E v : upc' = [upc EXCEPT ![u] = v],
             \/ state' = state
             \/ state' = [state EXCEPT ![u] = @ \cup {"REQ"}]
             \/ state' = [state EXCEPT ![u] = @ \cup {"EXIT"}]
      PROVE  Stops(t)
  <2>1. t = u => Stops(t)
    BY <1>3, <1>4, Zenon DEF Stops
  <2>2. t # u => upc'[t] = upc[t]
    BY <1>1, <1>4, SMT
  <2>3. t # u => state'[t] = state[t]
    <3>1. \E b : state' = [state EXCEPT ![u] = b] \/ state' = state
      BY <1>4, Zenon
    <3>2. ASSUME NEW b, state' = [state EXCEPT ![u] = b], t # u
          PROVE  state'[t] = state[t]
      BY <1>1, <3>2, SMT
    <3>. QED
      BY <3>1, <3>2, Zenon
  <2>. QED
    BY <1>4, <2>1, <2>2, <2>3, Zenon DEF Stops
<1>5. CASE Trap(u)
  <2>1. /\ Switch /\ pid' = pid /\ state' = state
        /\ upc' = [upc EXCEPT ![u] =
                      CASE @ = "trap" -> "ret" [] @ = "nap" -> "run" [] OTHER -> "gone"]
    BY <1>5, SMT DEF Trap, ring
  <2>2. t # u => upc'[t] = upc[t]
    BY <1>1, <2>1, SMT
  <2>3. upc[u] = "exit" => upc'[u] = "gone"
    BY <1>1, <2>1, SMT
  <2>4. curtask' = t => "EXIT" \notin state[t]
    BY <2>1, SMT DEF Switch, Runnable
  <2>5. CASE t = u
    BY <1>2, <1>3, <2>1, <2>3, <2>4, <2>5, Zenon DEF Stops
  <2>6. CASE t # u
    BY <2>1, <2>2, <2>6, StopsSwitch, Zenon
  <2>. QED
    BY <2>5, <2>6
<1>6. CASE (\E c, a : Post(u, c, a)) \/ (\E n : Sleep(u, n)) \/ Exit(u) \/ Return(u)
  <2>1. upc[u] # "exit" /\ curtask' = curtask
    BY <1>6, SMT DEF Post, Sleep, Exit, Return
  <2>2. \E v : upc' = [upc EXCEPT ![u] = v]
    BY <1>6, Zenon DEF Post, Sleep, Exit, Return
  <2>3. \/ state' = state
        \/ state' = [state EXCEPT ![u] = @ \cup {"REQ"}]
        \/ state' = [state EXCEPT ![u] = @ \cup {"EXIT"}]
    BY <1>6, Zenon DEF Post, Sleep, Exit, Return
  <2>. QED
    BY <1>4, <2>1, <2>2, <2>3, Zenon
<1>. QED
  BY <1>5, <1>6, Zenon DEF UserStep

\* The answer to a request clears REQ_STATE of the caller; only a block that
\* was free is made anew.
LEMMA StopsRequest ==
    ASSUME TypeOK, NEW u \in Slot \ {K}, HandleRequest(u), NEW t \in Slot
    PROVE  Stops(t)
<1>1. /\ state \in [Slot -> SUBSET Flag] /\ u \in Slot
      /\ upc \in [Slot -> {"run", "trap", "nap", "ret", "exit", "gone"}]
  BY Zenon DEF TypeOK
<1>2. curtask' = curtask
  BY Zenon DEF HandleRequest
<1>3. ASSUME upc' = upc,
             \/ state' = [state EXCEPT ![u] = @ \ {"REQ"}]
             \/ state' = [state EXCEPT ![u] = (@ \ {"REQ"}) \cup {"WAIT"}]
             \/ state' = [state EXCEPT ![u] = (@ \ {"REQ"}) \cup {"NET"}]
             \/ \E w \in Slot : state' = [v \in Slot |-> (state[v] \ (IF v = u THEN {"REQ"} ELSE {}))
                                                           \cup (IF v = w THEN {"EXIT"} ELSE {})]
      PROVE  Stops(t)
  <2>1. ASSUME NEW w \in Slot,
               state' = [v \in Slot |-> (state[v] \ (IF v = u THEN {"REQ"} ELSE {}))
                                                           \cup (IF v = w THEN {"EXIT"} ELSE {})]
        PROVE  "EXIT" \in state[t] => "EXIT" \in state'[t]
    BY <1>1, <2>1, SMT
  <2>2. ASSUME \/ state' = [state EXCEPT ![u] = @ \ {"REQ"}]
               \/ state' = [state EXCEPT ![u] = (@ \ {"REQ"}) \cup {"WAIT"}]
               \/ state' = [state EXCEPT ![u] = (@ \ {"REQ"}) \cup {"NET"}]
        PROVE  "EXIT" \in state[t] => "EXIT" \in state'[t]
    <3>1. \E on : state' = [state EXCEPT ![u] = (@ \ {"REQ"}) \cup on]
      <4>1. CASE state' = [state EXCEPT ![u] = @ \ {"REQ"}]
        <5>1. state' = [state EXCEPT ![u] = (@ \ {"REQ"}) \cup {}]
          BY <4>1, Zenon
        <5>. QED
          BY <5>1
      <4>. QED
        BY <2>2, <4>1
    <3>2. "EXIT" \notin {"REQ"}
      BY SMT
    <3>. QED
      BY <3>1, <3>2, ExitKept, Zenon
  <2>3. "EXIT" \in state[t] => "EXIT" \in state'[t]
    BY <1>3, <2>1, <2>2, Zenon
  <2>. QED
    BY <1>2, <1>3, <2>3, StopsQuiet, SMT
<1>4. ASSUME NEW c \in Slot, NEW p, FreeSlot(c), Link(c, p),
             state' = [state EXCEPT ![u] = @ \ {"REQ"}, ![c] = {}]
      PROVE  Stops(t)
  <2>1. ~ Live(c) /\ upc' = [upc EXCEPT ![c] = "run"]
    BY <1>4, Zenon DEF FreeSlot, Link
  <2>2. t # c /\ "EXIT" \in state[t] => "EXIT" \in state'[t] /\ upc'[t] = upc[t]
    BY <1>1, <1>4, <2>1, SMT
  <2>. QED
    BY <1>2, <2>1, <2>2, Zenon DEF Stops
<1>5. CASE ExecRuns(u)
  BY <1>3, <1>4, <1>5, SMT DEF ExecRuns, Clear
<1>6. CASE Kill(u)
  BY <1>3, <1>6, Zenon DEF Kill, Clear
<1>7. CASE ExecFails(u) \/ Wait(u) \/ Bind(u) \/ Recv(u) \/ Send(u) \/ Accept(u) \/ Other(u)
  <2>1. upc' = upc
    BY <1>7, Zenon DEF ExecFails, Wait, Bind, Recv, Send, Accept, Other
  <2>2. \/ state' = [state EXCEPT ![u] = @ \ {"REQ"}]
        \/ state' = [state EXCEPT ![u] = (@ \ {"REQ"}) \cup {"WAIT"}]
        \/ state' = [state EXCEPT ![u] = (@ \ {"REQ"}) \cup {"NET"}]
    BY <1>7, Zenon DEF ExecFails, Wait, Bind, Recv, Send, Accept, Other, Clear
  <2>. QED
    BY <1>3, <2>1, <2>2, Zenon
<1>. QED
  BY <1>5, <1>6, <1>7, Zenon DEF HandleRequest

LEMMA StopsStep ==
    ASSUME TypeOK, TellsTrue, Next
    PROVE  \A t \in Slot : Stops(t)
<1>. TAKE t \in Slot
<1>1. CASE Preempt \/ KernelTrap
  <2>1. Switch /\ state' = state /\ upc' = upc
    BY <1>1, Zenon DEF Preempt, KernelTrap
  <2>. QED
    BY <2>1, StopsSwitch, SMT
<1>2. CASE StartScan \/ EndScan \/ EndIp \/ Arp \/ Udp \/ \E u \in Slot \ {K} : NoReq(u) \/ CountDown(u)
  <2>1. curtask' = curtask /\ state' = state /\ upc' = upc
    BY <1>2, Zenon DEF StartScan, EndScan, EndIp, Arp, Udp, NoReq, CountDown
  <2>. QED
    BY <2>1, StopsQuiet, SMT
<1>3. ASSUME NEW u \in Slot \ {K}, Detach(u) \/ Tcp(u) PROVE Stops(t)
  <2>1. curtask' = curtask /\ upc' = upc
    BY <1>3, Zenon DEF Detach, Tcp
  <2>2. \/ state' = [v \in Slot |-> IF v \in Woken(u) THEN state[v] \ {"WAIT"} ELSE state[v]]
        \/ state' = [state EXCEPT ![u] = @ \ {"NET"}]
    BY <1>3, Zenon DEF Detach, Tcp
  <2>3. state \in [Slot -> SUBSET Flag]
    BY Zenon DEF TypeOK
  <2>4. CASE state' = [v \in Slot |-> IF v \in Woken(u) THEN state[v] \ {"WAIT"} ELSE state[v]]
    <3>1. state'[t] = IF t \in Woken(u) THEN state[t] \ {"WAIT"} ELSE state[t]
      BY <2>4, Zenon
    <3>2. "EXIT" \in state[t] => "EXIT" \in state'[t]
      BY <3>1, SMT
    <3>. QED
      BY <2>1, <3>2, StopsQuiet, SMT
  <2>5. CASE state' = [state EXCEPT ![u] = @ \ {"NET"}]
    <3>1. state' = [state EXCEPT ![u] = (@ \ {"NET"}) \cup {}]
      BY <2>5, Zenon
    <3>2. "EXIT" \notin {"NET"}
      BY SMT
    <3>3. "EXIT" \in state[t] => "EXIT" \in state'[t]
      BY <3>1, <3>2, ExitKept, Zenon
    <3>. QED
      BY <2>1, <3>3, StopsQuiet, SMT
  <2>. QED
    BY <2>2, <2>4, <2>5
<1>. QED
  BY <1>1, <1>2, <1>3, StopsUser, StopsRequest, Zenon DEF Next, ScanStep, IpStep

\* A task whose EXIT_STATE is up, by kill or by exit, never gets the CPU again
\* and stays marked until dettach_task frees its block; the one step it may
\* still take itself is the trap at the end of s_exit.
THEOREM ExitCorrect == Spec => ExitIsFinal
<1>1. ASSUME TypeOK, TellsTrue, [Next]_vars
      PROVE  [\A t \in Slot : Live(t) /\ "EXIT" \in state[t] =>
                /\ curtask' = t => curtask = t
                /\ Live(t)' => "EXIT" \in state'[t]
                /\ upc'[t] # upc[t] => curtask = t /\ upc'[t] = "gone"]_vars
  BY <1>1, StopsStep, Zenon DEF Stops
<1>2. IInv => TypeOK
  BY DEF IInv
<1>3. Spec => [](IInv /\ TellsTrue)
  BY InvInit, InvStep, TellsInit, TellsStep, PTL DEF Spec
<1>. QED
  BY <1>1, <1>2, <1>3, PTL DEF Spec, ExitIsFinal

-----------------------------------------------------------------------------
(* s_wait returns when the task is gone. *)

\* Until the counter wraps every pid handed out is larger than those before.
PidsApart ==
    ~ wrapped =>
        \A t \in Slot : /\ pid[t] <= pid_count
                        /\ \A u \in Slot : Live(t) /\ pid[u] = pid[t] => u = t

LEMMA PidsKept ==
    ASSUME UNCHANGED <<pid, pid_count, wrapped>>, PidsApart
    PROVE  PidsApart'
BY SMT DEF PidsApart

LEMMA PidsRequest ==
    ASSUME TypeOK, PidsApart, NEW t \in Slot \ {K}, HandleRequest(t)
    PROVE  PidsApart'
<1>1. CASE ExecRuns(t)
  <2>1. PICK c \in Slot, p \in FirstPid .. FirstPid + MAX_TASK :
            /\ pid_count' = p
            /\ wrapped' = (wrapped \/ pid_count + 1 > MAX_PID)
            /\ pid' = pid \/ pid' = [pid EXCEPT ![c] = p]
    BY <1>1, Zenon DEF ExecRuns, Link
  <2>2. pid \in [Slot -> Nat] /\ pid_count \in Nat \ {0} /\ MAX_PID \in Nat
    BY TasksAssumption, Zenon DEF TypeOK, TasksAssumption
  <2>3. SUFFICES ASSUME ~ wrapped'
                 PROVE  \A u \in Slot : /\ pid'[u] <= p
                                        /\ \A v \in Slot : pid'[u] # 0 /\ pid'[v] = pid'[u] => v = u
    BY <2>1, Zenon DEF PidsApart
  <2>4. ~ wrapped /\ p > pid_count /\ p \in Nat
    <3>1. ~ wrapped /\ ~ (pid_count + 1 > MAX_PID)
      BY <2>1, <2>3, Zenon
    <3>2. FirstPid = pid_count + 1
      BY <3>1, Zenon DEF FirstPid
    <3>. QED
      BY <2>1, <2>2, <3>1, <3>2, Constants, SMT
  <2>5. \A u \in Slot : /\ pid[u] <= pid_count
                        /\ \A v \in Slot : pid[u] # 0 /\ pid[v] = pid[u] => v = u
    BY <2>4, Zenon DEF PidsApart
  <2>6. CASE pid' = pid
    BY <2>2, <2>4, <2>5, <2>6, SMT
  <2>7. CASE pid' = [pid EXCEPT ![c] = p]
    BY <2>2, <2>4, <2>5, <2>7, SMT
  <2>. QED
    BY <2>1, <2>6, <2>7
<1>2. CASE ~ ExecRuns(t)
  <2>1. UNCHANGED ring
    BY <1>2, Zenon DEF HandleRequest, ExecFails, Kill, Wait, Bind, Recv, Send, Accept, Other
  <2>. QED
    BY <2>1, PidsKept, SMT DEF ring
<1>. QED
  BY <1>1, <1>2

LEMMA PidsInit == Init => PidsApart
BY SMT DEF Init, PidsApart

LEMMA PidsStep == IInv /\ PidsApart /\ [Next]_vars => PidsApart'
<1>. SUFFICES ASSUME TypeOK, PidsApart, [Next]_vars PROVE PidsApart'
  BY Zenon DEF IInv
<1>1. ASSUME NEW t \in Slot \ {K}, Detach(t) PROVE PidsApart'
  <2>1. pid' = [pid EXCEPT ![t] = 0] /\ pid_count' = pid_count /\ wrapped' = wrapped
    BY <1>1, SMT DEF Detach
  <2>2. pid \in [Slot -> Nat] /\ pid_count \in Nat \ {0}
    BY Zenon DEF TypeOK
  <2>. QED
    BY <2>1, <2>2, SMT DEF PidsApart
<1>2. CASE UNCHANGED ring
  BY <1>2, PidsKept, SMT DEF ring
<1>3. ASSUME NEW t \in Slot \ {K}, UserStep(t) PROVE UNCHANGED ring
  BY <1>3, Zenon DEF UserStep, Post, Sleep, Exit, Trap, Return
<1>4. ASSUME IpStep \/ Preempt \/ StartScan \/ EndScan \/ EndIp \/ KernelTrap PROVE UNCHANGED ring
  BY <1>4, Zenon DEF IpStep, Udp, Arp, Tcp, Preempt, StartScan, EndScan, EndIp, KernelTrap
<1>5. ASSUME NEW t \in Slot \ {K}, NoReq(t) \/ CountDown(t) PROVE UNCHANGED ring
  BY <1>5, Zenon DEF NoReq, CountDown
<1>6. CASE UNCHANGED vars
  BY <1>6, PidsKept, SMT DEF vars
<1>. QED
  BY <1>1, <1>2, <1>3, <1>4, <1>5, <1>6, PidsRequest, Zenon DEF Next, ScanStep

\* A task that stops waiting: the one it waited for is off the ring.
Over(t) ==
    Live(t) /\ Live(t)' /\ "WAIT" \in state[t] \ state'[t] /\ ~ wrapped =>
        \A u \in Slot : pid'[u] # wait_pid[t]

\* A change of bits other than WAIT_STATE wakes nobody.
LEMMA WaitKept ==
    ASSUME TypeOK, NEW u, NEW off, NEW on, "WAIT" \notin off,
           state' = [state EXCEPT ![u] = (@ \ off) \cup on],
           NEW t \in Slot
    PROVE  Over(t)
<1>1. state \in [Slot -> SUBSET Flag]
  BY Zenon DEF TypeOK
<1>. QED
  BY <1>1, SMT DEF Over

LEMMA OverStep ==
    ASSUME TypeOK, CursorLive, PidsApart, Next
    PROVE  \A t \in Slot : Over(t)
<1>. TAKE t \in Slot
<1>0. state \in [Slot -> SUBSET Flag] /\ pid \in [Slot -> Nat]
  BY Zenon DEF TypeOK
<1>1. ASSUME NEW x \in Slot \ {K}, Detach(x) PROVE Over(t)
  <2>1. /\ pid' = [pid EXCEPT ![x] = 0]
        /\ state' = [v \in Slot |-> IF v \in Woken(x) THEN state[v] \ {"WAIT"} ELSE state[v]]
    BY <1>1, Zenon DEF Detach
  <2>2. Live(x)
    BY <1>1, SMT DEF Detach, At, CursorLive
  <2>3. SUFFICES ASSUME "WAIT" \in state[t] \ state'[t], ~ wrapped, NEW u \in Slot
                 PROVE  pid'[u] # wait_pid[t]
    BY Zenon DEF Over
  <2>4. wait_pid[t] = pid[x]
    BY <1>0, <2>1, <2>3, SMT DEF Woken
  <2>5. u # x => pid[u] # pid[x]
    BY <2>2, <2>3, SMT DEF PidsApart
  <2>. QED
    BY <1>0, <2>1, <2>2, <2>4, <2>5, SMT
<1>2. CASE state' = state
  BY <1>2, SMT DEF Over
<1>3. ASSUME NEW x \in Slot \ {K}, HandleRequest(x) PROVE Over(t)
  <2>1. CASE Kill(x) /\ ~ Clear(x)
    <3>1. PICK v \in Slot : state' = [u \in Slot |-> (state[u] \ (IF u = x THEN {"REQ"} ELSE {}))
                                        \cup (IF u = v THEN {"EXIT"} ELSE {})]
      BY <2>1, Zenon DEF Kill
    <3>2. state'[t] = (state[t] \ (IF t = x THEN {"REQ"} ELSE {})) \cup (IF t = v THEN {"EXIT"} ELSE {})
      BY <3>1, Zenon
    <3>. QED
      BY <3>2, SMT DEF Over
  <2>2. ASSUME NEW c \in Slot, FreeSlot(c), state' = [state EXCEPT ![x] = @ \ {"REQ"}, ![c] = {}]
        PROVE  Over(t)
    <3>1. ~ Live(c)
      BY <2>2, Zenon DEF FreeSlot
    <3>2. t # c => ("WAIT" \in state[t] => "WAIT" \in state'[t])
      BY <1>0, <2>2, SMT
    <3>. QED
      BY <3>1, <3>2, SMT DEF Over
  <2>3. \/ Kill(x) /\ ~ Clear(x)
        \/ \E c \in Slot : FreeSlot(c) /\ state' = [state EXCEPT ![x] = @ \ {"REQ"}, ![c] = {}]
        \/ Clear(x)
        \/ state' = [state EXCEPT ![x] = (@ \ {"REQ"}) \cup {"WAIT"}]
        \/ state' = [state EXCEPT ![x] = (@ \ {"REQ"}) \cup {"NET"}]
    BY <1>3, Zenon DEF HandleRequest, ExecFails, ExecRuns, Wait, Bind, Recv, Send, Accept, Other
  <2>4. Clear(x) => state' = [state EXCEPT ![x] = (@ \ {"REQ"}) \cup {}]
    BY Zenon DEF Clear
  <2>. QED
    BY <2>1, <2>2, <2>3, <2>4, WaitKept, OtherBits, Zenon
<1>4. ASSUME NEW x \in Slot \ {K}, UserStep(x) PROVE Over(t)
  <2>1. \/ state' = [state EXCEPT ![x] = (@ \ {}) \cup {"REQ"}]
        \/ state' = [state EXCEPT ![x] = (@ \ {}) \cup {"EXIT"}]
        \/ state' = state
    BY <1>4, Zenon DEF UserStep, Post, Sleep, Exit, Trap, Return
  <2>. QED
    BY <1>2, <2>1, WaitKept, OtherBits, Zenon
<1>5. ASSUME NEW x \in Slot \ {K}, Tcp(x) PROVE Over(t)
  <2>1. state' = [state EXCEPT ![x] = (@ \ {"NET"}) \cup {}]
    BY <1>5, Zenon DEF Tcp
  <2>. QED
    BY <2>1, WaitKept, OtherBits, Zenon
<1>6. ASSUME NEW x \in Slot \ {K}, NoReq(x) \/ CountDown(x) PROVE state' = state
  BY <1>6, Zenon DEF NoReq, CountDown
<1>7. ASSUME Udp \/ Arp \/ Preempt \/ StartScan \/ EndScan \/ EndIp \/ KernelTrap PROVE state' = state
  BY <1>7, Zenon DEF Udp, Arp, Preempt, StartScan, EndScan, EndIp, KernelTrap
<1>. QED
  BY <1>1, <1>2, <1>3, <1>4, <1>5, <1>6, <1>7, Zenon DEF Next, ScanStep, IpStep

\* s_wait returns only once no task of the table has the pid waited for, as
\* long as the pid counter has not wrapped.
THEOREM WaitOverCorrect == Spec => WaitIsOver
<1>1. ASSUME IInv, PidsApart, [Next]_vars
      PROVE  [\A t \in Slot : Live(t) /\ Live(t)' /\ "WAIT" \in state[t] \ state'[t] /\ ~ wrapped =>
                 \A u \in Slot : pid'[u] # wait_pid[t]]_vars
  BY <1>1, OverStep, Zenon DEF Over, IInv
<1>2. Spec => [](IInv /\ PidsApart)
  BY InvInit, InvStep, PidsInit, PidsStep, PTL DEF Spec
<1>. QED
  BY <1>1, <1>2, PTL DEF Spec, WaitIsOver

-----------------------------------------------------------------------------
(* Datagrams arrive in order. *)

\* FirstWith, with the links and the pids as parameters.
FirstAt(nx, pd, p, u) ==
    LET w == AlongOf(nx, nx[K])
    IN  \E i \in Slot :
            /\ w[i] = u /\ pd[u] = p
            /\ \A j \in 0 .. i : w[j] # K
            /\ \A j \in 0 .. i - 1 : pd[w[j]] # p

\* u is the first task of the list f with pid p, the kernel left out.
FirstIn(pd, n, f, p, u) ==
    \E i \in 1 .. n - 1 : f[i] = u /\ pd[u] = p /\ \A j \in 1 .. i - 1 : pd[f[j]] # p

LEMMA FirstInRing ==
    ASSUME NEW nx, NEW pd, NEW n, NEW f, OneRing(nx, pd, n, f), NEW p, NEW u
    PROVE  FirstAt(nx, pd, p, u) <=> FirstIn(pd, n, f, p, u)
<1>. DEFINE w == AlongOf(nx, nx[K])
<1>1. n <= MAX_TASK
  BY RingBound, Zenon
<1>2. /\ n \in Nat \ {0} /\ MAX_TASK \in Nat
      /\ f[0] = K /\ nx[f[n - 1]] = K
      /\ \A i \in 0 .. n - 2 : nx[f[i]] = f[i + 1]
      /\ \A i, j \in 0 .. n - 1 : f[i] = f[j] => i = j
  BY Constants, Zenon DEF OneRing
<1>3. w[0] = nx[K] /\ \A i \in 1 .. MAX_TASK : w[i] = nx[w[i - 1]]
  BY AlongSteps
<1>4. FirstAt(nx, pd, p, u) <=> \E i \in Slot : /\ w[i] = u /\ pd[u] = p
                                                /\ \A j \in 0 .. i : w[j] # K
                                                /\ \A j \in 0 .. i - 1 : pd[w[j]] # p
  BY Zenon DEF FirstAt
<1>5. CASE n = 1
  <2>1. w[0] = K
    BY <1>2, <1>3, <1>5, SMT
  <2>2. ~ FirstAt(nx, pd, p, u)
    <3>. HIDE DEF w
    <3>1. \A i \in Slot : 0 \in 0 .. i
      BY SMT
    <3>. QED
      BY <1>4, <2>1, <3>1, Zenon
  <2>3. ~ FirstIn(pd, n, f, p, u)
    BY <1>5, SMT DEF FirstIn
  <2>. QED
    BY <2>2, <2>3
<1>6. CASE n # 1
  <2>1. 1 \in 0 .. n - 1 /\ 0 \in 0 .. n - 2 /\ nx[K] = f[1]
    BY <1>2, <1>6, SMT
  <2>2. ASSUME NEW m \in 0 .. n - 2 PROVE w[m] = f[1 + m]
    <3>1. m \in 0 .. (n - 1) - 1
      BY <1>2, SMT
    <3>2. AlongOf(nx, f[1])[m] = f[1 + m]
      BY <2>1, <3>1, AlongRing
    <3>. QED
      BY <2>1, <3>2
  <2>3. w[n - 1] = K
    <3>1. n - 2 \in 0 .. n - 2 /\ 1 + (n - 2) = n - 1 /\ n - 1 \in 1 .. MAX_TASK /\ (n - 1) - 1 = n - 2
      BY <1>1, <1>2, <1>6, SMT
    <3>2. w[n - 2] = f[n - 1]
      BY <2>2, <3>1
    <3>. HIDE DEF w
    <3>3. w[n - 1] = nx[w[n - 2]]
      BY <1>3, <3>1
    <3>. QED
      BY <1>2, <3>2, <3>3
  <2>. HIDE DEF w
  <2>4. ASSUME NEW i \in Slot, w[i] = u, pd[u] = p, \A j \in 0 .. i : w[j] # K,
               \A j \in 0 .. i - 1 : pd[w[j]] # p
        PROVE  FirstIn(pd, n, f, p, u)
    <3>1. i \in 0 .. n - 2
      BY <1>2, <2>3, <2>4, Constants, SMT
    <3>2. 1 + i \in 1 .. n - 1 /\ f[1 + i] = u
      <4>1. 1 + i \in 1 .. n - 1
        BY <1>2, <3>1, SMT
      <4>. QED
        BY <2>2, <2>4, <3>1, <4>1
    <3>3. ASSUME NEW j \in 1 .. (1 + i) - 1 PROVE pd[f[j]] # p
      <4>1. j - 1 \in 0 .. i - 1 /\ j - 1 \in 0 .. n - 2 /\ 1 + (j - 1) = j
        BY <1>2, <3>1, SMT
      <4>2. w[j - 1] = f[j]
        BY <2>2, <4>1
      <4>. QED
        BY <2>4, <4>1, <4>2
    <3>. QED
      BY <2>4, <3>2, <3>3, Zenon DEF FirstIn
  <2>5. ASSUME NEW i \in 1 .. n - 1, f[i] = u, pd[u] = p, \A j \in 1 .. i - 1 : pd[f[j]] # p
        PROVE  \E k \in Slot : /\ w[k] = u /\ pd[u] = p
                               /\ \A j \in 0 .. k : w[j] # K
                               /\ \A j \in 0 .. k - 1 : pd[w[j]] # p
    <3>1. i - 1 \in Slot /\ i - 1 \in 0 .. n - 2 /\ 1 + (i - 1) = i
      BY <1>1, <1>2, <2>5, SMT
    <3>2. w[i - 1] = u
      BY <2>2, <2>5, <3>1
    <3>3. ASSUME NEW j \in 0 .. i - 1 PROVE w[j] # K
      <4>1. j \in 0 .. n - 2 /\ 1 + j \in 0 .. n - 1 /\ 0 \in 0 .. n - 1 /\ 1 + j # 0
        BY <1>2, SMT
      <4>2. w[j] = f[1 + j]
        BY <2>2, <4>1
      <4>. QED
        BY <1>2, <4>1, <4>2
    <3>4. ASSUME NEW j \in 0 .. (i - 1) - 1 PROVE pd[w[j]] # p
      <4>1. j \in 0 .. n - 2 /\ 1 + j \in 1 .. i - 1
        BY <1>2, SMT
      <4>2. w[j] = f[1 + j]
        BY <2>2, <4>1
      <4>. QED
        BY <2>5, <4>1, <4>2
    <3>. QED
      BY <2>5, <3>1, <3>2, <3>3, <3>4
  <2>. QED
    BY <1>4, <2>4, <2>5, Zenon DEF FirstIn
<1>. QED
  BY <1>5, <1>6

\* A new block in front hides nobody but itself.
LEMMA FirstInsert ==
    ASSUME NEW n \in Nat \ {0}, NEW f, NEW c, NEW pd, NEW pe, NEW p, NEW u,
           \A i \in 0 .. n - 1 : f[i] # c /\ pe[f[i]] = pd[f[i]],
           u # c, FirstIn(pe, n + 1, Insert(n, f, c), p, u)
    PROVE  FirstIn(pd, n, f, p, u)
<1>. DEFINE g == Insert(n, f, c)
<1>1. g[1] = c /\ \A i \in 2 .. n : g[i] = f[i - 1]
  BY SMT DEF Insert
<1>2. PICK i \in 1 .. n : g[i] = u /\ pe[u] = p /\ \A j \in 1 .. i - 1 : pe[g[j]] # p
  <2>1. (n + 1) - 1 = n
    BY SMT
  <2>. QED
    BY <2>1, Zenon DEF FirstIn
<1>. HIDE DEF g
<1>3. i # 1
  BY <1>1, <1>2
<1>4. i \in 2 .. n /\ i - 1 \in 1 .. n - 1 /\ i - 1 \in 0 .. n - 1
  BY <1>3, SMT
<1>5. f[i - 1] = u /\ pd[u] = p
  BY <1>1, <1>2, <1>4
<1>6. ASSUME NEW j \in 1 .. (i - 1) - 1 PROVE pd[f[j]] # p
  <2>1. j + 1 \in 2 .. n /\ j + 1 \in 1 .. i - 1 /\ (j + 1) - 1 = j /\ j \in 0 .. n - 1
    BY <1>4, SMT
  <2>2. g[j + 1] = f[j]
    BY <1>1, <2>1
  <2>. QED
    BY <1>2, <2>1, <2>2
<1>. QED
  BY <1>4, <1>5, <1>6, Zenon DEF FirstIn

\* A block that goes, with another pid than p, was in nobody's way.
LEMMA FirstRemove ==
    ASSUME NEW n \in Nat \ {0}, NEW f, NEW k \in 1 .. n - 1, NEW pd, NEW pe, NEW p, NEW u,
           \A i \in 0 .. n - 1 : i # k => pe[f[i]] = pd[f[i]],
           pd[f[k]] # p, FirstIn(pe, n - 1, Remove(n, f, k), p, u)
    PROVE  FirstIn(pd, n, f, p, u)
<1>. DEFINE g == Remove(n, f, k)
<1>1. \A i \in 0 .. n - 2 : (i < k => g[i] = f[i]) /\ (~ (i < k) => g[i] = f[i + 1])
  BY SMT DEF Remove
<1>2. PICK i \in 1 .. n - 2 : g[i] = u /\ pe[u] = p /\ \A j \in 1 .. i - 1 : pe[g[j]] # p
  <2>1. (n - 1) - 1 = n - 2
    BY SMT
  <2>. QED
    BY <2>1, Zenon DEF FirstIn
<1>. HIDE DEF g
<1>3. CASE i < k
  <2>1. i \in 1 .. n - 1 /\ i \in 0 .. n - 1 /\ i # k /\ i \in 0 .. n - 2
    BY <1>2, <1>3, SMT
  <2>2. f[i] = u /\ pd[u] = p
    BY <1>1, <1>2, <1>3, <2>1
  <2>3. ASSUME NEW j \in 1 .. i - 1 PROVE pd[f[j]] # p
    <3>1. j \in 0 .. n - 2 /\ j < k /\ j # k /\ j \in 0 .. n - 1
      BY <1>2, <1>3, SMT
    <3>. QED
      BY <1>1, <1>2, <2>3, <3>1
  <2>. QED
    BY <2>1, <2>2, <2>3, Zenon DEF FirstIn
<1>4. CASE ~ (i < k)
  <2>1. i + 1 \in 1 .. n - 1 /\ i + 1 \in 0 .. n - 1 /\ i + 1 # k /\ i \in 0 .. n - 2
    BY <1>2, <1>4, SMT
  <2>2. f[i + 1] = u /\ pd[u] = p
    BY <1>1, <1>2, <1>4, <2>1
  <2>3. ASSUME NEW j \in 1 .. (i + 1) - 1 PROVE pd[f[j]] # p
    <3>1. CASE j < k
      <4>1. j \in 0 .. n - 2 /\ j # k /\ j \in 0 .. n - 1 /\ j \in 1 .. i - 1
        BY <1>2, <1>4, <3>1, SMT
      <4>. QED
        BY <1>1, <1>2, <3>1, <4>1
    <3>2. CASE j = k
      BY <3>2
    <3>3. CASE j > k
      <4>1. /\ j - 1 \in 0 .. n - 2 /\ ~ (j - 1 < k) /\ (j - 1) + 1 = j
            /\ j # k /\ j \in 0 .. n - 1 /\ j - 1 \in 1 .. i - 1
        BY <1>2, <1>4, <3>3, SMT
      <4>2. g[j - 1] = f[j]
        BY <1>1, <4>1
      <4>. QED
        BY <1>2, <4>1, <4>2
    <3>. QED
      BY <3>1, <3>2, <3>3, SMT
  <2>. QED
    BY <2>1, <2>2, <2>3, Zenon DEF FirstIn
<1>. QED
  BY <1>3, <1>4

LEMMA FirstNow ==
    ASSUME NEW p, NEW u
    PROVE  /\ FirstWith(p, u) <=> FirstAt(next, pid, p, u)
           /\ FirstWith(p, u)' <=> FirstAt(next', pid', p, u)
<1>1. FirstWith(p, u) <=> FirstAt(next, pid, p, u)
  BY Zenon DEF FirstWith, FirstAt, Along, AlongOf
<1>2. FirstWith(p, u)' <=> FirstAt(next', pid', p, u)
  BY Zenon DEF FirstWith, FirstAt, Along, AlongOf
<1>. QED
  BY <1>1, <1>2

\* At most one task is the first with a pid.
LEMMA FirstOne ==
    ASSUME NEW p, NEW u, NEW v, FirstWith(p, u), FirstWith(p, v)
    PROVE  u = v
<1>. DEFINE w == Along(next[K])
<1>1. PICK i \in Slot : w[i] = u /\ pid[u] = p /\ \A j \in 0 .. i - 1 : pid[w[j]] # p
  BY Zenon DEF FirstWith
<1>2. PICK k \in Slot : w[k] = v /\ pid[v] = p /\ \A j \in 0 .. k - 1 : pid[w[j]] # p
  BY Zenon DEF FirstWith
<1>. HIDE DEF w
<1>3. ~ (i < k) /\ ~ (k < i)
  BY <1>1, <1>2, SMT
<1>4. i = k
  BY <1>3, SMT
<1>. QED
  BY <1>1, <1>2, <1>4

\* attach_task and dettach_task: whoever is the first with the socket's pid
\* then was so before.
LEMMA FirstLink ==
    ASSUME TypeOK, Ringed, NEW c \in Slot, NEW q, q # 0, FreeSlot(c), Link(c, q),
           NEW p, NEW u, u # c, FirstWith(p, u)'
    PROVE  FirstWith(p, u)
<1>1. PICK n, f : OneRing(next, pid, n, f)
  BY Zenon DEF Ringed
<1>2. OneRing(next', pid', n + 1, Insert(n, f, c))
  BY <1>1, LinkRinged, Zenon
<1>3. FirstIn(pid', n + 1, Insert(n, f, c), p, u)
  BY <1>2, FirstNow, FirstInRing
<1>4. /\ n \in Nat \ {0} /\ f \in [0 .. n - 1 -> Slot]
      /\ \A t \in Slot : pid[t] # 0 <=> \E i \in 0 .. n - 1 : f[i] = t
      /\ pid \in [Slot -> Nat] /\ pid' = [pid EXCEPT ![c] = q] /\ pid[c] = 0
  BY <1>1, Zenon DEF OneRing, TypeOK, Link, FreeSlot
<1>5. \A i \in 0 .. n - 1 : f[i] # c /\ pid'[f[i]] = pid[f[i]]
  BY <1>4, SMT
<1>6. FirstIn(pid, n, f, p, u)
  <2>1. n \in Nat \ {0}
    BY <1>4
  <2>. QED
    BY <1>3, <1>5, <2>1, FirstInsert, Zenon
<1>7. FirstAt(next, pid, p, u)
  <2>1. FirstAt(next, pid, p, u) <=> FirstIn(pid, n, f, p, u)
    BY <1>1, FirstInRing
  <2>. QED
    BY <1>6, <2>1
<1>. QED
  BY <1>7, FirstNow

LEMMA FirstDetach ==
    ASSUME TypeOK, RingLinks, CursorLive, Ringed, NEW t \in Slot \ {K}, Detach(t),
           NEW p, pid[t] # p, NEW u, FirstWith(p, u)'
    PROVE  FirstWith(p, u)
<1>1. PICK n, f : OneRing(next, pid, n, f)
  BY Zenon DEF Ringed
<1>2. PICK k \in 1 .. n - 1 : f[k] = t /\ OneRing(next', pid', n - 1, Remove(n, f, k))
  BY <1>1, DetachRinged, Zenon
<1>3. FirstIn(pid', n - 1, Remove(n, f, k), p, u)
  BY <1>2, FirstNow, FirstInRing
<1>4. /\ n \in Nat \ {0} /\ f \in [0 .. n - 1 -> Slot]
      /\ \A i, j \in 0 .. n - 1 : f[i] = f[j] => i = j
      /\ pid \in [Slot -> Nat] /\ pid' = [pid EXCEPT ![t] = 0]
  BY <1>1, Zenon DEF OneRing, TypeOK, Detach
<1>5. \A i \in 0 .. n - 1 : i # k => pid'[f[i]] = pid[f[i]]
  BY <1>2, <1>4, SMT
<1>6. FirstIn(pid, n, f, p, u)
  <2>1. n \in Nat \ {0} /\ pid[f[k]] # p
    BY <1>2, <1>4
  <2>. QED
    BY <1>3, <1>5, <2>1, FirstRemove, Zenon
<1>7. FirstAt(next, pid, p, u)
  <2>1. FirstAt(next, pid, p, u) <=> FirstIn(pid, n, f, p, u)
    BY <1>1, FirstInRing
  <2>. QED
    BY <1>6, <2>1
<1>. QED
  BY <1>7, FirstNow

\* The datagram in the socket is younger than the last one received, and its
\* owner does not wait for one.
Queue ==
    /\ net_count[K] = 0
    /\ lastRecv <= pkts
    /\ sock_packet # 0 =>
          /\ lastRecv < sock_packet /\ sock_packet <= pkts
          /\ \A u \in Slot \ {K} : FirstWith(sock_id, u) => ~ InRecv(u)

LEMMA QueueInit == Init => Queue
BY Constants, SMT DEF Init, Queue

\* Steps after which nobody waits who did not before.
LEMMA QueueKept ==
    ASSUME Queue, UNCHANGED <<sock_id, sock_packet, lastRecv, pkts>>, net_count'[K] = net_count[K],
           \A u \in Slot \ {K} : FirstWith(sock_id, u)' /\ InRecv(u)' => FirstWith(sock_id, u) /\ InRecv(u)
    PROVE  Queue'
BY SMT DEF Queue

LEMMA QueueCalm ==
    ASSUME Queue, UNCHANGED <<pid, next, sock_id, sock_packet, lastRecv, pkts>>,
           net_count'[K] = net_count[K],
           \A u \in Slot \ {K} : InRecv(u)' => InRecv(u)
    PROVE  Queue'
<1>1. \A u : FirstWith(sock_id, u)' <=> FirstAt(next', pid', sock_id, u)
  BY FirstNow
<1>2. \A u : FirstWith(sock_id, u) <=> FirstAt(next, pid, sock_id, u)
  BY FirstNow
<1>3. next' = next /\ pid' = pid
  OBVIOUS
<1>4. \A u : FirstWith(sock_id, u)' => FirstWith(sock_id, u)
  BY <1>1, <1>2, <1>3
<1>. QED
  BY <1>4, QueueKept

\* Steps that touch neither the socket nor the ring and make nobody wait.
QueueFrame == UNCHANGED <<pid, next, sock_id, sock_packet, lastRecv, pkts>>

LEMMA QueueUser ==
    ASSUME TypeOK, TellsTrue, Queue, NEW t \in Slot \ {K}, UserStep(t)
    PROVE  Queue'
<1>1. QueueFrame /\ net_count' = net_count
  BY SMT DEF UserStep, Post, Sleep, Exit, Trap, Return, QueueFrame, ring, net
<1>2. \A u \in Slot : u # t => req'[u] = req[u]
  <2>1. req \in [Slot -> Call \cup {"none"}]
    BY Zenon DEF TypeOK
  <2>2. req' = req \/ \E c : req' = [req EXCEPT ![t] = c]
    BY SMT DEF UserStep, Post, Sleep, Exit, Trap, Return, call
  <2>3. ASSUME NEW c, req' = [req EXCEPT ![t] = c] PROVE \A u \in Slot : u # t => req'[u] = req[u]
    BY <2>1, <2>3, SMT
  <2>. QED
    BY <2>2, <2>3, SMT
<1>3. net_count[t] = 0
  <2>1. curtask = t
    BY Zenon DEF UserStep, Post, Sleep, Exit, Trap, Return, User
  <2>. QED
    BY <2>1, SMT DEF TellsTrue, Runs
<1>4. \A u \in Slot \ {K} : InRecv(u)' => InRecv(u)
  BY <1>1, <1>2, <1>3, SMT DEF InRecv
<1>. QED
  BY <1>1, <1>4, QueueCalm, SMT DEF QueueFrame

LEMMA QueueRequest ==
    ASSUME TypeOK, RingLinks, Ringed, Queue, NEW t \in Slot \ {K}, HandleRequest(t)
    PROVE  Queue'
<1>0. net_count \in [Slot -> Nat] /\ t \in Slot /\ t # K /\ req' = req
  BY SMT DEF TypeOK, HandleRequest, call
<1>1. CASE ExecFails(t) \/ Kill(t) \/ Wait(t) \/ Accept(t) \/ Other(t)
  <2>1. QueueFrame /\ net_count' = net_count
    BY <1>1, SMT DEF ExecFails, Kill, Wait, Accept, Other, QueueFrame, ring, net
  <2>2. \A u \in Slot \ {K} : InRecv(u)' => InRecv(u)
    BY <1>0, <2>1, SMT DEF InRecv
  <2>. QED
    BY <2>1, <2>2, QueueCalm, SMT DEF QueueFrame
<1>2. CASE req[t] = "send" /\ Send(t)
  <2>1. QueueFrame /\ \E n : net_count' = [net_count EXCEPT ![t] = n]
    BY <1>2, SMT DEF Send, QueueFrame, ring, net
  <2>2. \A u \in Slot : u # t => net_count'[u] = net_count[u]
    BY <1>0, <2>1, SMT
  <2>3. \A u \in Slot \ {K} : InRecv(u)' => InRecv(u)
    BY <1>0, <1>2, <2>2, SMT DEF InRecv
  <2>4. net_count'[K] = net_count[K]
    BY <1>0, <2>2, KernelSlot, Zenon
  <2>. QED
    BY <2>1, <2>3, <2>4, QueueCalm, SMT DEF QueueFrame
<1>3. CASE Bind(t)
  <2>1. UNCHANGED <<pid, next, lastRecv, pkts>> /\ net_count' = net_count
    BY <1>3, SMT DEF Bind, ring
  <2>2. CASE sock_packet' = 0
    BY <2>1, <2>2, SMT DEF Queue
  <2>3. CASE UNCHANGED sock
    <3>1. \A u \in Slot \ {K} : InRecv(u)' => InRecv(u)
      BY <1>0, <2>1, SMT DEF InRecv
    <3>. QED
      BY <2>1, <2>3, <3>1, QueueCalm, SMT DEF sock
  <2>. QED
    BY <1>3, <2>2, <2>3, Zenon DEF Bind
<1>4. CASE Recv(t)
  <2>1. pkts' = pkts
    BY <1>4, SMT DEF Recv
  <2>2. CASE sock_packet # 0
    <3>1. lastRecv' = sock_packet /\ sock_packet' = 0 /\ net_count' = net_count
      BY <1>4, <2>2, SMT DEF Recv, TakePacket
    <3>. QED
      BY <2>1, <2>2, <3>1, SMT DEF Queue
  <2>3. CASE sock_packet = 0
    <3>1. lastRecv' = lastRecv /\ sock_packet' = 0 /\ net_count' = [net_count EXCEPT ![t] = NET_COUNT]
      BY <1>4, <2>3, SMT DEF Recv
    <3>2. net_count'[K] = net_count[K]
      BY <1>0, <3>1, KernelSlot, SMT
    <3>. QED
      BY <2>1, <3>1, <3>2, SMT DEF Queue
  <2>. QED
    BY <2>2, <2>3
<1>5. CASE ExecRuns(t)
  <2>1. PICK c \in Slot, p \in FirstPid .. FirstPid + MAX_TASK :
            /\ FreeSlot(c) /\ UNCHANGED net
            /\ \/ UNCHANGED <<pid, next, net_count>>
               \/ Link(c, p)
    BY <1>5, SMT DEF ExecRuns
  <2>2. UNCHANGED <<sock_id, sock_packet, lastRecv, pkts>>
    BY <2>1, SMT DEF net
  <2>3. CASE UNCHANGED <<pid, next, net_count>>
    <3>1. \A u \in Slot \ {K} : InRecv(u)' => InRecv(u)
      BY <1>0, <2>3, SMT DEF InRecv
    <3>. QED
      BY <2>2, <2>3, <3>1, QueueCalm, SMT
  <2>4. CASE Link(c, p)
    <3>1. net_count' = [net_count EXCEPT ![c] = 0]
      BY <2>4, Zenon DEF Link
    <3>2. c # K
      BY <2>1, SMT DEF FreeSlot, RingLinks
    <3>3. p # 0
      BY FirstPidPositive, Constants, SMT
    <3>4. net_count'[K] = net_count[K] /\ \A u \in Slot : InRecv(u)' => u # c /\ InRecv(u)
      BY <1>0, <3>1, <3>2, KernelSlot, SMT DEF InRecv
    <3>5. ASSUME NEW u \in Slot \ {K}, FirstWith(sock_id, u)', InRecv(u)'
          PROVE  FirstWith(sock_id, u) /\ InRecv(u)
      <4>1. u # c /\ InRecv(u)
        BY <3>4, <3>5
      <4>2. FirstAt(next', pid', sock_id, u)
        BY <2>2, <3>5, FirstNow
      <4>3. PICK q : q = sock_id
        OBVIOUS
      <4>4. FirstWith(q, u)'
        BY <4>2, <4>3, FirstNow
      <4>5. FirstWith(q, u)
        BY <2>1, <2>4, <3>3, <4>1, <4>4, FirstLink, Zenon
      <4>. QED
        BY <4>1, <4>3, <4>5
    <3>. QED
      BY <2>2, <3>4, <3>5, QueueKept
  <2>. QED
    BY <2>1, <2>3, <2>4
<1>. QED
  BY <1>1, <1>2, <1>3, <1>4, <1>5, SMT DEF HandleRequest

LEMMA QueueDetach ==
    ASSUME TypeOK, RingLinks, CursorLive, Ringed, Queue, NEW t \in Slot \ {K}, Detach(t)
    PROVE  Queue'
<1>1. UNCHANGED <<net_count, req, lastRecv, pkts>>
  BY SMT DEF Detach, call
<1>2. CASE sock_id = pid[t]
  <2>1. sock_packet' = 0
    BY <1>2, SMT DEF Detach, FreeSock
  <2>. QED
    BY <1>1, <2>1, SMT DEF Queue
<1>3. CASE sock_id # pid[t]
  <2>1. UNCHANGED <<sock_id, sock_packet>>
    BY <1>3, SMT DEF Detach, FreeSock, sock
  <2>2. ASSUME NEW u \in Slot \ {K}, FirstWith(sock_id, u)'
        PROVE  FirstWith(sock_id, u)
    <3>1. FirstAt(next', pid', sock_id, u)
      BY <2>1, <2>2, FirstNow
    <3>2. PICK q : q = sock_id
      OBVIOUS
    <3>3. FirstWith(q, u)' /\ pid[t] # q
      BY <1>3, <3>1, <3>2, FirstNow
    <3>4. FirstWith(q, u)
      BY <3>3, FirstDetach, Zenon
    <3>. QED
      BY <3>2, <3>4
  <2>3. \A u \in Slot \ {K} : InRecv(u)' => InRecv(u)
    BY <1>1, SMT DEF InRecv
  <2>. QED
    BY <1>1, <2>1, <2>2, <2>3, QueueKept
<1>. QED
  BY <1>2, <1>3

LEMMA QueueUdp ==
    ASSUME TypeOK, Queue, Udp
    PROVE  Queue'
<1>1. pkts' = pkts + 1 /\ UNCHANGED <<pid, next, req>>
  BY SMT DEF Udp, ring, call
<1>2. pkts \in Nat /\ lastRecv \in Nat /\ sock_packet \in Nat /\ net_count \in [Slot -> Nat]
  BY Zenon DEF TypeOK
<1>3. ASSUME NEW u \in Slot, TaskWith(sock_id, u), InRecv(u),
             net_count' = [net_count EXCEPT ![u] = 0], lastRecv' = pkts + 1, UNCHANGED sock
      PROVE  Queue'
  <2>1. u # K
    BY <1>2, <1>3, SMT DEF Queue, InRecv
  <2>2. FirstWith(sock_id, u)
    BY <1>3, <2>1, Zenon DEF TaskWith
  <2>3. sock_packet = 0
    BY <1>3, <2>1, <2>2, SMT DEF Queue
  <2>4. sock_packet' = 0 /\ net_count'[K] = net_count[K]
    BY <1>2, <1>3, <2>1, <2>3, KernelSlot, SMT DEF sock
  <2>. QED
    BY <1>1, <1>2, <1>3, <2>4, SMT DEF Queue
<1>4. ASSUME NEW u \in Slot, TaskWith(sock_id, u), ~ InRecv(u),
             sock_packet' \in {0, pkts + 1}, UNCHANGED <<sock_id, net_count, lastRecv>>
      PROVE  Queue'
  <2>1. ASSUME NEW v \in Slot \ {K}, FirstWith(sock_id, v)'
        PROVE  ~ InRecv(v)'
    <3>1. FirstAt(next', pid', sock_id, v)
      BY <1>4, <2>1, FirstNow
    <3>2. FirstWith(sock_id, v)
      BY <1>1, <3>1, FirstNow
    <3>3. v = u
      <4>1. CASE u = K
        BY <1>4, <3>2, <4>1, Zenon DEF TaskWith
      <4>2. CASE u # K
        BY <1>4, <3>2, <4>2, FirstOne, Zenon DEF TaskWith
      <4>. QED
        BY <4>1, <4>2
    <3>. QED
      BY <1>1, <1>4, <3>3, SMT DEF InRecv
  <2>2. /\ net_count'[K] = 0 /\ lastRecv' <= pkts'
        /\ sock_packet' # 0 => lastRecv' < sock_packet' /\ sock_packet' <= pkts'
    BY <1>1, <1>2, <1>4, SMT DEF Queue
  <2>. QED
    BY <2>1, <2>2, Zenon DEF Queue
<1>5. CASE UNCHANGED <<net_count, sock, lastRecv>>
  <2>1. ASSUME NEW v \in Slot \ {K}, FirstWith(sock_id, v)', InRecv(v)'
        PROVE  FirstWith(sock_id, v) /\ InRecv(v)
    <3>1. FirstAt(next', pid', sock_id, v)
      BY <1>5, <2>1, FirstNow DEF sock
    <3>2. FirstWith(sock_id, v)
      BY <1>1, <3>1, FirstNow
    <3>. QED
      BY <1>1, <1>5, <2>1, <3>2, SMT DEF InRecv
  <2>2. /\ net_count'[K] = 0 /\ lastRecv' <= pkts' /\ sock_packet' = sock_packet
        /\ sock_packet' # 0 => lastRecv' < sock_packet' /\ sock_packet' <= pkts'
    BY <1>1, <1>2, <1>5, SMT DEF Queue, sock
  <2>. QED
    BY <2>1, <2>2, Zenon DEF Queue
<1>. QED
  BY <1>3, <1>4, <1>5, SMT DEF Udp, Deliver

LEMMA QueueStep == IInv /\ TellsTrue /\ Ringed /\ Queue /\ [Next]_vars => Queue'
<1>. SUFFICES ASSUME TypeOK, RingLinks, CursorLive, TellsTrue, Ringed, Queue, [Next]_vars
              PROVE  Queue'
  BY Zenon DEF IInv
<1>1. CASE UNCHANGED <<pid, next, sock_id, sock_packet, lastRecv, pkts, net_count, req>>
  BY <1>1, QueueCalm, SMT DEF InRecv
<1>2. CASE \/ Preempt \/ StartScan \/ EndScan \/ EndIp \/ KernelTrap \/ Arp
           \/ (\E t \in Slot : NoReq(t)) \/ (\E u \in Slot : Tcp(u))
  BY <1>1, <1>2, SMT DEF Preempt, StartScan, EndScan, EndIp, KernelTrap, Arp, NoReq, Tcp,
     ring, call, net, sock
<1>3. ASSUME NEW t \in Slot \ {K}, CountDown(t) PROVE Queue'
  <2>1. QueueFrame /\ req' = req
    BY <1>3, SMT DEF CountDown, QueueFrame, ring, net, call
  <2>2. \/ net_count' = net_count
        \/ net_count[t] > 0 /\ \E n : net_count' = [net_count EXCEPT ![t] = n]
    <3>1. net_count[t] \in Nat
      BY <1>3, Zenon DEF TypeOK
    <3>. QED
      BY <1>3, <3>1, SMT DEF CountDown, NetRequest
  <2>3. net_count \in [Slot -> Nat]
    BY Zenon DEF TypeOK
  <2>4. (\A u \in Slot : u # t => net_count'[u] = net_count[u]) /\ (net_count[t] = 0 => net_count' = net_count)
    <3>1. CASE net_count' = net_count
      BY <3>1
    <3>2. ASSUME net_count[t] > 0, NEW n, net_count' = [net_count EXCEPT ![t] = n]
          PROVE  (\A u \in Slot : u # t => net_count'[u] = net_count[u]) /\ net_count[t] # 0
      BY <2>3, <3>2, SMT
    <3>. QED
      BY <2>2, <3>1, <3>2
  <2>5. \A u \in Slot \ {K} : InRecv(u)' => InRecv(u)
    <3>1. net_count[t] = 0 \/ net_count[t] > 0
      BY <2>3, SMT
    <3>. QED
      BY <2>1, <2>4, <3>1, SMT DEF InRecv
  <2>6. net_count'[K] = net_count[K]
    BY <2>4, KernelSlot, SMT
  <2>. QED
    BY <2>1, <2>5, <2>6, QueueCalm, SMT DEF QueueFrame
<1>4. CASE UNCHANGED vars
  BY <1>1, <1>4, SMT DEF vars
<1>. QED
  BY <1>2, <1>3, <1>4, QueueUser, QueueRequest, QueueDetach, QueueUdp, Zenon
     DEF Next, ScanStep, IpStep

\* What a step that hands over a datagram hands over.
Younger(t) == req'[t] = "recv" /\ done'[t] \notin {0, done[t]} => done'[t] > lastRecv

LEMMA YoungerStep ==
    ASSUME TypeOK, Queue, Next
    PROVE  \A t \in Slot : Younger(t)
<1>. TAKE t \in Slot
<1>0. /\ done \in [Slot -> Nat] /\ req \in [Slot -> Call \cup {"none"}]
      /\ pkts \in Nat /\ lastRecv \in Nat /\ sock_packet \in Nat
  BY Zenon DEF TypeOK
<1>1. CASE done' = done
  BY <1>1, SMT DEF Younger
\* Answers to the calls that take no datagram, and the start of a call.
<1>2. ASSUME NEW u \in Slot, req'[u] # "recv", NEW v, done' = [done EXCEPT ![u] = v] PROVE Younger(t)
  <2>1. t # u => done'[t] = done[t]
    BY <1>0, <1>2, SMT
  <2>. QED
    BY <1>2, <2>1, SMT DEF Younger
<1>3. ASSUME NEW u \in Slot, NEW v, done' = [done EXCEPT ![u] = v], v = 0 \/ v > lastRecv PROVE Younger(t)
  <2>1. (t # u => done'[t] = done[t]) /\ done'[u] = v
    BY <1>0, <1>3, SMT
  <2>. QED
    BY <1>3, <2>1, SMT DEF Younger
<1>4. ASSUME NEW u \in Slot \ {K}, UserStep(u) PROVE Younger(t)
  <2>1. done' = done \/ done' = [done EXCEPT ![u] = 0]
    BY <1>4, SMT DEF UserStep, Post, Sleep, Exit, Trap, Return
  <2>. QED
    BY <1>1, <1>3, <2>1, SMT
<1>5. ASSUME NEW u \in Slot \ {K}, HandleRequest(u) PROVE Younger(t)
  <2>1. CASE Recv(u) /\ sock_packet # 0
    <3>1. done' = [done EXCEPT ![u] = sock_packet]
      BY <2>1, Zenon DEF Recv
    <3>2. sock_packet > lastRecv
      BY <1>0, <2>1, SMT DEF Queue
    <3>. QED
      BY <1>3, <3>1, <3>2, Zenon
  <2>2. CASE Recv(u) /\ sock_packet = 0
    BY <1>1, <2>2, SMT DEF Recv
  <2>3. CASE req[u] = "send" /\ Send(u)
    <3>1. req'[u] # "recv" /\ (done' = done \/ done' = [done EXCEPT ![u] = @ + 1])
      BY <1>5, <2>3, SMT DEF HandleRequest, Send, UdpSend, call
    <3>. QED
      BY <1>1, <1>2, <3>1, SMT
  <2>4. CASE \/ ExecFails(u) \/ ExecRuns(u) \/ Kill(u) \/ Wait(u) \/ Bind(u) \/ Accept(u) \/ Other(u)
    <3>1. done' = done
      BY <2>4, SMT DEF ExecFails, ExecRuns, Kill, Wait, Bind, Accept, Other
    <3>. QED
      BY <1>1, <3>1
  <2>. QED
    BY <1>5, <2>1, <2>2, <2>3, <2>4, SMT DEF HandleRequest
<1>6. ASSUME NEW u \in Slot \ {K}, CountDown(u) PROVE Younger(t)
  <2>1. done' = done \/ (req'[u] # "recv" /\ done' = [done EXCEPT ![u] = @ + 1])
    BY <1>6, SMT DEF CountDown, NetRequest, UdpSend, call
  <2>. QED
    BY <1>1, <1>2, <2>1, SMT
<1>7. CASE Udp
  <2>1. done' = done \/ \E u \in Slot : done' = [done EXCEPT ![u] = pkts + 1]
    BY <1>7, Zenon DEF Udp, Deliver
  <2>2. pkts + 1 > lastRecv
    BY <1>0, SMT DEF Queue
  <2>. QED
    BY <1>1, <1>3, <2>1, <2>2
<1>8. ASSUME NEW u \in Slot \ {K}, Tcp(u) PROVE Younger(t)
  <2>1. req'[u] # "recv" /\ (done' = done \/ done' = [done EXCEPT ![u] = 1])
    BY <1>8, SMT DEF Tcp, call
  <2>. QED
    BY <1>1, <1>2, <2>1, SMT
<1>9. CASE \/ Preempt \/ StartScan \/ EndScan \/ EndIp \/ KernelTrap \/ Arp
           \/ (\E u \in Slot \ {K} : NoReq(u) \/ Detach(u))
  BY <1>1, <1>9, SMT DEF Preempt, StartScan, EndScan, EndIp, KernelTrap, Arp, NoReq, Detach
<1>. QED
  BY <1>4, <1>5, <1>6, <1>7, <1>8, <1>9, Zenon DEF Next, ScanStep, IpStep

\* No datagram reaches a task before an older one or a second time, whether it
\* waited in the socket or the task waited for it, and whoever owns the socket
\* by then.
THEOREM RecvCorrect == Spec => RecvInOrder
<1>1. ASSUME TypeOK, Queue, [Next]_vars
      PROVE  [\A t \in Slot : req'[t] = "recv" /\ done'[t] \notin {0, done[t]} =>
                 done'[t] > lastRecv]_vars
  BY <1>1, YoungerStep, Zenon DEF Younger
<1>2. IInv => TypeOK
  BY DEF IInv
<1>3. Spec => [](IInv /\ TellsTrue /\ Ringed /\ Queue)
  BY InvInit, InvStep, TellsInit, TellsStep, RingedInit, RingedStep, QueueInit, QueueStep, PTL DEF Spec
<1>. QED
  BY <1>1, <1>2, <1>3, PTL DEF Spec, RecvInOrder
=============================================================================
