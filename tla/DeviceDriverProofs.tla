-------------------------- MODULE DeviceDriverProofs --------------------------
(***************************************************************************)
(* Theorems about ConventionalDevice for every set of commands, argument   *)
(* counts, registers and counter width: commands that take arguments are   *)
(* queued with as many words as get_argc says, do_cmd finds its arguments, *)
(* and the device implements DeviceService.                                *)
(*                                                                         *)
(* Theorems about DeviceDriver for every device, every set of requests and *)
(* every number of commands: up to the first request with another number   *)
(* of words than the device counts, driver and device agree where a        *)
(* request begins, registers are what the driver wrote and each command is *)
(* done once, in order; the commands before that one still are, whatever   *)
(* comes after it.                                                         *)
(***************************************************************************)
EXTENDS DeviceDriver, SequenceTheorems, TLAPS

-----------------------------------------------------------------------------
(* ConventionalDevice.                                                      *)


\* The counter is decremented modulo its width: zero wraps to the largest value.
LEMMA Decrement ==
  ASSUME NEW m \in Nat \ {0, 1}, NEW n \in 0 .. m - 1
  PROVE  (n - 1) % m = IF n = 0 THEN m - 1 ELSE n - 1
<1>1. CASE n = 0
  BY <1>1
<1>2. CASE n # 0
  BY <1>2
<1> QED BY <1>1, <1>2

LEMMA NeededType == Needed \in [Bytes -> Nat \ {0}]
  BY DeviceAssumption DEF Needed

LEMMA ValuesType == Values \subseteq Nat
  BY DeviceAssumption DEF Values

LEMMA InitIInv == Init => IInv
<1> SUFFICES ASSUME Init PROVE IInv
  OBVIOUS
<1>1. TypeOK
  <2>1. regs \in [Regs -> Values]
    BY DeviceAssumption DEF Init, Values
  <2> QED
    BY <2>1, DeviceAssumption DEF Init, TypeOK
<1>2. NoLeftoverArguments /\ ArgumentsCounted /\ ExecutesQueued
  BY DEF Init, NoLeftoverArguments, ArgumentsCounted, ExecutesQueued
<1>3. QueuedByCountdown
  BY DEF Init, QueuedByCountdown
<1> QED
  BY <1>1, <1>2, <1>3 DEF IInv

\* The CPU thread starts a command: the buffer is empty, nothing is counted.
LEMMA StartCommandStep ==
  ASSUME IInv, NEW b \in Bytes, StartCommand(b)
  PROVE  IInv'
<1> USE DEF IInv
<1>1. TypeOK'
  BY DeviceAssumption DEF StartCommand, TypeOK
<1>2. NoLeftoverArguments'
  BY DEF StartCommand, NoLeftoverArguments
<1>3. ArgumentsCounted'
  <2>1. arg_buf = <<>> /\ cpu = "run"
    BY DEF StartCommand, NoLeftoverArguments
  <2>2. Counted' = 0
    BY <2>1 DEF StartCommand, Counted
  <2> QED
    BY <2>2, NeededType DEF StartCommand, ArgumentsCounted
<1>4. QueuedByCountdown' /\ ExecutesQueued'
  BY DEF StartCommand, QueuedByCountdown, ExecutesQueued
<1> QED
  BY <1>1, <1>2, <1>3, <1>4

\* An argument joins the buffer; it is counted only under the mutex.
LEMMA PushArgumentStep ==
  ASSUME IInv, NEW w \in Values, PushArgument(w)
  PROVE  IInv'
<1> USE DEF IInv
<1>1. arg_buf \in Seq(Values)
  BY DEF TypeOK
<1>2. Len(arg_buf') = Len(arg_buf) + 1
  BY <1>1 DEF PushArgument
<1>3. TypeOK'
  BY DEF PushArgument, TypeOK
<1>4. NoLeftoverArguments'
  BY DEF PushArgument, NoLeftoverArguments
<1>5. ArgumentsCounted'
  <2>1. Counted' = Counted
    BY <1>1, <1>2 DEF PushArgument, Counted
  <2> QED
    BY <2>1 DEF PushArgument, ArgumentsCounted
<1>6. QueuedByCountdown' /\ ExecutesQueued'
  BY DEF PushArgument, QueuedByCountdown, ExecutesQueued
<1> QED
  BY <1>3, <1>4, <1>5, <1>6

\* The argument is counted: either more are needed, or the counter reached zero
\* with exactly Needed[command] words in the buffer, which become the command.
LEMMA CountArgumentStep ==
  ASSUME IInv, CountArgument
  PROVE  IInv'
<1> USE DEF IInv
<1>1. /\ state = "CommandRq"
      /\ command \in Bytes
      /\ arg_buf \in Seq(Values)
      /\ Counted = Len(arg_buf) - 1
      /\ Counted \in 0 .. Needed[command] - 1
      /\ args_needed \in 0 .. ArgcMod - 1
      /\ Needed[command] \in 1 .. ArgcMod
    BY DeviceAssumption DEF CountArgument, NoLeftoverArguments, ArgumentsCounted, TypeOK, Counted, Needed
<1>2. args_needed' = Needed[command] - Len(arg_buf)
  <2>1. args_needed' = IF args_needed = 0 THEN ArgcMod - 1 ELSE args_needed - 1
    BY <1>1, Decrement, DeviceAssumption DEF CountArgument
  <2>2. CASE Counted = 0
    <3>1. args_needed = Argc[command] /\ Len(arg_buf) = 1
      BY <1>1, <2>2 DEF ArgumentsCounted
    <3>2. Needed[command] = IF Argc[command] = 0 THEN ArgcMod ELSE Argc[command]
      BY <1>1 DEF Needed
    <3> QED
      BY <1>1, <2>1, <3>1, <3>2
  <2>3. CASE Counted # 0
    BY <1>1, <2>1, <2>3, DeviceAssumption DEF ArgumentsCounted
  <2> QED
    BY <2>2, <2>3
<1>3. CASE args_needed' = 0
  <2>1. Len(arg_buf) = Needed[command]
    BY <1>1, <1>2, <1>3
  <2>2. pending' = Append(pending, [cmd |-> command, args |-> arg_buf])
    BY <1>3 DEF CountArgument
  <2>3. [cmd |-> command, args |-> arg_buf] \in Invocation
    BY <1>1 DEF Invocation
  <2>4. TypeOK'
    <3>1. pending' \in Seq(Invocation)
      BY <2>2, <2>3 DEF TypeOK
    <3>2. args_needed' \in 0 .. ArgcMod - 1
      BY <1>3, DeviceAssumption
    <3>3. arg_buf' = <<>> /\ state' = "Ready"
      BY <1>3 DEF CountArgument
    <3> QED
      BY <3>1, <3>2, <3>3 DEF CountArgument, TypeOK
  <2>5. QueuedByCountdown'
    BY <2>1, <2>2, <2>3 DEF QueuedByCountdown, TypeOK
  <2>6. NoLeftoverArguments' /\ ArgumentsCounted'
    BY <1>3 DEF CountArgument, NoLeftoverArguments, ArgumentsCounted
  <2>7. ExecutesQueued'
    BY DEF CountArgument, ExecutesQueued
  <2> QED
    BY <2>4, <2>5, <2>6, <2>7
<1>4. CASE args_needed' # 0
  <2>1. TypeOK'
    BY <1>1, <1>2, <1>4, DeviceAssumption DEF CountArgument, TypeOK
  <2>2. Counted' = Len(arg_buf)
    BY <1>1, <1>4 DEF CountArgument, Counted
  <2>3. ArgumentsCounted'
    BY <1>1, <1>2, <1>4, <2>2 DEF CountArgument, ArgumentsCounted
  <2>4. NoLeftoverArguments' /\ QueuedByCountdown' /\ ExecutesQueued'
    BY <1>1, <1>4 DEF CountArgument, NoLeftoverArguments, QueuedByCountdown, ExecutesQueued
  <2> QED
    BY <2>1, <2>3, <2>4
<1> QED
  BY <1>3, <1>4

\* Register accesses never touch the argument buffer or the queue.
LEMMA RegisterStep ==
  ASSUME IInv, NEW w \in Words,
         ReadRegister(w) \/ SelectRegister(w) \/ WriteRegister(w)
  PROVE  IInv'
<1> USE DEF IInv
<1>1. TypeOK'
  <2>1. w \in Values /\ w \in Nat
    BY DeviceAssumption DEF Values
  <2>2. CASE ReadRegister(w)
    BY <2>2, ValuesType DEF ReadRegister, TypeOK, protocol
  <2>3. CASE SelectRegister(w)
    BY <2>1, <2>3 DEF SelectRegister, TypeOK, Lo
  <2>4. CASE WriteRegister(w)
    BY <2>1, <2>4 DEF WriteRegister, TypeOK
  <2> QED
    BY <2>2, <2>3, <2>4
<1>2. NoLeftoverArguments'
  BY DEF ReadRegister, SelectRegister, WriteRegister, NoLeftoverArguments, protocol
<1>3. ArgumentsCounted'
  BY DEF ReadRegister, SelectRegister, WriteRegister, ArgumentsCounted, protocol
<1>4. QueuedByCountdown' /\ ExecutesQueued'
  BY DEF ReadRegister, SelectRegister, WriteRegister, QueuedByCountdown, ExecutesQueued, protocol
<1> QED
  BY <1>1, <1>2, <1>3, <1>4

\* The worker only removes commands, and only after do_cmd has returned.
LEMMA WorkerKeepsIInv ==
  ASSUME IInv, Worker
  PROVE  IInv'
<1> USE DEF IInv
<1>1. NoLeftoverArguments' /\ ArgumentsCounted'
  BY DEF Worker, WorkerLock, WorkerBegin, WorkerFinish, WorkerUnlock, protocol,
         NoLeftoverArguments, ArgumentsCounted, Counted
<1>2. CASE WorkerLock \/ WorkerBegin \/ WorkerUnlock
  <2>1. TypeOK'
    BY <1>2 DEF WorkerLock, WorkerBegin, WorkerUnlock, protocol, TypeOK
  <2>2. QueuedByCountdown' /\ ExecutesQueued'
    BY <1>2 DEF WorkerLock, WorkerBegin, WorkerUnlock, QueuedByCountdown, ExecutesQueued
  <2> QED
    BY <1>1, <2>1, <2>2
<1>3. ASSUME NEW r \in Results, WorkerFinish(r)
      PROVE  IInv'
  <2>1. /\ pending \in Seq(Invocation)
        /\ pending # <<>>
        /\ pending' = Tail(pending)
    BY <1>3 DEF WorkerFinish, ExecutesQueued, TypeOK
  <2>2. TypeOK'
    BY <1>3, <2>1, DeviceAssumption DEF WorkerFinish, protocol, TypeOK
  <2>3. QueuedByCountdown'
    <3>1. \A i \in 1 .. Len(pending') : i + 1 \in 1 .. Len(pending) /\ pending'[i] = pending[i + 1]
      BY <2>1
    <3> QED
      BY <3>1 DEF QueuedByCountdown
  <2>4. ExecutesQueued'
    BY <1>3 DEF WorkerFinish, ExecutesQueued
  <2> QED
    BY <1>1, <2>2, <2>3, <2>4
<1> QED
  BY <1>2, <1>3 DEF Worker

LEMMA NextIInv == IInv /\ [Next]_devvars => IInv'
<1> SUFFICES ASSUME IInv, [Next]_devvars
             PROVE  IInv'
  OBVIOUS
<1>1. ASSUME NEW b \in Bytes, Out8(b)
      PROVE  IInv'
  BY <1>1, StartCommandStep, PushArgumentStep DEF Out8, Values
<1>2. ASSUME NEW w \in Words, Out16(w)
      PROVE  IInv'
  BY <1>2, RegisterStep, PushArgumentStep DEF Out16, Values
<1>3. CASE UNCHANGED devvars
  BY <1>3 DEF devvars, protocol, IInv, TypeOK, NoLeftoverArguments, ArgumentsCounted, Counted,
              QueuedByCountdown, ExecutesQueued
<1> QED
  BY <1>1, <1>2, <1>3, CountArgumentStep, WorkerKeepsIInv DEF Next

-------------------------------------------------------------------------------
\* The invariant holds in every reachable state.
THEOREM Invariance == Spec => []IInv
  BY InitIInv, NextIInv, PTL DEF Spec

\* Every variable keeps its type; in particular m_args_needed stays a byte.
THEOREM TypeCorrect == Spec => []TypeOK
<1>1. IInv => TypeOK
  BY DEF IInv
<1> QED
  BY <1>1, Invariance, PTL

\* Whatever the CPU sends, a command that takes arguments is queued with as many
\* words as get_argc says: out8 and out16 never cut one short and never give it
\* an argument of another one. (One that takes none is queued with ArgcMod words
\* by the same countdown, of which this says nothing.)
THEOREM WholeCommands == Spec => []CommandsAreWhole
<1>1. IInv => CommandsAreWhole
  <2> SUFFICES ASSUME IInv, NEW i \in 1 .. Len(pending), Argc[pending[i].cmd] # 0
               PROVE  Len(pending[i].args) = Argc[pending[i].cmd]
    BY DEF CommandsAreWhole
  <2>1. pending[i] \in Invocation
    BY DEF IInv, TypeOK
  <2>2. pending[i].cmd \in Bytes
    BY <2>1 DEF Invocation
  <2> QED
    BY <2>2 DEF IInv, QueuedByCountdown, Needed
<1> QED
  BY <1>1, Invariance, PTL

\* The countdown and the buffer agree in every reachable state.
THEOREM CountdownCorrect == Spec => [](ArgumentsCounted /\ NoLeftoverArguments)
<1>1. IInv => ArgumentsCounted /\ NoLeftoverArguments
  BY DEF IInv
<1> QED
  BY <1>1, Invariance, PTL

\* do_cmd never reads an argument that its command was not given.
THEOREM ArgumentsPresent == Spec => []ArgumentsInRange
<1>1. IInv => ArgumentsInRange
  <2> SUFFICES ASSUME IInv, worker = "exec"
               PROVE  /\ pending # <<>>
                      /\ Len(Head(pending).args) >= ArgsRead[Head(pending).cmd]
    BY DEF ArgumentsInRange
  <2>1. pending \in Seq(Invocation) /\ pending # <<>>
    BY DEF IInv, ExecutesQueued, TypeOK
  <2>2. Head(pending) = pending[1] /\ 1 \in 1 .. Len(pending)
    BY <2>1
  <2>3. pending[1].cmd \in Bytes
    <3>1. pending[1] \in Invocation
      BY <2>1, <2>2
    <3> QED
      BY <3>1 DEF Invocation
  <2>4. Len(pending[1].args) = Needed[pending[1].cmd]
    BY <2>2 DEF IInv, QueuedByCountdown
  <2>5. Needed[pending[1].cmd] >= ArgsRead[pending[1].cmd]
    <3>1. ASSUME NEW c \in Bytes PROVE Needed[c] >= ArgsRead[c]
      <4>1. /\ Argc[c] \in 0 .. ArgcMod - 1
            /\ ArgsRead[c] \in Nat
            /\ ArgsRead[c] <= Argc[c]
        BY DeviceAssumption
      <4>2. Needed[c] = IF Argc[c] = 0 THEN ArgcMod ELSE Argc[c]
        BY DEF Needed
      <4> QED
        BY <4>1, <4>2, DeviceAssumption
    <3> QED
      BY <3>1, <2>3
  <2> QED
    BY <2>1, <2>2, <2>4, <2>5
<1> QED
  BY <1>1, Invariance, PTL

-------------------------------------------------------------------------------
(* The device implements DeviceService: every step of either thread is one   *)
(* of the service's operations or leaves queue, registers and result alone.  *)

LEMMA ServiceInit == Init => Service!Init
  BY DEF Init, Service!Init

\* The word that completes a command is the moment of its acceptance.
LEMMA ServiceCount ==
  ASSUME IInv, CountArgument
  PROVE  [Service!Next]_(Service!vars)
<1>1. CASE args_needed' # 0
  BY <1>1 DEF CountArgument, Service!vars
<1>2. CASE args_needed' = 0
  <2>1. pending' = Append(pending, [cmd |-> command, args |-> arg_buf])
    BY <1>2 DEF CountArgument
  <2>2. command \in Bytes
    BY DEF IInv, CountArgument, NoLeftoverArguments, ArgumentsCounted
  <2>3. arg_buf \in [1 .. Needed[command] -> Values]
    <3>1. IInv'
      BY CountArgumentStep
    <3>2. Len(arg_buf) = Needed[command]
      <4>1. pending \in Seq(Invocation) /\ pending' \in Seq(Invocation)
        BY <3>1 DEF IInv, TypeOK
      <4>2. Len(pending') = Len(pending) + 1 /\ Len(pending) + 1 \in 1 .. Len(pending')
        BY <2>1, <4>1
      <4>3. pending'[Len(pending) + 1] = [cmd |-> command, args |-> arg_buf]
        BY <2>1, <4>1
      <4> QED
        BY <3>1, <4>2, <4>3 DEF IInv, QueuedByCountdown
    <3>3. arg_buf \in Seq(Values)
      BY DEF IInv, TypeOK
    <3> QED
      BY <3>2, <3>3
  <2>4. Service!Accept
    <3> DEFINE new == [cmd |-> command, args |-> arg_buf]
    <3>1. pending \in Seq(Invocation) /\ new \in Invocation
      BY <2>2 DEF IInv, TypeOK, Invocation
    <3>2. new.cmd = command /\ new.args = arg_buf
      OBVIOUS
    <3> HIDE DEF new
    <3>3. Len(pending') = Len(pending) + 1 /\ pending'[Len(pending')] = new
      BY <2>1, <3>1 DEF new
    <3>4. Service!IsQueueable(new)
      BY <2>2, <2>3, <3>2 DEF Service!IsQueueable
    <3> QED
      BY <2>1, <3>3, <3>4 DEF CountArgument, Service!Accept, new
  <2> QED
    BY <2>4 DEF Service!Next
<1> QED
  BY <1>1, <1>2

LEMMA ServiceRegister ==
  ASSUME IInv, NEW w \in Words,
         ReadRegister(w) \/ SelectRegister(w) \/ WriteRegister(w)
  PROVE  [Service!Next]_(Service!vars)
<1>1. CASE ReadRegister(w)
  <2>1. Service!ReadRegister
    BY <1>1 DEF ReadRegister, Service!ReadRegister
  <2> QED
    BY <2>1 DEF Service!Next
<1>2. CASE SelectRegister(w)
  BY <1>2 DEF SelectRegister, Service!vars
<1>3. CASE WriteRegister(w) /\ command \in Regs
  <2>1. w \in Values
    BY DEF Values
  <2>2. Service!WriteRegister
    BY <1>3, <2>1 DEF WriteRegister, Service!WriteRegister
  <2> QED
    BY <2>2 DEF Service!Next
<1>4. CASE WriteRegister(w) /\ command \notin Regs
  BY <1>4 DEF WriteRegister, Service!vars
<1> QED
  BY <1>1, <1>2, <1>3, <1>4

LEMMA ServiceWorker ==
  ASSUME IInv, Worker
  PROVE  [Service!Next]_(Service!vars)
<1>1. CASE WorkerLock \/ WorkerBegin \/ WorkerUnlock
  BY <1>1 DEF WorkerLock, WorkerBegin, WorkerUnlock, Service!vars
<1>2. ASSUME NEW r \in Results, WorkerFinish(r)
      PROVE  Service!Execute
  BY <1>2 DEF WorkerFinish, IInv, ExecutesQueued, Service!Execute
<1> QED
  BY <1>1, <1>2 DEF Worker, Service!Next

\* Refinement: whole commands, first in first out, each executed once, and
\* nothing but register accesses and finished commands changes the result.
THEOREM Implementation == Spec => ImplementsService
<1>1. IInv /\ [Next]_devvars => [Service!Next]_(Service!vars)
  <2> SUFFICES ASSUME IInv, [Next]_devvars
               PROVE  [Service!Next]_(Service!vars)
    OBVIOUS
  <2>1. ASSUME NEW b \in Bytes, StartCommand(b)
        PROVE  [Service!Next]_(Service!vars)
    BY <2>1 DEF StartCommand, Service!vars
  <2>2. ASSUME NEW w, PushArgument(w)
        PROVE  [Service!Next]_(Service!vars)
    BY <2>2 DEF PushArgument, Service!vars
  <2>3. CASE UNCHANGED devvars
    BY <2>3 DEF devvars, Service!vars
  <2> QED
    BY <2>1, <2>2, <2>3, ServiceCount, ServiceRegister, ServiceWorker DEF Next, Out8, Out16
<1> QED
  BY <1>1, ServiceInit, Invariance, PTL DEF Spec, ImplementsService, Service!Spec

-----------------------------------------------------------------------------
(* DeviceDriver.                                                            *)


\* The script of a command: its number, its words, the result.
LEMMA CommandScript ==
  ASSUME NEW q \in Requests, IsCommand(q)
  PROVE  /\ q.cmd \in Bytes
         /\ q.args \in Seq(Words)
         /\ Len(q.args) \in Nat
         /\ AsCounted(q) => Len(q.args) = Needed[q.cmd] /\ Len(q.args) # 0
         /\ Script(q) \in Seq(Operations)
         /\ Len(Script(q)) = Len(q.args) + 2
         /\ Script(q)[1] = OUT8(q.cmd)
         /\ \A i \in 1 .. Len(q.args) : Script(q)[i + 1] = OUT16(q.args[i])
         /\ Script(q)[Len(q.args) + 2] = IN16
<1>1. /\ q.cmd \in Bytes /\ q.args \in Seq(Words)
      /\ AsCounted(q) => Len(q.args) = Needed[q.cmd] /\ Len(q.args) # 0
  BY DriverAssumption, NeededType DEF IsCommand, AsCounted
<1>2. Len(q.args) \in Nat
  BY <1>1
<1> DEFINE words == [i \in 1 .. Len(q.args) |-> OUT16(q.args[i])]
<1>3. words \in Seq(Operations) /\ Len(words) = Len(q.args)
  <2>1. ASSUME NEW i \in 1 .. Len(q.args) PROVE OUT16(q.args[i]) \in Operations
    <3>1. q.args[i] \in Words
      BY <1>1
    <3> QED
      BY <3>1 DEF OUT16, Operations
  <2> QED
    BY <1>2, <2>1
<1>4. <<OUT8(q.cmd)>> \in Seq(Operations) /\ <<IN16>> \in Seq(Operations)
  BY <1>1 DEF OUT8, Operations
<1>5. Script(q) = <<OUT8(q.cmd)>> \o words \o <<IN16>>
  BY DEF Script
<1> HIDE DEF words
<1>6. \A i \in 1 .. Len(q.args) : words[i] = OUT16(q.args[i])
  BY DEF words
<1> QED
  BY <1>1, <1>2, <1>3, <1>4, <1>5, <1>6

\* The scripts of a register access.
LEMMA RegisterScript ==
  ASSUME NEW q \in Requests, ~IsCommand(q)
  PROVE  /\ q.kind \in {"read", "write"}
         /\ q.reg \in 0 .. 255
         /\ Script(q) \in Seq(Operations)
         /\ Len(Script(q)) = 2
         /\ q.kind = "read" => /\ Script(q)[1] = OUT16(256 * REG_READ + q.reg)
                               /\ Script(q)[2] = IN16
         /\ q.kind = "write" => /\ Script(q)[1] = OUT16(256 * REG_WRITE + q.reg)
                                /\ Script(q)[2] = OUT16(q.val)
<1>1. CASE q.kind = "read"
  <2>1. q.reg \in 0 .. 255 /\ 256 * REG_READ + q.reg \in Words
    BY <1>1, DriverAssumption
  <2>2. OUT16(256 * REG_READ + q.reg) \in Operations /\ IN16 \in Operations
    BY <2>1 DEF OUT16, Operations
  <2>3. Script(q) = <<OUT16(256 * REG_READ + q.reg), IN16>>
    BY <1>1 DEF Script
  <2> QED
    BY <1>1, <2>1, <2>2, <2>3
<1>2. CASE q.kind = "write"
  <2>1. q.reg \in 0 .. 255 /\ 256 * REG_WRITE + q.reg \in Words /\ q.val \in Words
    BY <1>2, DriverAssumption
  <2>2. OUT16(256 * REG_WRITE + q.reg) \in Operations /\ OUT16(q.val) \in Operations
    BY <2>1 DEF OUT16, Operations
  <2>3. Script(q) = <<OUT16(256 * REG_WRITE + q.reg), OUT16(q.val)>>
    BY <1>2 DEF Script
  <2> QED
    BY <1>2, <2>1, <2>2, <2>3
<1> QED
  BY <1>1, <1>2, DriverAssumption DEF IsCommand

LEMMA RegisterWords ==
  ASSUME NEW r \in 0 .. 255
  PROVE  /\ Hi(256 * REG_READ + r) = REG_READ /\ Lo(256 * REG_READ + r) = r
         /\ Hi(256 * REG_WRITE + r) = REG_WRITE /\ Lo(256 * REG_WRITE + r) = r
         /\ REG_READ # REG_WRITE
  BY DEF Hi, Lo, REG_READ, REG_WRITE

LEMMA ScriptType ==
  ASSUME NEW q \in Requests
  PROVE  /\ Script(q) \in Seq(Operations)
         /\ Len(Script(q)) \in Nat \ {0, 1}
         /\ q.kind \in {"command", "read", "write"}
<1>1. CASE IsCommand(q)
  BY <1>1, CommandScript DEF IsCommand
<1>2. CASE ~IsCommand(q)
  BY <1>2, RegisterScript
<1> QED
  BY <1>1, <1>2

\* The kinds of operations are told apart.
LEMMA OperationKinds ==
  /\ \A v : OUT8(v).op = "out8" /\ OUT8(v).val = v
  /\ \A v : OUT16(v).op = "out16" /\ OUT16(v).val = v
  /\ IN16.op = "in16"
  /\ \A o \in Operations : /\ o.op = "out8" => o.val \in Bytes
                           /\ o.op = "out16" => o.val \in Words
  BY DEF OUT8, OUT16, IN16, Operations

\* One more operation is done: what is left is still the rest of the script.
LEMMA OneMoreSent ==
  ASSUME ScriptFollowed, todo # <<>>, todo' = Tail(todo), UNCHANGED request
  PROVE  /\ ScriptFollowed'
         /\ request \in Requests
         /\ Sent \in 0 .. Len(Script(request)) - 1
         /\ Sent' = Sent + 1
         /\ Head(todo) = Script(request)[Sent + 1]
         /\ Head(todo) \in Operations
<1>1. /\ request.kind # "none"
      /\ request \in Requests
      /\ todo \in Seq(Operations)
      /\ Len(todo) <= Len(Script(request))
      /\ \A i \in 1 .. Len(todo) : todo[i] = Script(request)[Sent + i]
  BY DEF ScriptFollowed
<1>2. Len(Script(request)) \in Nat
  BY <1>1, ScriptType
<1>3. /\ Len(todo) \in Nat \ {0}
      /\ Head(todo) = todo[1] /\ Head(todo) \in Operations
      /\ todo' \in Seq(Operations)
      /\ Len(todo') = Len(todo) - 1
      /\ \A i \in 1 .. Len(todo') : todo'[i] = todo[i + 1]
  BY <1>1
<1>4. Sent \in 0 .. Len(Script(request)) - 1 /\ Script(request)' = Script(request)
  BY <1>1, <1>2, <1>3 DEF Sent, Script, IsCommand
<1>5. Sent' = Sent + 1
  BY <1>2, <1>3, <1>4 DEF Sent
<1>6. \A i \in 1 .. Len(todo') : todo'[i] = Script(request)[Sent' + i]
  <2> SUFFICES ASSUME NEW i \in 1 .. Len(todo') PROVE todo'[i] = Script(request)[Sent' + i]
    OBVIOUS
  <2>1. i + 1 \in 1 .. Len(todo) /\ Sent' + i = Sent + (i + 1)
    BY <1>3, <1>4, <1>5
  <2> QED
    BY <1>1, <1>3, <2>1
<1>7. ScriptFollowed'
  BY <1>1, <1>2, <1>3, <1>4, <1>6 DEF ScriptFollowed
<1> QED
  BY <1>1, <1>3, <1>4, <1>5, <1>7

\* What the device may do when the driver outputs a value.
LEMMA OutputIsDeviceStep ==
  ASSUME ScriptFollowed, Output
  PROVE  /\ [Next]_devvars
         /\ todo # <<>> /\ todo' = Tail(todo) /\ UNCHANGED request
<1>1. /\ todo # <<>> /\ todo' = Tail(todo) /\ UNCHANGED request
      /\ \/ Head(todo).op = "out8" /\ Out8(Head(todo).val)
         \/ Head(todo).op = "out16" /\ Out16(Head(todo).val)
         \/ Head(todo).op = "out16" /\ DropsWord(Head(todo).val) /\ UNCHANGED devvars
         \/ Head(todo).op = "out8" /\ DropsByte /\ UNCHANGED devvars
  BY DEF Output
<1>2. Head(todo) \in Operations
  BY <1>1, OneMoreSent
<1> QED
  BY <1>1, <1>2, OperationKinds DEF Next

\* Nothing the worker does concerns the driver's place in its request.
LEMMA SameCollecting ==
  ASSUME UNCHANGED <<request, todo, cpu>>
  PROVE  /\ Sent' = Sent
         /\ Collecting' = Collecting
         /\ Selected' = Selected
  BY DEF Sent, Collecting, Selected, Script, IsCommand

\* Where the request begins and where it ends nothing is collected.
LEMMA AtTheEnds ==
  ASSUME request.kind = "none" \/ request \in Requests,
         request.kind = "none" \/ Sent = 0 \/ Sent = Len(Script(request))
  PROVE  ~Collecting /\ ~Selected
<1>1. CASE request.kind = "none"
  BY <1>1 DEF Collecting, Selected, IsCommand
<1>2. CASE request \in Requests /\ IsCommand(request)
  <2>1. Len(request.args) \in Nat /\ Len(Script(request)) = Len(request.args) + 2
    BY <1>2, CommandScript
  <2> QED
    BY <1>2, <2>1 DEF Collecting, Selected, IsCommand
<1>3. CASE request \in Requests /\ ~IsCommand(request)
  <2>1. Len(Script(request)) = 2
    BY <1>3, RegisterScript
  <2> QED
    BY <1>3, <2>1 DEF Collecting, Selected
<1> QED
  BY <1>1, <1>2, <1>3

LEMMA InitFramed == DriverInit => Framed
<1> SUFFICES ASSUME DriverInit PROVE Framed
  OBVIOUS
<1>1. IInv
  BY InitIInv DEF DriverInit
<1>2. request.kind = "none"
  BY DEF DriverInit
<1>3. ScriptFollowed /\ RequestCounted /\ StaysQuiet /\ QuietReadArrives
  BY <1>2 DEF DriverInit, ScriptFollowed, RequestCounted, IsCommand, StaysQuiet,
              QuietReadArrives, RegisterReadArrives
<1>4. InStep
  BY <1>2, AtTheEnds DEF DriverInit, Init, InStep
<1> QED
  BY <1>1, <1>3, <1>4 DEF DriverInit, Init, Framed

\* The driver turns to its next request: it is at the end of the one before.
LEMMA BeginFramed ==
  ASSUME Framed, NEW q \in Requests, Begin(q), IsCommand(q) => AsCounted(q)
  PROVE  Framed'
<1> USE DEF Framed
<1>1. IInv'
  BY NextIInv DEF Begin
<1>2. Script(q) \in Seq(Operations) /\ Len(Script(q)) \in Nat \ {0, 1}
      /\ q.kind \in {"command", "read", "write"}
  BY ScriptType
<1>3. Sent' = 0
  BY <1>2 DEF Begin, Sent
<1>4. ScriptFollowed'
  BY <1>2, <1>3 DEF Begin, ScriptFollowed
<1>5. InStep'
  <2>1. ~Collecting /\ ~Selected
    <3>1. request.kind # "none" => request \in Requests /\ Sent = Len(Script(request))
      BY ScriptType DEF Begin, ScriptFollowed, Sent
    <3> QED
      BY <3>1, AtTheEnds
  <2>2. ~Collecting' /\ ~Selected'
    <3>1. IsCommand(q) => Len(q.args) \in Nat
      BY CommandScript
    <3> QED
      BY <1>3, <3>1 DEF Begin, Collecting, Selected, IsCommand
  <2>3. state' = state /\ cpu' = cpu
    BY DEF Begin, devvars, protocol
  <2> QED
    BY <2>1, <2>2, <2>3 DEF InStep
<1>6. regs' = shadow'
  BY DEF Begin, devvars
<1>7. StaysQuiet' /\ RequestCounted'
  BY DEF Begin, StaysQuiet, devvars, RequestCounted, IsCommand, AsCounted
<1>8. QuietReadArrives'
  <2>1. todo' # <<IN16>>
    <3>1. Len(<<IN16>>) = 1
      OBVIOUS
    <3> QED
      BY <1>2, <3>1 DEF Begin
  <2> QED
    BY <2>1 DEF QuietReadArrives, RegisterReadArrives
<1> QED
  BY <1>1, <1>4, <1>5, <1>6, <1>7, <1>8

\* What an output does to what is known of a request's commands and registers.
LEMMA OutputOfCommand ==
  ASSUME Framed, Output, IsCommand(request)
  PROVE  /\ InStep'
         /\ regs' = regs /\ shadow' = shadow /\ pending' = pending
         /\ Sent' # Len(Script(request))
         /\ Unqueued /\ Unqueued'
<1> USE DEF Framed
<1> DEFINE n == Len(request.args)
<1>1. /\ request \in Requests
      /\ Sent \in 0 .. Len(Script(request)) - 1
      /\ Sent' = Sent + 1
      /\ Head(todo) = Script(request)[Sent + 1]
  BY OutputIsDeviceStep, OneMoreSent
<1>2. /\ request' = request
      /\ shadow' = shadow
      /\ \/ Head(todo).op = "out8" /\ Out8(Head(todo).val)
         \/ Head(todo).op = "out16" /\ Out16(Head(todo).val)
         \/ Head(todo).op = "out16" /\ DropsWord(Head(todo).val) /\ UNCHANGED devvars
         \/ Head(todo).op = "out8" /\ DropsByte /\ UNCHANGED devvars
  BY DEF Output, IsCommand
<1>3. /\ request.cmd \in Bytes /\ request.args \in Seq(Words) /\ n \in Nat \ {0}
      /\ Len(Script(request)) = n + 2
      /\ Script(request)[1] = OUT8(request.cmd)
      /\ \A i \in 1 .. n : Script(request)[i + 1] = OUT16(request.args[i])
      /\ Script(request)[n + 2] = IN16
  BY <1>1, CommandScript DEF RequestCounted
<1>4. ~Selected /\ ~Selected'
  BY <1>2 DEF Selected, IsCommand
<1>5. CASE Sent = 0
  <2>1. Head(todo).op = "out8" /\ Head(todo).val = request.cmd
    BY <1>1, <1>3, <1>5, OperationKinds
  <2>2. state = "Ready" /\ arg_buf = <<>>
    BY <1>1, <1>4, <1>5, AtTheEnds DEF InStep, IInv, NoLeftoverArguments
  <2>3. StartCommand(request.cmd)
    BY <1>2, <2>1, <2>2 DEF Out8, PushArgument, DropsByte
  <2>4. Collecting'
    BY <1>1, <1>2, <1>3, <1>5 DEF Collecting, IsCommand
  <2>5. InStep'
    BY <1>1, <1>2, <1>4, <1>5, <2>2, <2>3, <2>4 DEF StartCommand, InStep
  <2>6. Unqueued /\ Unqueued'
    BY <1>2, <1>5, <2>4 DEF Unqueued, IsCommand
  <2> QED
    BY <1>1, <1>2, <1>3, <1>5, <2>3, <2>5, <2>6 DEF StartCommand
<1>6. CASE Sent \in 1 .. n
  <2>1. Head(todo).op = "out16" /\ Head(todo).val = request.args[Sent]
    BY <1>1, <1>3, <1>6, OperationKinds
  <2>2. Collecting
    BY <1>6 DEF Collecting
  <2>3. /\ state = "CommandRq" /\ command = request.cmd /\ Len(arg_buf) = Sent - 1
        /\ \A i \in 1 .. Sent - 1 : arg_buf[i] = request.args[i]
    BY <2>2 DEF InStep
  <2>4. PushArgument(request.args[Sent])
    BY <1>2, <2>1, <2>3 DEF Out16, ReadRegister, SelectRegister, WriteRegister, DropsWord
  <2>5. Collecting'
    BY <1>1, <1>2, <1>3, <1>6, <2>4 DEF PushArgument, Collecting, IsCommand
  <2>6. /\ Len(arg_buf') = Sent' - 1
        /\ \A i \in 1 .. Sent' - 1 : arg_buf'[i] = request.args[i]
    <3>1. arg_buf \in Seq(Values)
      BY DEF IInv, TypeOK
    <3> QED
      BY <1>1, <1>6, <2>3, <2>4, <3>1 DEF PushArgument
  <2>7. InStep'
    BY <1>2, <1>4, <2>3, <2>4, <2>5, <2>6 DEF PushArgument, InStep
  <2>8. Unqueued /\ Unqueued'
    BY <1>2, <2>2, <2>5 DEF Unqueued, IsCommand
  <2> QED
    BY <1>1, <1>2, <1>3, <1>6, <2>4, <2>7, <2>8 DEF PushArgument
<1>7. CASE Sent = n + 1
  BY <1>1, <1>2, <1>3, <1>7, OperationKinds
<1> QED
  BY <1>1, <1>3, <1>5, <1>6, <1>7

LEMMA OutputOfRead ==
  ASSUME Framed, Output, request.kind = "read"
  PROVE  /\ InStep'
         /\ regs' = regs /\ shadow' = shadow /\ pending' = pending
         /\ QuietReadArrives'
<1> USE DEF Framed
<1>1. /\ request \in Requests
      /\ Sent \in 0 .. Len(Script(request)) - 1
      /\ Head(todo) = Script(request)[Sent + 1]
  BY OutputIsDeviceStep, OneMoreSent
<1>2. /\ request' = request
      /\ shadow' = shadow
      /\ \/ Head(todo).op = "out8" /\ Out8(Head(todo).val)
         \/ Head(todo).op = "out16" /\ Out16(Head(todo).val)
         \/ Head(todo).op = "out16" /\ DropsWord(Head(todo).val) /\ UNCHANGED devvars
         \/ Head(todo).op = "out8" /\ DropsByte /\ UNCHANGED devvars
  BY DEF Output
<1> DEFINE w == 256 * REG_READ + request.reg
<1>3. /\ request.reg \in 0 .. 255
      /\ Len(Script(request)) = 2
      /\ Script(request)[1] = OUT16(w)
      /\ Script(request)[2] = IN16
  BY <1>1, RegisterScript DEF IsCommand
<1>4. Hi(w) = REG_READ /\ Lo(w) = request.reg /\ REG_READ # REG_WRITE
  BY <1>3, RegisterWords
<1> HIDE DEF w
<1>5. ~Collecting /\ ~Selected /\ ~Collecting' /\ ~Selected'
  BY <1>2 DEF Collecting, Selected, IsCommand
<1>6. state = "Ready" /\ cpu = "run"
  BY <1>5 DEF InStep
<1>7. Head(todo).op = "out16" /\ Head(todo).val = w
  BY <1>1, <1>2, <1>3, OperationKinds
<1>8. ReadRegister(w) \/ (request.reg \notin Regs /\ UNCHANGED devvars)
  BY <1>2, <1>4, <1>6, <1>7 DEF Out16, PushArgument, SelectRegister, WriteRegister, DropsWord
<1>9. /\ state' = state /\ cpu' = cpu /\ regs' = regs /\ pending' = pending
      /\ request.reg \in Regs => result' = regs[request.reg]
  BY <1>4, <1>8 DEF ReadRegister, devvars, protocol
<1>10. InStep'
  BY <1>5, <1>6, <1>9 DEF InStep
<1>11. QuietReadArrives'
  BY <1>2, <1>9 DEF QuietReadArrives, RegisterReadArrives
<1> QED
  BY <1>2, <1>9, <1>10, <1>11

LEMMA OutputOfWrite ==
  ASSUME Framed, Output, request.kind = "write"
  PROVE  /\ InStep'
         /\ regs' = shadow' /\ pending' = pending
<1> USE DEF Framed
<1>1. /\ request \in Requests
      /\ Sent \in 0 .. Len(Script(request)) - 1
      /\ Sent' = Sent + 1
      /\ Head(todo) = Script(request)[Sent + 1]
  BY OutputIsDeviceStep, OneMoreSent
<1>2. /\ request' = request
      /\ shadow' = IF Len(todo) = 1 THEN [shadow EXCEPT ![request.reg] = request.val] ELSE shadow
      /\ \/ Head(todo).op = "out8" /\ Out8(Head(todo).val)
         \/ Head(todo).op = "out16" /\ Out16(Head(todo).val)
         \/ Head(todo).op = "out16" /\ DropsWord(Head(todo).val) /\ UNCHANGED devvars
         \/ Head(todo).op = "out8" /\ DropsByte /\ UNCHANGED devvars
  BY DEF Output
<1> DEFINE w == 256 * REG_WRITE + request.reg
<1>3. /\ request.reg \in 0 .. 255
      /\ Len(Script(request)) = 2
      /\ Script(request)[1] = OUT16(w)
      /\ Script(request)[2] = OUT16(request.val)
  BY <1>1, RegisterScript DEF IsCommand
<1>4. Hi(w) = REG_WRITE /\ Lo(w) = request.reg /\ REG_READ # REG_WRITE
  BY <1>3, RegisterWords
<1> HIDE DEF w
<1>5. ~Collecting /\ ~Collecting' /\ (Selected <=> Sent = 1) /\ (Selected' <=> Sent' = 1)
  BY <1>2 DEF Collecting, Selected, IsCommand
<1>6. regs \in [Regs -> Values]
  BY DEF IInv, TypeOK
<1>7. Len(todo) \in Nat /\ Len(todo) = 2 - Sent
  BY <1>1, <1>3 DEF Sent, ScriptFollowed
<1>8. CASE Sent = 0
  <2>1. Head(todo).op = "out16" /\ Head(todo).val = w
    BY <1>1, <1>3, <1>8, OperationKinds
  <2>2. state = "Ready" /\ cpu = "run"
    BY <1>5, <1>8 DEF InStep
  <2>3. SelectRegister(w)
    BY <1>2, <1>4, <2>1, <2>2 DEF Out16, PushArgument, ReadRegister, WriteRegister, DropsWord
  <2>4. shadow' = shadow
    BY <1>2, <1>7, <1>8
  <2> QED
    BY <1>1, <1>2, <1>4, <1>5, <1>8, <2>3, <2>4 DEF SelectRegister, InStep
<1>9. CASE Sent = 1
  <2>1. Head(todo).op = "out16" /\ Head(todo).val = request.val
    BY <1>1, <1>3, <1>9, OperationKinds
  <2>2. state = "RegisterWrite" /\ command = request.reg /\ cpu = "run"
    BY <1>5, <1>9 DEF InStep
  <2>3. WriteRegister(request.val)
    BY <1>2, <2>1, <2>2 DEF Out16, PushArgument, ReadRegister, SelectRegister, DropsWord
  <2>4. shadow' = [regs EXCEPT ![request.reg] = request.val]
    BY <1>2, <1>7, <1>9
  <2>5. regs' = shadow'
    <3>1. regs' = IF request.reg \in Regs THEN [regs EXCEPT ![request.reg] = request.val] ELSE regs
      BY <2>2, <2>3 DEF WriteRegister
    <3> QED
      BY <1>6, <2>4, <3>1
  <2> QED
    BY <1>1, <1>5, <1>9, <2>3, <2>5 DEF WriteRegister, InStep
<1> QED
  BY <1>1, <1>3, <1>8, <1>9

\* An output puts driver and device one step further, together.
LEMMA OutputFramed ==
  ASSUME Framed, Output
  PROVE  Framed'
<1> USE DEF Framed
<1>1. IInv'
  BY OutputIsDeviceStep, NextIInv
<1>2. ScriptFollowed' /\ request \in Requests
  BY OutputIsDeviceStep, OneMoreSent
<1>3. request' = request /\ quiet' = quiet /\ RequestCounted'
  BY DEF Output, RequestCounted, IsCommand, AsCounted
<1>4. CASE IsCommand(request)
  <2>1. InStep' /\ regs' = shadow'
    BY <1>4, OutputOfCommand
  <2>2. StaysQuiet' /\ QuietReadArrives'
    BY <1>3, <1>4 DEF IsCommand, StaysQuiet, QuietReadArrives, RegisterReadArrives
  <2> QED
    BY <1>1, <1>2, <1>3, <2>1, <2>2
<1>5. CASE request.kind = "read"
  <2>1. InStep' /\ regs' = shadow' /\ QuietReadArrives' /\ pending' = pending
    BY <1>5, OutputOfRead
  <2>2. StaysQuiet'
    BY <1>3, <2>1 DEF StaysQuiet
  <2> QED
    BY <1>1, <1>2, <1>3, <2>1, <2>2
<1>6. CASE request.kind = "write"
  <2>1. InStep' /\ regs' = shadow'
    BY <1>6, OutputOfWrite
  <2>2. StaysQuiet' /\ QuietReadArrives'
    BY <1>3, <1>6 DEF StaysQuiet, QuietReadArrives, RegisterReadArrives
  <2> QED
    BY <1>1, <1>2, <1>3, <2>1, <2>2
<1> QED
  BY <1>2, <1>4, <1>5, <1>6, ScriptType DEF IsCommand

\* IN16 is the last operation of a request: the device is ready again.
LEMMA InputFramed ==
  ASSUME Framed, Input
  PROVE  Framed' /\ ~Collecting /\ ~Collecting' /\ Sent > 0 /\ Sent' > 0
<1> USE DEF Framed
<1>1. /\ cpu = "run" /\ todo # <<>> /\ Head(todo) = IN16 /\ todo' = Tail(todo)
      /\ UNCHANGED <<devvars, request, asked, done, shadow, quiet>>
  BY DEF Input
<1>2. /\ ScriptFollowed' /\ request \in Requests
      /\ Sent \in 0 .. Len(Script(request)) - 1
      /\ Sent' = Sent + 1
      /\ Script(request)[Sent + 1] = IN16
  BY <1>1, OneMoreSent
<1>3. Sent + 1 = Len(Script(request)) /\ Sent > 0 /\ ~Collecting /\ ~Selected
  <2>1. CASE IsCommand(request)
    <3>1. /\ Len(request.args) \in Nat
          /\ Len(Script(request)) = Len(request.args) + 2
          /\ Script(request)[1] = OUT8(request.cmd)
          /\ \A i \in 1 .. Len(request.args) : Script(request)[i + 1] = OUT16(request.args[i])
      BY <1>2, <2>1, CommandScript
    <3>2. Sent # 0 /\ Sent \notin 1 .. Len(request.args)
      BY <1>2, <3>1, OperationKinds
    <3> QED
      BY <1>1, <1>2, <2>1, <3>1, <3>2 DEF Collecting, Selected, IsCommand
  <2>2. CASE request.kind = "read"
    <3>1. Len(Script(request)) = 2 /\ Script(request)[1] = OUT16(256 * REG_READ + request.reg)
      BY <1>2, <2>2, RegisterScript DEF IsCommand
    <3>2. Sent # 0
      BY <1>2, <3>1, OperationKinds
    <3> QED
      BY <1>2, <2>2, <3>1, <3>2 DEF Collecting, Selected, IsCommand
  <2>3. CASE request.kind = "write"
    <3>1. /\ Len(Script(request)) = 2
          /\ Script(request)[1] = OUT16(256 * REG_WRITE + request.reg)
          /\ Script(request)[2] = OUT16(request.val)
      BY <1>2, <2>3, RegisterScript DEF IsCommand
    <3> QED
      BY <1>2, <3>1, OperationKinds
  <2> QED
    BY <1>2, <2>1, <2>2, <2>3, ScriptType DEF IsCommand
<1>4. IInv'
  BY <1>1, NextIInv
<1>5. Sent' = Len(Script(request))'
  BY <1>1, <1>2, <1>3 DEF Script, IsCommand
<1>6. ~Collecting' /\ ~Selected'
  <2>1. Sent' = Len(Script(request)) /\ request' = request
    BY <1>1, <1>2, <1>3
  <2>2. IsCommand(request) => Len(request.args) \in Nat /\ Len(Script(request)) = Len(request.args) + 2
    BY <1>2, CommandScript
  <2>3. ~IsCommand(request) => Len(Script(request)) = 2
    BY <1>2, RegisterScript
  <2>4. CASE IsCommand(request)
    BY <2>1, <2>2, <2>4 DEF Collecting, Selected, IsCommand
  <2>5. CASE ~IsCommand(request)
    BY <2>1, <2>3, <2>5 DEF Collecting, Selected, IsCommand
  <2> QED
    BY <2>4, <2>5
<1>7. InStep'
  BY <1>1, <1>3, <1>6 DEF InStep, devvars, protocol
<1>8. regs' = shadow' /\ StaysQuiet' /\ RequestCounted'
  BY <1>1 DEF devvars, StaysQuiet, RequestCounted, IsCommand, AsCounted
<1>9. QuietReadArrives'
  <2>1. Len(todo') = 0
    <3>1. Len(Script(request)) \in Nat /\ Len(todo) \in Nat \ {0} /\ Len(todo') = Len(todo) - 1
      BY <1>1, <1>2, ScriptType DEF ScriptFollowed
    <3> QED
      BY <1>3, <3>1 DEF Sent
  <2>2. Len(<<IN16>>) = 1
    OBVIOUS
  <2>3. todo' # <<IN16>>
    BY <2>1, <2>2
  <2> QED
    BY <2>3 DEF QuietReadArrives, RegisterReadArrives
<1> QED
  BY <1>2, <1>3, <1>4, <1>6, <1>7, <1>8, <1>9

\* Under the mutex a word is counted: the last one makes the command leave the
\* buffer, with the words of the request, and the device ready.
LEMMA FinishOutputFramed ==
  ASSUME Framed, FinishOutput
  PROVE  /\ Framed'
         /\ IsCommand(request) /\ Collecting /\ Sent > 0 /\ Sent' = Sent
         /\ IF Collecting' THEN pending' = pending
            ELSE pending' = Append(pending, [cmd |-> request.cmd, args |-> request.args])
<1> USE DEF Framed
<1>1. CountArgument /\ UNCHANGED drivervars
  BY DEF FinishOutput
<1>2. IInv'
  BY <1>1, NextIInv DEF Next
<1>3. UNCHANGED <<request, todo, asked, done, shadow, quiet>>
  BY <1>1 DEF drivervars
<1>4. cpu = "lock" /\ cpu' = "run" /\ Collecting /\ ~Selected /\ IsCommand(request)
  BY <1>1 DEF CountArgument, InStep, Collecting
<1>5. /\ request \in Requests
      /\ Sent' = Sent
      /\ (Selected' <=> Selected)
  BY <1>3, <1>4 DEF ScriptFollowed, IsCommand, Sent, Selected, Script
<1>6. /\ request.cmd \in Bytes /\ request.args \in Seq(Words) /\ Len(request.args) \in Nat \ {0}
      /\ Len(request.args) = Needed[request.cmd]
  BY <1>4, <1>5, CommandScript DEF RequestCounted
<1>7. /\ state = "CommandRq" /\ command = request.cmd /\ Len(arg_buf) = Sent - 1
      /\ \A i \in 1 .. Sent - 1 : arg_buf[i] = request.args[i]
  BY <1>4 DEF InStep
<1>8. Sent \in 1 .. Len(request.args) + 1
  BY <1>4, <1>6 DEF Collecting
<1>9. Collecting' <=> Sent \in 1 .. Len(request.args)
  BY <1>3, <1>4, <1>5 DEF Collecting
<1>10. arg_buf \in Seq(Values) /\ pending \in Seq(Invocation)
  BY DEF IInv, TypeOK
<1>11. ScriptFollowed'
  BY <1>3, <1>5 DEF ScriptFollowed, Script, IsCommand
<1>12. regs' = shadow'
  BY <1>1, <1>3 DEF CountArgument
<1>13. StaysQuiet' /\ QuietReadArrives' /\ RequestCounted'
  BY <1>3, <1>4 DEF IsCommand, StaysQuiet, QuietReadArrives, RegisterReadArrives, RequestCounted,
                    AsCounted
<1>14. CASE args_needed' = 0
  <2> SUFFICES InStep' /\ ~Collecting' /\ pending' = Append(pending, [cmd |-> request.cmd, args |-> request.args])
    BY <1>2, <1>4, <1>5, <1>8, <1>11, <1>12, <1>13
  <2>1. pending' = Append(pending, [cmd |-> command, args |-> arg_buf]) /\ state' = "Ready"
    BY <1>1, <1>14 DEF CountArgument
  <2>2. Len(arg_buf) = Needed[command]
    <3>1. pending' \in Seq(Invocation)
      BY <1>2 DEF IInv, TypeOK
    <3>2. Len(pending') = Len(pending) + 1 /\ Len(pending) + 1 \in 1 .. Len(pending')
      BY <1>10, <2>1, <3>1
    <3>3. pending'[Len(pending) + 1] = [cmd |-> command, args |-> arg_buf]
      BY <1>10, <2>1
    <3> QED
      BY <1>2, <3>2, <3>3 DEF IInv, QueuedByCountdown
  <2>3. Sent = Len(request.args) + 1
    BY <1>6, <1>7, <1>8, <2>2
  <2>4. arg_buf = request.args
    <3>1. DOMAIN arg_buf = 1 .. Len(request.args) /\ DOMAIN request.args = 1 .. Len(request.args)
      BY <1>6, <1>7, <1>10, <2>3
    <3>2. \A i \in 1 .. Len(request.args) : arg_buf[i] = request.args[i]
      BY <1>6, <1>7, <2>3
    <3>3. arg_buf = [i \in DOMAIN arg_buf |-> arg_buf[i]]
      BY <1>10
    <3>4. request.args = [i \in DOMAIN request.args |-> request.args[i]]
      BY <1>6
    <3> QED
      BY <3>1, <3>2, <3>3, <3>4
  <2>5. ~Collecting'
    BY <1>6, <1>9, <2>3
  <2>6. InStep'
    BY <1>4, <1>5, <2>1, <2>5 DEF InStep
  <2> QED
    BY <1>7, <2>1, <2>4, <2>5, <2>6
<1>15. CASE args_needed' # 0
  <2> SUFFICES InStep' /\ Collecting' /\ pending' = pending
    BY <1>2, <1>4, <1>5, <1>8, <1>11, <1>12, <1>13
  <2>1. /\ UNCHANGED <<pending, arg_buf, state, command>>
    BY <1>1, <1>15 DEF CountArgument
  <2>2. Len(arg_buf) < Needed[command]
    <3>1. Counted' \in 0 .. Needed[command] - 1
      BY <1>2, <1>7, <2>1 DEF IInv, ArgumentsCounted
    <3>2. Counted' = Len(arg_buf)
      BY <1>4, <1>10, <2>1 DEF Counted
    <3> QED
      BY <1>6, <1>7, <3>1, <3>2
  <2>3. Collecting'
    BY <1>6, <1>7, <1>8, <1>9, <2>2
  <2>4. InStep'
    BY <1>3, <1>4, <1>5, <1>7, <2>1, <2>3 DEF InStep
  <2> QED
    BY <2>1, <2>3, <2>4
<1> QED
  BY <1>14, <1>15

\* The worker runs whenever it likes; it takes nothing from a request under way
\* and, as nothing is queued, leaves a quiet register read its result.
LEMMA WorkerKeepsFramed ==
  ASSUME Framed, WorkerStep
  PROVE  /\ Framed'
         /\ Sent' = Sent /\ Collecting' = Collecting /\ UNCHANGED <<request, asked>>
<1> USE DEF Framed
<1>1. Worker /\ UNCHANGED <<request, todo, asked, shadow, quiet>>
  BY DEF WorkerStep
<1>2. IInv'
  BY <1>1, NextIInv DEF Next
<1>3. /\ UNCHANGED <<state, args_needed, command, arg_buf, regs, cpu>>
      /\ \/ pending' = pending /\ result' = result
         \/ pending # <<>> /\ pending' = Tail(pending)
  BY <1>1 DEF Worker, WorkerLock, WorkerBegin, WorkerFinish, WorkerUnlock, protocol,
              IInv, ExecutesQueued
<1>4. Sent' = Sent /\ Collecting' = Collecting /\ Selected' = Selected
  BY <1>1, <1>3, SameCollecting
<1>5. ScriptFollowed'
  BY <1>1, <1>4 DEF ScriptFollowed, Script, IsCommand
<1>6. InStep'
  BY <1>1, <1>3, <1>4 DEF InStep
<1>7. regs' = shadow'
  BY <1>1, <1>3
<1>8. StaysQuiet' /\ QuietReadArrives' /\ RequestCounted'
  BY <1>1, <1>3 DEF StaysQuiet, QuietReadArrives, RegisterReadArrives, RequestCounted, IsCommand,
                    AsCounted
<1> QED
  BY <1>1, <1>2, <1>4, <1>5, <1>6, <1>7, <1>8

LEMMA UnchangedKeepsFramed ==
  ASSUME Framed, UNCHANGED allvars
  PROVE  /\ Framed'
         /\ Sent' = Sent /\ Collecting' = Collecting
<1> USE DEF Framed
<1>1. UNCHANGED devvars /\ UNCHANGED drivervars
  BY DEF allvars
<1>2. UNCHANGED <<request, todo, shadow, quiet>>
  BY <1>1 DEF drivervars
<1>3. UNCHANGED <<state, command, arg_buf, pending, result, regs, cpu>>
  BY <1>1 DEF devvars, protocol
<1>4. Sent' = Sent /\ Collecting' = Collecting /\ Selected' = Selected
  BY <1>2, <1>3, SameCollecting
<1>5. IInv'
  BY <1>1, NextIInv
<1>6. ScriptFollowed' /\ InStep'
  <2>1. ScriptFollowed'
    BY <1>2, <1>4 DEF ScriptFollowed, Script, IsCommand
  <2>2. InStep'
    BY <1>2, <1>3, <1>4 DEF InStep
  <2> QED
    BY <2>1, <2>2
<1>7. regs' = shadow' /\ StaysQuiet' /\ QuietReadArrives' /\ RequestCounted'
  BY <1>2, <1>3 DEF StaysQuiet, QuietReadArrives, RegisterReadArrives, RequestCounted, IsCommand,
                    AsCounted
<1> QED
  BY <1>4, <1>5, <1>6, <1>7

-------------------------------------------------------------------------------
(* Whatever the driver sends, it stays in its script and the device's own    *)
(* invariant holds; as long as the two count alike, so does their agreement. *)

LEMMA EveryStep ==
  ASSUME IInv, ScriptFollowed, asked \in Seq(Requests), [DriverNext]_allvars
  PROVE  IInv' /\ ScriptFollowed' /\ asked' \in Seq(Requests)
<1>1. ASSUME NEW q \in Requests, Begin(q)
      PROVE  IInv' /\ ScriptFollowed' /\ asked' \in Seq(Requests)
  <2>1. Script(q) \in Seq(Operations) /\ Len(Script(q)) \in Nat \ {0, 1}
        /\ q.kind \in {"command", "read", "write"}
    BY ScriptType
  <2>2. request' = q /\ todo' = Script(q) /\ UNCHANGED devvars
        /\ (asked' = Append(asked, q) \/ asked' = asked)
    BY <1>1 DEF Begin
  <2>3. Sent' = 0
    BY <2>1, <2>2 DEF Sent
  <2> QED
    BY <2>1, <2>2, <2>3, NextIInv DEF ScriptFollowed
<1>2. CASE Output
  BY <1>2, OutputIsDeviceStep, OneMoreSent, NextIInv DEF Output
<1>3. CASE Input
  <2>1. UNCHANGED devvars /\ todo # <<>> /\ todo' = Tail(todo) /\ UNCHANGED <<request, asked>>
    BY <1>3 DEF Input
  <2> QED
    BY <2>1, OneMoreSent, NextIInv
<1>4. CASE UNCHANGED <<request, todo, asked>> /\ [Next]_devvars
  <2>1. Script(request)' = Script(request) /\ Sent' = Sent
    BY <1>4 DEF Sent, Script, IsCommand
  <2>2. ScriptFollowed'
    BY <1>4, <2>1 DEF ScriptFollowed
  <2> QED
    BY <1>4, <2>2, NextIInv
<1>5. CASE FinishOutput
  BY <1>4, <1>5 DEF FinishOutput, drivervars, Next
<1>6. CASE WorkerStep
  BY <1>4, <1>6 DEF WorkerStep, Next
<1>7. CASE UNCHANGED allvars
  <2>1. UNCHANGED devvars /\ UNCHANGED drivervars
    BY <1>7 DEF allvars
  <2> QED
    BY <1>4, <2>1 DEF drivervars
<1> QED
  BY <1>1, <1>2, <1>3, <1>5, <1>6, <1>7 DEF DriverNext

\* A new request is counted with those before it.
LEMMA CountedAppend ==
  ASSUME NEW q \in Requests, asked \in Seq(Requests), asked' = Append(asked, q)
  PROVE  /\ AllCounted' <=> AllCounted /\ AsCounted(q)
         /\ \A n \in 1 .. Len(asked) : CountedUpTo(n)' <=> CountedUpTo(n)
<1>1. /\ Len(asked) \in Nat /\ Len(asked') = Len(asked) + 1
      /\ \A i \in 1 .. Len(asked) : asked'[i] = asked[i]
      /\ asked'[Len(asked) + 1] = q
  OBVIOUS
<1>2. \A i \in 1 .. Len(asked') : i \in 1 .. Len(asked) \/ i = Len(asked) + 1
  BY <1>1
<1>3. AllCounted' <=> AllCounted /\ AsCounted(q)
  BY <1>1, <1>2 DEF AllCounted, CountedUpTo, AsCounted
<1>4. \A n \in 1 .. Len(asked) : CountedUpTo(n)' <=> CountedUpTo(n)
  BY <1>1 DEF CountedUpTo, AsCounted
<1> QED
  BY <1>3, <1>4

LEMMA SameAsked ==
  ASSUME asked' = asked
  PROVE  (AllCounted' <=> AllCounted) /\ \A n : CountedUpTo(n)' <=> CountedUpTo(n)
  BY DEF AllCounted, CountedUpTo, AsCounted

LEMMA InitDriverIInv == DriverInit => DriverIInv
<1>1. DriverInit => Framed /\ asked \in Seq(Requests)
  BY InitFramed DEF DriverInit
<1> QED
  BY <1>1 DEF DriverIInv, Framed

LEMMA NextDriverIInv == DriverIInv /\ [DriverNext]_allvars => DriverIInv'
<1> SUFFICES ASSUME DriverIInv, [DriverNext]_allvars PROVE DriverIInv'
  OBVIOUS
<1>1. IInv' /\ ScriptFollowed' /\ asked' \in Seq(Requests)
  BY EveryStep DEF DriverIInv
<1>2. ASSUME NEW q \in Requests, Begin(q), AllCounted' PROVE Framed'
  <2>1. AllCounted /\ (IsCommand(q) => AsCounted(q))
    <3>1. CASE IsCommand(q)
      BY <1>2, <3>1, CountedAppend DEF Begin, DriverIInv
    <3>2. CASE ~IsCommand(q)
      BY <1>2, <3>2, SameAsked DEF Begin
    <3> QED
      BY <3>1, <3>2
  <2> QED
    BY <1>2, <2>1, BeginFramed DEF DriverIInv
<1>3. ASSUME Output \/ Input \/ FinishOutput \/ WorkerStep \/ UNCHANGED allvars, AllCounted'
      PROVE  Framed'
  <2>1. asked' = asked
    BY <1>3 DEF Output, Input, FinishOutput, WorkerStep, allvars, drivervars
  <2>2. Framed
    BY <1>3, <2>1, SameAsked DEF DriverIInv
  <2> QED
    BY <1>3, <2>2, OutputFramed, InputFramed, FinishOutputFramed, WorkerKeepsFramed,
       UnchangedKeepsFramed
<1>4. AllCounted' => Framed'
  BY <1>2, <1>3 DEF DriverNext
<1> QED
  BY <1>1, <1>4 DEF DriverIInv

-------------------------------------------------------------------------------
\* The invariant of driver and device holds in every reachable state.
THEOREM DriverInvariance == DriverSpec => []DriverIInv
  BY InitDriverIInv, NextDriverIInv, PTL DEF DriverSpec

LEMMA EndOfRequest ==
  ASSUME ScriptFollowed, todo = <<>>
  PROVE  ~Collecting /\ ~Selected /\ (request.kind # "none" => request \in Requests /\ Sent # 0)
<1>1. request.kind # "none" => request \in Requests /\ Sent = Len(Script(request))
  BY ScriptType DEF ScriptFollowed, Sent
<1> QED
  BY <1>1, AtTheEnds, ScriptType

\* Whatever requests the driver makes, and however the worker runs beside it,
\* the device is ready wherever a request begins, up to the first request with
\* another number of words than the device counts.
THEOREM FramingAlwaysAgrees == DriverSpec => []FramingAgrees
<1>1. DriverIInv => FramingAgrees
  BY EndOfRequest DEF DriverIInv, Framed, FramingAgrees, BetweenRequests, InStep
<1> QED
  BY <1>1, DriverInvariance, PTL

\* Up to there, the registers are what the driver wrote, commands and all.
THEOREM RegistersAlwaysAsWritten == DriverSpec => []RegistersAsWritten
<1>1. DriverIInv => RegistersAsWritten
  BY DEF DriverIInv, Framed, RegistersAsWritten
<1> QED
  BY <1>1, DriverInvariance, PTL

\* Up to there, a register read arrives, when no command was queued as it began.
THEOREM QuietReadsArrive == DriverSpec => []QuietRegisterRead
<1>1. DriverIInv => QuietRegisterRead
  BY DEF DriverIInv, Framed, QuietRegisterRead
<1> QED
  BY <1>1, DriverInvariance, PTL

-------------------------------------------------------------------------------
(* Once and in order.                                                        *)

LEMMA FirstMoves ==
  ASSUME NEW S, NEW e \in S, NEW d \in Seq(S), NEW q \in Seq(S), NEW t \in Seq(S),
         Len(t) = Len(q) - 1, q[1] = e, \A i \in 1 .. Len(q) - 1 : t[i] = q[i + 1]
  PROVE  Append(d, e) \o t = d \o q
<1> DEFINE a == Append(d, e)
<1>1. /\ Len(d) \in Nat /\ Len(t) \in Nat /\ Len(q) = Len(t) + 1
      /\ a \in Seq(S) /\ Len(a) = Len(d) + 1
      /\ \A i \in 1 .. Len(d) : a[i] = d[i]
      /\ a[Len(d) + 1] = e
  BY AppendProperties
<1> HIDE DEF a
<1> DEFINE left == a \o t
           right == d \o q
<1>2. /\ left \in Seq(S) /\ Len(left) = Len(d) + 1 + Len(t)
      /\ \A i \in 1 .. Len(d) + 1 + Len(t) :
           left[i] = IF i <= Len(d) + 1 THEN a[i] ELSE t[i - (Len(d) + 1)]
  <2>1. /\ left \in Seq(S) /\ Len(left) = Len(a) + Len(t)
        /\ \A i \in 1 .. Len(a) + Len(t) :
             left[i] = IF i <= Len(a) THEN a[i] ELSE t[i - Len(a)]
    <3>1. a \in Seq(S)
      BY <1>1
    <3> QED
      BY <3>1, ConcatProperties, Zenon
  <2> QED
    BY <1>1, <2>1
<1>3. /\ right \in Seq(S) /\ Len(right) = Len(d) + 1 + Len(t)
      /\ \A i \in 1 .. Len(d) + 1 + Len(t) :
           right[i] = IF i <= Len(d) THEN d[i] ELSE q[i - Len(d)]
  <2>1. /\ right \in Seq(S) /\ Len(right) = Len(d) + Len(q)
        /\ \A i \in 1 .. Len(d) + Len(q) :
             right[i] = IF i <= Len(d) THEN d[i] ELSE q[i - Len(d)]
    BY ConcatProperties, Zenon
  <2> HIDE DEF right
  <2>2. Len(d) + Len(q) = Len(d) + 1 + Len(t)
    BY <1>1
  <2> QED
    BY <2>1, <2>2
<1> HIDE DEF left, right
<1>4. ASSUME NEW i \in 1 .. Len(d) + 1 + Len(t)
      PROVE  left[i] = right[i]
  <2>1. CASE i <= Len(d)
    BY <1>1, <1>2, <1>3, <2>1
  <2>2. CASE i = Len(d) + 1
    BY <1>1, <1>2, <1>3, <2>2
  <2>3. CASE i > Len(d) + 1
    <3> DEFINE k == i - (Len(d) + 1)
    <3>1. k \in 1 .. Len(q) - 1 /\ k + 1 = i - Len(d)
      BY <1>1, <2>3
    <3>2. left[i] = t[k] /\ right[i] = q[i - Len(d)]
      BY <1>1, <1>2, <1>3, <2>3
    <3> HIDE DEF k
    <3>3. t[k] = q[k + 1]
      BY <3>1
    <3> QED
      BY <3>1, <3>2, <3>3
  <2>4. i <= Len(d) \/ i = Len(d) + 1 \/ i > Len(d) + 1
    BY <1>1
  <2> QED
    BY <2>1, <2>2, <2>3, <2>4
<1>5. left = right
  BY <1>1, <1>2, <1>3, <1>4, SeqEqual
<1> QED
  BY <1>5 DEF left, right, a

\* What is known is a sequence of invocations; it grows at its end when a command
\* is queued and stays the same when one is done.
LEMMA KnownType ==
  ASSUME done \in Seq(Invocation), pending \in Seq(Invocation)
  PROVE  Known \in Seq(Invocation)
  BY DEF Known

LEMMA AppendToSecond ==
  ASSUME NEW S, NEW s \in Seq(S), NEW t \in Seq(S), NEW v \in S
  PROVE  s \o Append(t, v) = Append(s \o t, v)
<1> DEFINE one == <<v>>
<1>1. one \in Seq(S)
  OBVIOUS
<1>2. Append(t, v) = t \o one /\ Append(s \o t, v) = (s \o t) \o one
  OBVIOUS
<1> HIDE DEF one
<1>3. (s \o t) \o one = s \o (t \o one)
  BY <1>1, ConcatAssociative
<1> QED
  BY <1>2, <1>3

LEMMA KnownAppend ==
  ASSUME done \in Seq(Invocation), pending \in Seq(Invocation), NEW v \in Invocation,
         done' = done, pending' = Append(pending, v)
  PROVE  Known' = Append(Known, v)
<1>1. done \o Append(pending, v) = Append(done \o pending, v)
  BY AppendToSecond
<1> QED
  BY <1>1 DEF Known

LEMMA KnownMoves ==
  ASSUME done \in Seq(Invocation), pending \in Seq(Invocation), pending # <<>>,
         done' = Append(done, Head(pending)), pending' = Tail(pending)
  PROVE  Known' = Known
<1>1. /\ Tail(pending) \in Seq(Invocation) /\ Len(Tail(pending)) = Len(pending) - 1
      /\ pending[1] = Head(pending) /\ Head(pending) \in Invocation
      /\ \A i \in 1 .. Len(pending) - 1 : Tail(pending)[i] = pending[i + 1]
  OBVIOUS
<1> QED
  BY <1>1, FirstMoves DEF Known

LEMMA InitBooks == DriverInit => Books
<1> SUFFICES ASSUME DriverInit PROVE Books
  OBVIOUS
<1>1. done = <<>> /\ asked = <<>> /\ pending = <<>> /\ ~Unqueued
  BY DEF DriverInit, Init, Unqueued, IsCommand
<1>2. Known = <<>> /\ AskedFor = <<>>
  BY <1>1 DEF Known, AskedFor
<1> QED
  BY <1>1, <1>2 DEF Books, Accounts, KeptInOrder

\* What the accounts say of a single command: the first of them are known.
LEMMA AccountsInOrder ==
  ASSUME Accounts, asked \in Seq(Requests), Known \in Seq(Invocation)
  PROVE  /\ ~Unqueued => Len(Known) = Len(asked)
         /\ \A n \in 1 .. Len(asked) :
              n <= Len(Known) \/ (Unqueued /\ n = Len(asked))
         /\ \A n \in 1 .. Len(asked) : n <= Len(Known) => Known[n] = Invoked(asked[n])
<1>1. /\ Len(AskedFor) = Len(asked) /\ Len(asked) \in Nat /\ Len(Known) \in Nat
      /\ \A n \in 1 .. Len(asked) : AskedFor[n] = Invoked(asked[n])
  BY DEF AskedFor
<1>2. CASE Unqueued
  <2>1. AskedFor = Append(Known, Invoked(request))
    BY <1>2 DEF Accounts
  <2>2. Len(asked) = Len(Known) + 1 /\ \A n \in 1 .. Len(Known) : AskedFor[n] = Known[n]
    BY <1>1, <2>1
  <2> QED
    BY <1>1, <1>2, <2>2
<1>3. CASE ~Unqueued
  <2>1. AskedFor = Known
    BY <1>3 DEF Accounts
  <2> QED
    BY <1>1, <1>3, <2>1
<1> QED
  BY <1>2, <1>3

\* The books after a step that keeps what is asked and known.
LEMMA SameBooks ==
  ASSUME Books, UNCHANGED <<request, asked>>, Known' = Known, Unqueued' <=> Unqueued,
         done' \in Seq(Invocation)
  PROVE  Books'
<1>1. AskedFor' = AskedFor
  BY DEF AskedFor, Invoked
<1>2. Accounts => Accounts'
  BY <1>1 DEF Accounts, Invoked
<1>3. KeptInOrder => KeptInOrder'
  BY DEF KeptInOrder, CountedUpTo, AsCounted, Invoked
<1> QED
  BY <1>2, <1>3, SameAsked DEF Books

\* Once the two have lost each other, what was known of the commands before
\* stays where it is, whatever is queued behind it.
LEMMA KeptBehind ==
  ASSUME KeptInOrder, asked' = asked, Known \in Seq(Invocation), NEW v, Known' = Append(Known, v)
  PROVE  KeptInOrder'
<1>1. Len(Known) \in Nat /\ Len(Known') = Len(Known) + 1
      /\ \A n \in 1 .. Len(Known) : Known'[n] = Known[n]
  OBVIOUS
<1> SUFFICES ASSUME NEW n \in 1 .. Len(asked), CountedUpTo(n)
             PROVE  n <= Len(Known') /\ Known'[n] = Invoked(asked[n])
  BY DEF KeptInOrder, CountedUpTo, AsCounted, Invoked
<1>2. n <= Len(Known) /\ Known[n] = Invoked(asked[n])
  BY DEF KeptInOrder
<1>3. n \in 1 .. Len(Known)
  BY <1>1, <1>2
<1> QED
  BY <1>1, <1>2, <1>3

\* The driver turns to its next command.
LEMMA BeginBooks ==
  ASSUME DriverIInv, Books, NEW q \in Requests, Begin(q)
  PROVE  Books'
<1>1. asked \in Seq(Requests) /\ Known \in Seq(Invocation) /\ done \in Seq(Invocation)
  BY KnownType DEF DriverIInv, IInv, TypeOK, Books
<1>2. /\ request' = q /\ UNCHANGED <<done, pending>> /\ Known' = Known
      /\ asked' = IF IsCommand(q) THEN Append(asked, q) ELSE asked
  BY DEF Begin, devvars, Known
<1>3. ~Unqueued /\ (Unqueued' <=> IsCommand(q))
  <2>1. ~Unqueued
    BY EndOfRequest DEF Begin, Unqueued, IsCommand, DriverIInv
  <2>2. Len(Script(q)) \in Nat
    BY ScriptType
  <2>3. Sent' = 0
    BY <2>2 DEF Begin, Sent
  <2> QED
    BY <1>2, <2>1, <2>3 DEF Unqueued, IsCommand
<1>4. CASE ~IsCommand(q)
  <2>1. AskedFor' = AskedFor
    BY <1>2, <1>4 DEF AskedFor, Invoked
  <2>2. Accounts => Accounts'
    BY <1>2, <1>3, <1>4, <2>1 DEF Accounts
  <2>3. KeptInOrder => KeptInOrder'
    BY <1>2, <1>4 DEF KeptInOrder, CountedUpTo, AsCounted, Invoked
  <2> QED
    BY <1>2, <1>4, <2>2, <2>3, SameAsked DEF Books
<1>5. CASE IsCommand(q)
  <2>1. asked' = Append(asked, q)
    BY <1>2, <1>5
  <2>2. CASE AllCounted'
    <3>1. Accounts
      BY <1>1, <2>1, <2>2, CountedAppend DEF Books
    <3>2. AskedFor = Known
      BY <1>3, <3>1 DEF Accounts
    <3>3. AskedFor' = Append(AskedFor, Invoked(q))
      BY <1>1, <2>1 DEF AskedFor
    <3>4. Accounts'
      BY <1>2, <1>3, <1>5, <3>2, <3>3 DEF Accounts
    <3> QED
      BY <1>1, <1>2, <2>2, <3>4 DEF Books
  <2>3. CASE ~AllCounted'
    <3>1. ASSUME NEW n \in 1 .. Len(asked'), CountedUpTo(n)'
          PROVE  n \in 1 .. Len(asked) /\ CountedUpTo(n) /\ asked'[n] = asked[n]
      <4>1. n # Len(asked')
        BY <2>3, <3>1 DEF AllCounted
      <4>2. n \in 1 .. Len(asked)
        BY <1>1, <2>1, <4>1
      <4> QED
        BY <1>1, <2>1, <3>1, <4>2, CountedAppend
    <3>2. ASSUME NEW n \in 1 .. Len(asked), CountedUpTo(n)
          PROVE  n <= Len(Known) /\ Known[n] = Invoked(asked[n])
      <4>1. CASE AllCounted
        BY <1>1, <1>3, <4>1, AccountsInOrder DEF Books
      <4>2. CASE ~AllCounted
        BY <3>2, <4>2 DEF Books, KeptInOrder
      <4> QED
        BY <4>1, <4>2
    <3>3. KeptInOrder'
      BY <1>2, <3>1, <3>2 DEF KeptInOrder, Invoked
    <3> QED
      BY <1>1, <1>2, <2>3, <3>3 DEF Books
  <2> QED
    BY <2>2, <2>3
<1> QED
  BY <1>4, <1>5

\* The books after a step of the CPU thread that queues nothing.
LEMMA QuietBooks ==
  ASSUME DriverIInv, Books, UNCHANGED <<request, asked, done, pending>>,
         AllCounted => (Unqueued' <=> Unqueued)
  PROVE  Books'
<1>1. Known' = Known /\ AskedFor' = AskedFor
  BY DEF Known, AskedFor, Invoked
<1>2. AllCounted /\ Accounts => Accounts'
  BY <1>1 DEF Accounts, Invoked
<1>3. KeptInOrder => KeptInOrder'
  BY <1>1 DEF KeptInOrder, CountedUpTo, AsCounted, Invoked
<1> QED
  BY <1>2, <1>3, SameAsked DEF Books

\* A word is counted: perhaps a command is queued.
LEMMA FinishOutputBooks ==
  ASSUME DriverIInv, Books, FinishOutput
  PROVE  Books'
<1>1. /\ pending \in Seq(Invocation) /\ done \in Seq(Invocation) /\ Known \in Seq(Invocation)
  BY KnownType DEF DriverIInv, IInv, TypeOK, Books
<1>2. UNCHANGED <<request, asked, done>>
  BY DEF FinishOutput, drivervars
<1>3. CASE ~AllCounted
  <2> DEFINE v == [cmd |-> command, args |-> arg_buf]
  <2>1. v \in Invocation
    <3>1. command \in Bytes /\ arg_buf \in Seq(Values)
      BY DEF FinishOutput, CountArgument, DriverIInv, IInv, TypeOK, NoLeftoverArguments,
             ArgumentsCounted
    <3> QED
      BY <3>1 DEF Invocation
  <2>2. pending' = pending \/ pending' = Append(pending, v)
    BY DEF FinishOutput, CountArgument
  <2> HIDE DEF v
  <2>3. Known' = Known \/ Known' = Append(Known, v)
    <3>1. CASE pending' = pending
      BY <1>2, <3>1 DEF Known
    <3>2. CASE pending' = Append(pending, v)
      BY <1>1, <1>2, <2>1, <3>2, KnownAppend
    <3> QED
      BY <2>2, <3>1, <3>2
  <2>4. KeptInOrder'
    <3>1. CASE Known' = Known
      BY <1>2, <1>3, <3>1 DEF Books, KeptInOrder, CountedUpTo, AsCounted, Invoked
    <3>2. CASE Known' = Append(Known, v)
      BY <1>1, <1>2, <1>3, <3>2, KeptBehind DEF Books
    <3> QED
      BY <2>3, <3>1, <3>2
  <2> QED
    BY <1>1, <1>2, <1>3, <2>4, SameAsked DEF Books
<1>4. CASE AllCounted
  <2>1. Framed
    BY <1>4 DEF DriverIInv
  <2>2. /\ IsCommand(request) /\ Unqueued /\ Sent > 0 /\ Sent' = Sent
        /\ (Unqueued' <=> Collecting')
    BY <1>2, <2>1, FinishOutputFramed DEF Unqueued, IsCommand
  <2>3. CASE Collecting'
    <3>1. pending' = pending
      BY <2>1, <2>3, FinishOutputFramed
    <3> QED
      BY <1>2, <2>2, <2>3, <3>1, QuietBooks
  <2>4. CASE ~Collecting'
    <3>1. pending' = Append(pending, Invoked(request))
      BY <2>1, <2>4, FinishOutputFramed DEF Invoked
    <3>2. Invoked(request) \in Invocation
      <4>1. request \in Requests
        BY <2>1, <2>2 DEF Framed, ScriptFollowed, IsCommand
      <4>2. request.cmd \in Bytes /\ request.args \in Seq(Words)
        BY <2>2, <4>1, CommandScript
      <4> QED
        BY <4>2 DEF Invoked, Invocation, Values
    <3>3. Known' = Append(Known, Invoked(request))
      BY <1>1, <1>2, <3>1, <3>2, KnownAppend
    <3>4. AskedFor' = AskedFor
      BY <1>2 DEF AskedFor, Invoked
    <3>5. Accounts
      BY <1>4 DEF Books
    <3>6. Accounts'
      BY <2>2, <2>4, <3>3, <3>4, <3>5 DEF Accounts
    <3> QED
      BY <1>1, <1>2, <1>4, <3>6, SameAsked DEF Books
  <2> QED
    BY <2>3, <2>4
<1> QED
  BY <1>3, <1>4

\* A command that is done was known already.
LEMMA WorkerBooks ==
  ASSUME DriverIInv, Books, WorkerStep
  PROVE  Books'
<1>1. pending \in Seq(Invocation) /\ done \in Seq(Invocation)
  BY DEF DriverIInv, IInv, TypeOK, Books
<1>2. UNCHANGED <<request, todo, asked, cpu>>
  BY DEF WorkerStep, Worker, WorkerLock, WorkerBegin, WorkerFinish, WorkerUnlock
<1>3. Unqueued' <=> Unqueued
  BY <1>2, SameCollecting DEF Unqueued, IsCommand
<1>4. CASE worker = "exec"
  <2>1. pending # <<>> /\ pending' = Tail(pending) /\ done' = Append(done, Head(pending))
    BY <1>4 DEF WorkerStep, Worker, WorkerLock, WorkerBegin, WorkerFinish, WorkerUnlock,
                DriverIInv, IInv, ExecutesQueued
  <2>2. done' \in Seq(Invocation)
    BY <1>1, <2>1
  <2>3. Known' = Known
    BY <1>1, <2>1, KnownMoves
  <2> QED
    BY <1>2, <1>3, <2>2, <2>3, SameBooks
<1>5. CASE worker # "exec"
  <2>1. UNCHANGED <<done, pending>>
    BY <1>5 DEF WorkerStep, Worker, WorkerLock, WorkerBegin, WorkerFinish, WorkerUnlock
  <2> QED
    BY <1>2, <1>3, <2>1, QuietBooks
<1> QED
  BY <1>4, <1>5

\* The books are kept by each step.
LEMMA NextBooks ==
  ASSUME DriverIInv, Books, [DriverNext]_allvars
  PROVE  Books'
<1>1. ASSUME NEW q \in Requests, Begin(q) PROVE Books'
  BY <1>1, BeginBooks
<1>2. CASE Output
  <2>1. UNCHANGED <<request, asked, done>>
    BY <1>2 DEF Output
  <2>2. pending' = pending
    BY <1>2 DEF Output, Out8, Out16, StartCommand, PushArgument, ReadRegister, SelectRegister,
                WriteRegister, devvars
  <2>3. ASSUME AllCounted PROVE Unqueued' <=> Unqueued
    <3>1. Framed
      BY <2>3 DEF DriverIInv
    <3>2. CASE IsCommand(request)
      BY <1>2, <3>1, <3>2, OutputOfCommand
    <3>3. CASE ~IsCommand(request)
      BY <2>1, <3>3 DEF Unqueued, IsCommand
    <3> QED
      BY <3>2, <3>3
  <2> QED
    BY <2>1, <2>2, <2>3, QuietBooks
<1>3. CASE Input
  <2>1. UNCHANGED <<request, asked, done, pending>>
    BY <1>3 DEF Input, devvars
  <2>2. ASSUME AllCounted PROVE ~Unqueued /\ ~Unqueued'
    BY <1>3, <2>2, InputFramed DEF Unqueued, DriverIInv
  <2> QED
    BY <2>1, <2>2, QuietBooks
<1>4. CASE UNCHANGED allvars
  <2>1. UNCHANGED devvars /\ UNCHANGED drivervars
    BY <1>4 DEF allvars
  <2>2. UNCHANGED <<request, todo, asked, done, pending, cpu>>
    BY <2>1 DEF devvars, drivervars
  <2>3. Unqueued' <=> Unqueued
    BY <2>2, SameCollecting DEF Unqueued, IsCommand
  <2> QED
    BY <2>2, <2>3, QuietBooks
<1> QED
  BY <1>1, <1>2, <1>3, <1>4, FinishOutputBooks, WorkerBooks DEF DriverNext

\* Each command up to the first whose words the device counts differently is
\* done by the device once, with its own words and in the order asked for: no
\* interleaving with the worker, and nothing the driver sends later, loses,
\* doubles or swaps one.
THEOREM OnceInOrder == DriverSpec => []ExactlyOnceInOrder
<1>1. DriverInit => DriverIInv /\ Books
  BY InitDriverIInv, InitBooks
<1>2. DriverIInv /\ Books /\ [DriverNext]_allvars => (DriverIInv /\ Books)'
  BY NextDriverIInv, NextBooks
<1>3. DriverIInv /\ Books => ExactlyOnceInOrder
  <2> SUFFICES ASSUME DriverIInv, Books, BetweenRequests 
               PROVE  KeptInOrder /\ (AllCounted => Len(Known) = Len(asked))
    BY DEF ExactlyOnceInOrder, KeptInOrder
  <2>1. ~Unqueued
    BY EndOfRequest DEF BetweenRequests, Unqueued, IsCommand, DriverIInv
  <2>2. asked \in Seq(Requests) /\ Known \in Seq(Invocation)
    BY KnownType DEF DriverIInv, IInv, TypeOK, Books
  <2>3. CASE AllCounted
    BY <2>1, <2>2, <2>3, AccountsInOrder DEF Books, KeptInOrder
  <2>4. CASE ~AllCounted
    BY <2>4 DEF Books
  <2> QED
    BY <2>3, <2>4
<1> QED
  BY <1>1, <1>2, <1>3, PTL DEF DriverSpec
===============================================================================
