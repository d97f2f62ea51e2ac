-------------------------- MODULE ConventionalDevice --------------------------
(***************************************************************************)
(* Cx16ConventionalDevice (emulator/Cx16.h, emulator/Cx16.cpp): the bus    *)
(* side of every I/O device of the emulator. The CPU thread calls out8,    *)
(* out16, in8 and in16 and drives a small protocol automaton; commands     *)
(* that are complete go into a queue that the device's worker thread       *)
(* drains. The queue is guarded by m_queue_access_mutex, which the worker  *)
(* keeps for as long as commands are left, while it executes them. State,  *)
(* registers and the result word are touched without any lock.             *)
(***************************************************************************)
EXTENDS Integers, Sequences

CONSTANTS
  Bytes,           \* values the CPU sends with OUT8
  Words,           \* values the CPU sends with OUT16
  Argc,            \* [Bytes -> Nat]: get_argc of the device
  ArgsRead,        \* [Bytes -> Nat]: how many of args[0], args[1], ... do_cmd reads
  ArgcMod,         \* number of values of m_args_needed (256: it is a u8)
  Regs,            \* register identifiers for which reg() is not null
  RegInit,         \* [Regs -> Nat]: their initial contents
  Results,         \* what do_cmd may return
  InitialResults,  \* m_command_result before the first command
  MaxCommands      \* bound: commands the CPU starts

ASSUME DeviceAssumption ==
  /\ Bytes \subseteq Nat
  /\ Words \subseteq Nat
  /\ ArgcMod \in Nat \ {0, 1}
  /\ Argc \in [Bytes -> 0 .. ArgcMod - 1]
  /\ ArgsRead \in [Bytes -> Nat]
  /\ \A c \in Bytes : ArgsRead[c] <= Argc[c]
  /\ RegInit \in [Regs -> Nat]
  /\ Results \subseteq Nat
  /\ InitialResults \subseteq Nat
  /\ MaxCommands \in Nat

VARIABLES
  state,        \* m_state
  args_needed,  \* m_args_needed
  command,      \* m_current_command.m_command (a register id in a register write)
  arg_buf,      \* m_current_command.m_arg_buf
  pending,      \* m_pending_commands
  result,       \* m_command_result
  regs,         \* what the pointers returned by reg() point to
  cpu,          \* CPU thread: "run", or "lock" inside out16 before the mutex
  worker,       \* worker thread: "idle", or holding the mutex: "drain", "exec"
  started       \* number of commands started so far (bounded by MaxCommands)

protocol == <<state, args_needed, command, arg_buf>>
devvars == <<protocol, pending, result, regs, cpu, worker, started>>

\* Values that can sit in an argument or in a register.
Values == Bytes \cup Words \cup {RegInit[r] : r \in Regs}

\* Number of words out16 collects before it queues command c: the counter is
\* decremented before it is compared with zero, so zero wraps around.
Needed == [c \in Bytes |-> IF Argc[c] = 0 THEN ArgcMod ELSE Argc[c]]

Hi(w) == w \div 256
Lo(w) == w % 256
REG_READ == 0
REG_WRITE == 1

Init ==
  /\ state = "Ready"
  /\ args_needed = 0
  /\ command = 0
  /\ arg_buf = <<>>
  /\ pending = <<>>
  /\ result \in InitialResults
  /\ regs = RegInit
  /\ cpu = "run"
  /\ worker = "idle"
  /\ started = 0

-------------------------------------------------------------------------------
(* The CPU thread. The enumerators Working and Irqc of m_state are not used:  *)
(* no code assigns Working, and raise_command_irq(), which assigns Irqc, has  *)
(* no caller, so in8 returns zero and changes nothing.                        *)

\* out8 in state Ready begins a command.
StartCommand(b) ==
  /\ cpu = "run"
  /\ state = "Ready"
  /\ started < MaxCommands
  /\ started' = started + 1
  /\ args_needed' = Argc[b]
  /\ command' = b
  /\ state' = "CommandRq"
  /\ UNCHANGED <<arg_buf, pending, result, regs, cpu, worker>>

\* out8 or out16 in state CommandRq: the value joins the arguments, then the
\* thread waits for the queue mutex.
PushArgument(w) ==
  /\ cpu = "run"
  /\ state = "CommandRq"
  /\ arg_buf' = Append(arg_buf, w)
  /\ cpu' = "lock"
  /\ UNCHANGED <<state, args_needed, command, pending, result, regs, worker, started>>

\* Mutant: the buffer is not cleared.
CountArgument_keeps_buffer ==
  /\ cpu = "lock" /\ worker = "idle"
  /\ args_needed' = (args_needed - 1) % ArgcMod
  /\ IF args_needed' = 0
       THEN /\ pending' = Append(pending, [cmd |-> command, args |-> arg_buf])
            /\ state' = "Ready"
       ELSE UNCHANGED <<pending, state>>
  /\ cpu' = "run"
  /\ UNCHANGED <<command, arg_buf, result, regs, worker, started>>

\* out16 under the mutex: count the argument and queue the command at zero.
CountArgument ==
  /\ cpu = "lock"
  /\ worker = "idle"
  /\ args_needed' = (args_needed - 1) % ArgcMod
  /\ IF args_needed' = 0
       THEN /\ pending' = Append(pending, [cmd |-> command, args |-> arg_buf])
            /\ arg_buf' = <<>>
            /\ state' = "Ready"
       ELSE UNCHANGED <<pending, arg_buf, state>>
  /\ cpu' = "run"
  /\ UNCHANGED <<command, result, regs, worker, started>>

\* Mutant: the register is looked up but not copied.
ReadRegister_forgets(w) ==
  /\ cpu = "run" /\ state = "Ready"
  /\ Hi(w) = REG_READ /\ Lo(w) \in Regs
  /\ UNCHANGED devvars

\* out16 in state Ready with CX16_REG_READ in the high byte.
ReadRegister(w) ==
  /\ cpu = "run"
  /\ state = "Ready"
  /\ Hi(w) = REG_READ
  /\ Lo(w) \in Regs
  /\ result' = regs[Lo(w)]
  /\ UNCHANGED <<protocol, pending, regs, cpu, worker, started>>

\* Mutant: the register id is not kept.
SelectRegister_forgets(w) ==
  /\ cpu = "run" /\ state = "Ready"
  /\ Hi(w) = REG_WRITE
  /\ state' = "RegisterWrite"
  /\ UNCHANGED <<args_needed, command, arg_buf, pending, result, regs, cpu, worker, started>>

\* out16 in state Ready with CX16_REG_WRITE in the high byte: the register id
\* is kept in the command field, the value comes with the next out16.
SelectRegister(w) ==
  /\ cpu = "run"
  /\ state = "Ready"
  /\ Hi(w) = REG_WRITE
  /\ state' = "RegisterWrite"
  /\ command' = Lo(w)
  /\ UNCHANGED <<args_needed, arg_buf, pending, result, regs, cpu, worker, started>>

\* Mutant: the automaton stays in RegisterWrite.
WriteRegister_stays(w) ==
  /\ cpu = "run" /\ state = "RegisterWrite"
  /\ regs' = IF command \in Regs THEN [regs EXCEPT ![command] = w] ELSE regs
  /\ UNCHANGED <<protocol, pending, result, cpu, worker, started>>

\* out16 in state RegisterWrite; an unknown register drops the value.
WriteRegister(w) ==
  /\ cpu = "run"
  /\ state = "RegisterWrite"
  /\ regs' = IF command \in Regs THEN [regs EXCEPT ![command] = w] ELSE regs
  /\ state' = "Ready"
  /\ UNCHANGED <<args_needed, command, arg_buf, pending, result, cpu, worker, started>>

\* out16 in state Ready with an unknown register or an unknown high byte is
\* dropped.
DropsWord(w) ==
  /\ cpu = "run"
  /\ state = "Ready"
  /\ Hi(w) # REG_WRITE
  /\ Hi(w) = REG_READ => Lo(w) \notin Regs

\* So is out8 between the two words of a register write.
DropsByte == cpu = "run" /\ state = "RegisterWrite"

Out8(b) == StartCommand(b) \/ PushArgument(b)

Out16(w) == \/ ReadRegister(w)
            \/ SelectRegister(w)
            \/ WriteRegister(w)
            \/ PushArgument(w)

-------------------------------------------------------------------------------
(* The worker thread, Cx16ConventionalDevice::boot.                          *)

\* Mutant: the queue is looked at before the lock is taken, the wrong way round.
WorkerLock_when_empty ==
  /\ worker = "idle"
  /\ worker' = IF pending = <<>> THEN "drain" ELSE worker
  /\ UNCHANGED <<protocol, pending, result, regs, cpu, started>>

WorkerLock ==
  /\ worker = "idle"
  /\ worker' = "drain"
  /\ UNCHANGED <<protocol, pending, result, regs, cpu, started>>

\* do_cmd is entered with the oldest command, still in the queue.
WorkerBegin ==
  /\ worker = "drain"
  /\ pending # <<>>
  /\ worker' = "exec"
  /\ UNCHANGED <<protocol, pending, result, regs, cpu, started>>

\* Mutant: the newest command is popped.
WorkerFinish_pops_back(r) ==
  /\ worker = "exec"
  /\ result' = r
  /\ pending' = SubSeq(pending, 1, Len(pending) - 1)
  /\ worker' = "drain"
  /\ UNCHANGED <<protocol, regs, cpu, started>>

\* do_cmd returns: its value is stored and the command leaves the queue.
WorkerFinish(r) ==
  /\ worker = "exec"
  /\ result' = r
  /\ pending' = Tail(pending)
  /\ worker' = "drain"
  /\ UNCHANGED <<protocol, regs, cpu, started>>

\* Mutant: the lock is taken outside the worker's loop and never released.
WorkerUnlock_never ==
  /\ worker = "drain" /\ pending = <<>>
  /\ UNCHANGED devvars

WorkerUnlock ==
  /\ worker = "drain"
  /\ pending = <<>>
  /\ worker' = "idle"
  /\ UNCHANGED <<protocol, pending, result, regs, cpu, started>>

Worker == \/ WorkerLock
          \/ WorkerBegin
          \/ \E r \in Results : WorkerFinish(r)
          \/ WorkerUnlock

Next == \/ \E b \in Bytes : Out8(b)
        \/ \E w \in Words : Out16(w)
        \/ CountArgument
        \/ Worker

Spec == Init /\ [][Next]_devvars

-------------------------------------------------------------------------------
Invocation == [cmd : Bytes, args : Seq(Values)]

\* Every variable stays in its range; m_args_needed stays a byte.
TypeOK ==
  /\ state \in {"Ready", "RegisterWrite", "CommandRq"}
  /\ args_needed \in 0 .. ArgcMod - 1
  /\ command \in Nat
  /\ arg_buf \in Seq(Values)
  /\ pending \in Seq(Invocation)
  /\ result \in Nat
  /\ regs \in [Regs -> Values]
  /\ cpu \in {"run", "lock"}
  /\ worker \in {"idle", "drain", "exec"}
  /\ started \in 0 .. MaxCommands

\* The queue holds commands with as many words as the countdown takes for
\* them, none of them left over from an earlier command or register access.
QueuedByCountdown ==
  \A i \in 1 .. Len(pending) : Len(pending[i].args) = Needed[pending[i].cmd]

\* Whatever the CPU sends and however the two threads interleave, a command
\* that takes arguments reaches the worker's queue with as many words as
\* get_argc says. One that takes none is left out: it should be queued with
\* no word at all, and out16 queues it with ArgcMod of them.
CommandsAreWhole ==
  \A i \in 1 .. Len(pending) :
    Argc[pending[i].cmd] # 0 => Len(pending[i].args) = Argc[pending[i].cmd]

\* Between two commands no argument is left over, and the CPU waits for the
\* queue mutex only inside a command.
NoLeftoverArguments == state # "CommandRq" => arg_buf = <<>> /\ cpu = "run"

\* The 8-bit countdown agrees with the words collected so far. Only before
\* the first word of a command without arguments is it zero.
Counted == Len(arg_buf) - (IF cpu = "lock" THEN 1 ELSE 0)
ArgumentsCounted ==
  state = "CommandRq" =>
    /\ command \in Bytes
    /\ Counted \in 0 .. Needed[command] - 1
    /\ args_needed = IF Counted = 0 THEN Argc[command] ELSE Needed[command] - Counted

\* do_cmd never runs on an empty queue.
ExecutesQueued == worker = "exec" => pending # <<>>

\* The invariant that is inductive: what is queued depends on the argument
\* count, which in turn needs that every command begins with an empty buffer.
IInv == /\ TypeOK
        /\ NoLeftoverArguments
        /\ ArgumentsCounted
        /\ QueuedByCountdown
        /\ ExecutesQueued

\* While do_cmd runs, its command is at the head of the queue and holds every
\* argument that the command's case reads.
ArgumentsInRange ==
  worker = "exec" => /\ pending # <<>>
                     /\ Len(Head(pending).args) >= ArgsRead[Head(pending).cmd]

\* While the CPU thread waits for the queue mutex in out16, the worker lets go
\* of it: it drains what is queued, and nothing can be added meanwhile. That
\* the waiting thread then gets it, before the worker takes it again, is more
\* than std::mutex promises, and not claimed.
MutexComesFree == cpu = "lock" ~> worker = "idle"

\* The queue is drained again and again.
QueueDrains == []<>(pending = <<>>)

\* The device implements the abstract queue with registers and a result word.
Service == INSTANCE DeviceService WITH
             Commands <- Bytes
ImplementsService == Service!Spec
===============================================================================
