----------------------------- MODULE DeviceDriver -----------------------------
(***************************************************************************)
(* The program on the CPU that uses the mass storage device over the bus:  *)
(* a command is OUT8 of its number, OUT16 of each argument and IN16 of the *)
(* result, a register read is OUT16 and IN16, a register write is two      *)
(* OUT16. That much boot.s, bios.c and the manual agree on with the        *)
(* device. How many words a command takes they do not: a request may have  *)
(* any number of words, and the driver, which believes in its own count,   *)
(* goes on with its next request whatever the device makes of that.        *)
(*                                                                         *)
(* The device is module ConventionalDevice, and MassStorage says what it   *)
(* makes of a command.                                                     *)
(***************************************************************************)
EXTENDS ConventionalDevice, MassStorage, SequencesExt

CONSTANT
  Requests         \* requests the driver may make; MaxCommands bounds the commands

VARIABLES
  request,         \* the request under way (or the last one)
  todo,            \* bus operations left for it
  asked,           \* commands whose request has begun, in order
  done,            \* commands the worker has executed, in order
  shadow,          \* what the driver believes the registers hold
  quiet            \* was nothing queued when the request began?

drivervars == <<request, todo, asked, done, shadow, quiet>>
allvars == <<devvars, drivervars>>

Command(c, a, operation) == [kind |-> "command", cmd |-> c, args |-> a, meant |-> operation]
RegisterRead(r) == [kind |-> "read", reg |-> r]
RegisterWrite(r, v) == [kind |-> "write", reg |-> r, val |-> v]
IsCommand(q) == q.kind = "command"

OUT8(v) == [op |-> "out8", val |-> v]
OUT16(v) == [op |-> "out16", val |-> v]
IN16 == [op |-> "in16"]

\* The bus operations of a request, in the manual's order.
Script(q) ==
  IF IsCommand(q)
    THEN <<OUT8(q.cmd)>> \o [i \in 1 .. Len(q.args) |-> OUT16(q.args[i])] \o <<IN16>>
  ELSE IF q.kind = "read"
    THEN <<OUT16(256 * REG_READ + q.reg), IN16>>
    ELSE <<OUT16(256 * REG_WRITE + q.reg), OUT16(q.val)>>

\* Values on the bus are bytes and words; register ids are bytes.
ASSUME DriverAssumption ==
  \A q \in Requests :
    \/ /\ q.kind = "command"
       /\ q.cmd \in Bytes
       /\ q.args \in Seq(Words)
    \/ /\ q.kind = "read"
       /\ q.reg \in 0 .. 255
       /\ 256 * REG_READ + q.reg \in Words
    \/ /\ q.kind = "write"
       /\ q.reg \in 0 .. 255
       /\ 256 * REG_WRITE + q.reg \in Words
       /\ q.val \in Words

DriverInit ==
  /\ Init
  /\ request = [kind |-> "none"]
  /\ todo = <<>>
  /\ asked = <<>>
  /\ done = <<>>
  /\ shadow = RegInit
  /\ quiet = TRUE

\* The program turns to its next request.
Begin(q) ==
  /\ cpu = "run"
  /\ todo = <<>>
  /\ IsCommand(q) => Len(asked) < MaxCommands
  /\ request' = q
  /\ todo' = Script(q)
  /\ asked' = IF IsCommand(q) THEN Append(asked, q) ELSE asked
  /\ quiet' = (pending = <<>>)
  /\ UNCHANGED <<devvars, done, shadow>>

\* The next operation is an output: the device automaton takes it or drops it.
Output ==
  /\ todo # <<>>
  /\ LET o == Head(todo) IN
       \/ o.op = "out8" /\ Out8(o.val)
       \/ o.op = "out16" /\ Out16(o.val)
       \/ o.op = "out16" /\ DropsWord(o.val) /\ UNCHANGED devvars
       \/ o.op = "out8" /\ DropsByte /\ UNCHANGED devvars
  /\ todo' = Tail(todo)
  /\ shadow' = IF request.kind = "write" /\ Len(todo) = 1
                 THEN [shadow EXCEPT ![request.reg] = request.val]
                 ELSE shadow
  /\ UNCHANGED <<request, asked, done, quiet>>

\* The next operation is IN16, which returns m_command_result as it is.
Input ==
  /\ cpu = "run"
  /\ todo # <<>>
  /\ Head(todo) = IN16
  /\ todo' = Tail(todo)
  /\ UNCHANGED <<devvars, request, asked, done, shadow, quiet>>

\* The end of out16 under the mutex.
FinishOutput == CountArgument /\ UNCHANGED drivervars

WorkerStep ==
  /\ Worker
  /\ done' = IF worker = "exec" THEN Append(done, Head(pending)) ELSE done
  /\ UNCHANGED <<request, todo, asked, shadow, quiet>>

DriverNext == \/ \E q \in Requests : Begin(q)
              \/ Output
              \/ Input
              \/ FinishOutput
              \/ WorkerStep

\* The worker loop never stops calling lock, run and unlock, and do_cmd
\* returns (HDD.cpp's operations do). Nothing is assumed of the driver, nor
\* of who gets the mutex.
DriverSpec == DriverInit /\ [][DriverNext]_allvars /\ WF_allvars(WorkerStep)

-------------------------------------------------------------------------------
BetweenRequests == todo = <<>> /\ cpu = "run"

\* The driver sends as many words as the device counts for that command; so
\* did it for each command up to the n-th, and for all so far.
AsCounted(q) == Len(q.args) = Needed[q.cmd]
CountedUpTo(n) == \A i \in 1 .. n : AsCounted(asked[i])
AllCounted == CountedUpTo(Len(asked))

\* As long as each request had as many words as the device counts for it, the
\* device is ready wherever the driver begins a request: the two automata
\* never disagree about where a request starts, whatever the worker does.
FramingAgrees == AllCounted /\ BetweenRequests => state = "Ready"

\* The commands done, then those queued.
Known == done \o pending
Invoked(q) == [cmd |-> q.cmd, args |-> q.args]

\* Each command asked for up to the first with a wrong number of words is done
\* or queued once, in the order asked for and with its own words, and stays so
\* when the two automata have lost each other later. Nothing else is done as
\* long as no number was wrong.
ExactlyOnceInOrder ==
  BetweenRequests =>
    /\ \A n \in 1 .. Len(asked) :
         CountedUpTo(n) => n <= Len(Known) /\ Known[n] = Invoked(asked[n])
    /\ AllCounted => Len(Known) = Len(asked)

\* A register write has reached the register when its request is over, and no
\* command or other request has touched it.
RegistersAsWritten == AllCounted /\ BetweenRequests => regs = shadow

\* A driver that reads a register gets the register, if no command was queued
\* when it began to read. (With a command under way both threads write the
\* result word, and the driver may get either value.)
RegisterReadArrives(q) ==
  q.kind = "read" /\ todo = <<IN16>> /\ q.reg \in Regs => result = regs[q.reg]
QuietReadArrives == quiet => RegisterReadArrives(request)
QuietRegisterRead == AllCounted => QuietReadArrives

\* What the manual and the boot code say of a request is what the device does
\* for it (refuted: the device counts and orders the words in a way of its own).
Performed(invocation) == do_cmd(invocation.cmd, invocation.args)
DoneAsMeant ==
  BetweenRequests => [i \in 1 .. Len(Known) |-> Performed(Known[i])]
                       = [i \in 1 .. Len(asked) |-> asked[i].meant]

-------------------------------------------------------------------------------
(* Why the two agree: where in its request the driver is tells the state of  *)
(* the device's automaton and the words in its buffer.                       *)

Operations ==
  [op : {"out8"}, val : Bytes] \cup [op : {"out16"}, val : Words] \cup {IN16}

\* Operations of the request that are done.
Sent == Len(Script(request)) - Len(todo)

\* The rest of the request is the rest of its script.
ScriptFollowed ==
  IF request.kind = "none" THEN todo = <<>>
  ELSE /\ request \in Requests
       /\ todo \in Seq(Operations)
       /\ Len(todo) <= Len(Script(request))
       /\ \A i \in 1 .. Len(todo) : todo[i] = Script(request)[Sent + i]

\* The device collects the words of the request.
Collecting ==
  /\ IsCommand(request)
  /\ Sent \in 1 .. Len(request.args) \/ (Sent = Len(request.args) + 1 /\ cpu = "lock")
\* It waits for the value of a register.
Selected == request.kind = "write" /\ Sent = 1

InStep ==
  /\ Collecting => /\ state = "CommandRq"
                   /\ command = request.cmd
                   /\ Len(arg_buf) = Sent - 1
                   /\ \A i \in 1 .. Sent - 1 : arg_buf[i] = request.args[i]
  /\ Selected => state = "RegisterWrite" /\ command = request.reg /\ cpu = "run"
  /\ ~Collecting /\ ~Selected => state = "Ready" /\ cpu = "run"

\* A request that is only a register read queues nothing.
StaysQuiet == quiet /\ request.kind = "read" => pending = <<>>

\* Driver and device agree on where they are in a request.
RequestCounted == IsCommand(request) => AsCounted(request)
Framed == /\ IInv
          /\ ScriptFollowed
          /\ RequestCounted
          /\ InStep
          /\ regs = shadow
          /\ StaysQuiet
          /\ QuietReadArrives

\* The invariant that is inductive: the device's own for every traffic, and
\* agreement as long as the two count alike.
DriverIInv == /\ IInv
              /\ ScriptFollowed
              /\ asked \in Seq(Requests)
              /\ AllCounted => Framed

\* What is known is what was asked for, but for a command that is not queued yet.
Unqueued == IsCommand(request) /\ (Sent = 0 \/ Collecting)
AskedFor == [i \in 1 .. Len(asked) |-> Invoked(asked[i])]
Accounts == AskedFor = IF Unqueued THEN Append(Known, Invoked(request)) ELSE Known

\* A prefix of it for ever, once the two have lost each other.
KeptInOrder ==
  \A n \in 1 .. Len(asked) :
    CountedUpTo(n) => n <= Len(Known) /\ Known[n] = Invoked(asked[n])

Books == /\ done \in Seq(Invocation)
         /\ IF AllCounted THEN Accounts ELSE KeptInOrder
===============================================================================
