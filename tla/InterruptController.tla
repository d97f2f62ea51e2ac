-------------------------- MODULE InterruptController --------------------------
(***************************************************************************)
(* The programmable interrupt controllers (Cx16InterruptController in      *)
(* emulator/Cx16.h and Cx16.cpp) and the CPU's side of an IRQ (ControlUnit *)
(* ::cycle and raise_interrupt). Every controller has a worker that loops  *)
(* over eoi() and the search for the next raised line; device threads call *)
(* raise_irq; the CPU thread calls irq_raised() and number(). The mask of  *)
(* raised lines and the current line are plain members that only the       *)
(* worker touches under a lock, so each access is a step of its own and    *)
(* m_irq_raised_for_device |= and &= are a load and a store.               *)
(*                                                                         *)
(* raise_irq has no caller at this commit; the device threads of the model *)
(* call it as the class offers it. An exception of the program keeps IRQs  *)
(* away (FLAG_EXCEPTION), and nothing clears the flag: return_from_        *)
(* interrupt has no caller. A second exception ends the emulator (the      *)
(* double fault of module ControlUnit), so it is no step here.             *)
(***************************************************************************)
EXTENDS Integers, Sequences, FiniteSets

CONSTANTS
  Pics,          \* the controllers
  CpuPic,        \* the one the CPU asks
  Upstream,      \* [Pics -> Pics \cup {NoPic}]: m_irqc of each controller
  NoPic,
  LineCount,     \* number of lines (16)
  Devices,       \* device threads
  DevicePic,     \* [Devices -> Pics]: where the device is registered
  DeviceLine,    \* [Devices -> 0 .. LineCount - 1]: its line
  IvtSize,       \* number of entries of the interrupt table the program loaded
  MaxRaises,     \* bound: raise_irq calls
  MaxRemaps      \* bound: commands the program sends to each controller

Lines == 0 .. LineCount - 1

ASSUME PicAssumption ==
  /\ CpuPic \in Pics
  /\ NoPic \notin Pics
  /\ Pics \cap Devices = {}
  /\ Upstream \in [Pics -> Pics \cup {NoPic}]
  /\ LineCount \in Nat \ {0}
  /\ DevicePic \in [Devices -> Pics]
  /\ DeviceLine \in [Devices -> Lines]
  /\ IvtSize \in Nat
  /\ MaxRaises \in Nat
  /\ MaxRemaps \in Nat

SPURIOUS == 7    \* initial m_current_irq
OFFSET == 8      \* initial m_offset

VARIABLES
  raised,        \* [Pics -> SUBSET Lines]: m_irq_raised_for_device
  current,       \* [Pics -> Nat]: m_current_irq
  offset,        \* [Pics -> Nat]: m_offset
  loop,          \* [Pics -> ...]: where the worker of the controller is
  scan,          \* [Pics -> 0 .. LineCount]: its loop variable in eoi()
  loaded,        \* [Pics \cup Devices -> SUBSET Lines]: mask a thread has loaded
  device,        \* [Devices -> ...]: where the device thread is in raise_irq
  cpu,           \* CPU thread: "cycle", "number" (IRQ seen), "halted"
  in_irq,        \* FLAG_IN_IRQ
  in_exception,  \* FLAG_EXCEPTION
  vector,        \* numbers the CPU has dispatched, in order
  commands,      \* [Pics -> Seq]: m_pending_commands of the controller
  was_raised,    \* [Pics -> SUBSET Lines]: lines raise_irq was called with
  raises         \* number of raise_irq calls

picvars == <<raised, current, offset, loop, scan, loaded, device, was_raised, raises>>
cpuvars == <<cpu, in_irq, in_exception, vector>>
vars == <<picvars, cpuvars, commands>>

Init ==
  /\ raised = [p \in Pics |-> {}]
  /\ current = [p \in Pics |-> SPURIOUS]
  /\ offset = [p \in Pics |-> OFFSET]
  /\ loop = [p \in Pics |-> "top"]
  /\ scan = [p \in Pics |-> 0]
  /\ loaded = [t \in Pics \cup Devices |-> {}]
  /\ device = [d \in Devices |-> "idle"]
  /\ cpu = "cycle"
  /\ in_irq = FALSE
  /\ in_exception = FALSE
  /\ vector = <<>>
  /\ commands = [p \in Pics |-> <<>>]
  /\ was_raised = [p \in Pics |-> {}]
  /\ raises = 0

-------------------------------------------------------------------------------
(* The worker of controller p, Cx16InterruptController::boot and eoi.        *)

\* m_current_irq = 0x0
WorkerTop(p) ==
  /\ loop[p] = "top"
  /\ current' = [current EXCEPT ![p] = 0]
  /\ loop' = [loop EXCEPT ![p] = "load"]
  /\ UNCHANGED <<raised, offset, scan, loaded, device, was_raised, raises, cpuvars, commands>>

\* Mutant: the bit is toggled instead of cleared.
EoiLoad_toggles(p) ==
  /\ loop[p] = "load"
  /\ loaded' = [loaded EXCEPT ![p] = (raised[p] \cup {current[p]}) \ (raised[p] \cap {current[p]})]
  /\ loop' = [loop EXCEPT ![p] = "store"]
  /\ UNCHANGED <<raised, current, offset, scan, device, was_raised, raises, cpuvars, commands>>

\* eoi(): the mask is loaded and the current line's bit taken out of it ...
EoiLoad(p) ==
  /\ loop[p] = "load"
  /\ loaded' = [loaded EXCEPT ![p] = raised[p] \ {current[p]}]
  /\ loop' = [loop EXCEPT ![p] = "store"]
  /\ UNCHANGED <<raised, current, offset, scan, device, was_raised, raises, cpuvars, commands>>

\* ... and stored.
EoiStore(p) ==
  /\ loop[p] = "store"
  /\ raised' = [raised EXCEPT ![p] = loaded[p]]
  /\ scan' = [scan EXCEPT ![p] = 0]
  /\ loop' = [loop EXCEPT ![p] = "scan"]
  /\ UNCHANGED <<current, offset, loaded, device, was_raised, raises, cpuvars, commands>>

\* Mutants: the current line is one too high; the last line is left out.
EoiScan_next_line(p) ==
  /\ loop[p] = "scan"
  /\ scan[p] < LineCount
  /\ IF scan[p] \in raised[p]
       THEN /\ current' = [current EXCEPT ![p] = scan[p] + 1]
            /\ loop' = [loop EXCEPT ![p] = "top"]
            /\ UNCHANGED scan
       ELSE /\ scan' = [scan EXCEPT ![p] = scan[p] + 1]
            /\ UNCHANGED <<current, loop>>
  /\ UNCHANGED <<raised, offset, loaded, device, was_raised, raises, cpuvars, commands>>

EoiScan_short(p) ==
  /\ loop[p] = "scan"
  /\ scan[p] < LineCount
  /\ IF scan[p] \in raised[p] \ {LineCount - 1}
       THEN /\ current' = [current EXCEPT ![p] = scan[p]]
            /\ loop' = [loop EXCEPT ![p] = "top"]
            /\ UNCHANGED scan
       ELSE /\ scan' = [scan EXCEPT ![p] = scan[p] + 1]
            /\ UNCHANGED <<current, loop>>
  /\ UNCHANGED <<raised, offset, loaded, device, was_raised, raises, cpuvars, commands>>

\* One turn of the search loop: the first raised line becomes the current one.
EoiScan(p) ==
  /\ loop[p] = "scan"
  /\ scan[p] < LineCount
  /\ IF scan[p] \in raised[p]
       THEN /\ current' = [current EXCEPT ![p] = scan[p]]
            /\ loop' = [loop EXCEPT ![p] = "top"]
            /\ UNCHANGED scan
       ELSE /\ scan' = [scan EXCEPT ![p] = scan[p] + 1]
            /\ UNCHANGED <<current, loop>>
  /\ UNCHANGED <<raised, offset, loaded, device, was_raised, raises, cpuvars, commands>>

\* No line is raised: the loop ends and boot() starts over.
EoiNone(p) ==
  /\ loop[p] = "scan"
  /\ scan[p] = LineCount
  /\ loop' = [loop EXCEPT ![p] = "top"]
  /\ UNCHANGED <<raised, current, offset, scan, loaded, device, was_raised, raises, cpuvars, commands>>

Worker(p) == WorkerTop(p) \/ EoiLoad(p) \/ EoiStore(p) \/ EoiScan(p) \/ EoiNone(p)

-------------------------------------------------------------------------------
(* A device thread in raise_irq(port).                                       *)

RaiseLoad(d) ==
  /\ device[d] = "idle"
  /\ raises < MaxRaises
  /\ raises' = raises + 1
  /\ loaded' = [loaded EXCEPT ![d] = raised[DevicePic[d]] \cup {DeviceLine[d]}]
  /\ was_raised' = [was_raised EXCEPT ![DevicePic[d]] = @ \cup {DeviceLine[d]}]
  /\ device' = [device EXCEPT ![d] = "store"]
  /\ UNCHANGED <<raised, current, offset, loop, scan, cpuvars, commands>>

RaiseStore(d) ==
  /\ device[d] = "store"
  /\ raised' = [raised EXCEPT ![DevicePic[d]] = loaded[d]]
  /\ device' = [device EXCEPT ![d] = "current"]
  /\ UNCHANGED <<current, offset, loop, scan, loaded, was_raised, raises, cpuvars, commands>>

\* m_current_irq = 0x0
RaiseCurrent(d) ==
  /\ device[d] = "current"
  /\ current' = [current EXCEPT ![DevicePic[d]] = 0]
  /\ device' = [device EXCEPT ![d] = "idle"]
  /\ UNCHANGED <<raised, offset, loop, scan, loaded, was_raised, raises, cpuvars, commands>>

Raise(d) == RaiseLoad(d) \/ RaiseStore(d) \/ RaiseCurrent(d)

-------------------------------------------------------------------------------
(* The CPU thread.                                                           *)

\* irq_raised(): own lines, or those of m_irqc (the chain ends there).
IrqRaised(p) ==
  \/ raised[p] # {}
  \/ Upstream[p] # NoPic /\ raised[Upstream[p]] # {}

\* ControlUnit::cycle asks whether an IRQ is up; in the handler of an IRQ or of
\* an exception it does not take one ...
SeeIrq ==
  /\ cpu = "cycle"
  /\ IrqRaised(CpuPic)
  /\ ~in_irq /\ ~in_exception
  /\ cpu' = "number"
  /\ UNCHANGED <<picvars, in_irq, in_exception, vector, commands>>

\* ... and then for its number; raise_interrupt ignores a number without entry
\* in the interrupt table.
Number == current[CpuPic] + offset[CpuPic]

\* Mutant: the table size is compared the other way round.
Dispatch_inverted ==
  /\ cpu = "number"
  /\ cpu' = "cycle"
  /\ IF Number > IvtSize
       THEN in_irq' = TRUE /\ vector' = Append(vector, Number)
       ELSE UNCHANGED <<in_irq, vector>>
  /\ UNCHANGED <<picvars, in_exception, commands>>

Dispatch ==
  /\ cpu = "number"
  /\ cpu' = "cycle"
  /\ IF Number < IvtSize
       THEN in_irq' = TRUE /\ vector' = Append(vector, Number)
       ELSE UNCHANGED <<in_irq, vector>>
  /\ UNCHANGED <<picvars, in_exception, commands>>

\* An instruction of the program raises an exception (INT, an invalid opcode):
\* raise_interrupt sets the flag, also in the handler of an IRQ.
RaiseException ==
  /\ cpu = "cycle"
  /\ ~in_exception
  /\ in_exception' = TRUE
  /\ UNCHANGED <<picvars, cpu, in_irq, vector, commands>>

\* HLT: CPU::boot leaves the loop that calls cycle().
Halt ==
  /\ cpu = "cycle"
  /\ cpu' = "halted"
  /\ UNCHANGED <<picvars, in_irq, in_exception, vector, commands>>

\* The program completes a remap command for a controller. boot() of the class
\* replaces the worker loop that would execute it.
SendRemap(p) ==
  /\ cpu = "cycle"
  /\ Len(commands[p]) < MaxRemaps
  /\ commands' = [commands EXCEPT ![p] = Append(@, "remap")]
  /\ UNCHANGED <<picvars, cpuvars>>

Cpu == SeeIrq \/ Dispatch

Next == \/ \E p \in Pics : Worker(p) \/ SendRemap(p)
        \/ \E d \in Devices : Raise(d)
        \/ Cpu
        \/ RaiseException
        \/ Halt

Spec == Init /\ [][Next]_vars

\* Every thread runs; the program need not halt, raise exceptions or send commands.
Fairness ==
  /\ \A p \in Pics : WF_vars(Worker(p))
  /\ \A d \in Devices : WF_vars(RaiseStore(d) \/ RaiseCurrent(d))
  /\ WF_vars(Cpu)
FairSpec == Spec /\ Fairness

-------------------------------------------------------------------------------
Threads == Pics \cup Devices
LineNumbers == Lines \cup {SPURIOUS}

\* Every variable stays in its range.
TypeOK ==
  /\ raised \in [Pics -> SUBSET Lines]
  /\ current \in [Pics -> LineNumbers]
  /\ offset \in [Pics -> Nat]
  /\ loop \in [Pics -> {"top", "load", "store", "scan"}]
  /\ scan \in [Pics -> 0 .. LineCount]
  /\ loaded \in [Threads -> SUBSET Lines]
  /\ device \in [Devices -> {"idle", "store", "current"}]
  /\ cpu \in {"cycle", "number", "halted"}
  /\ in_irq \in BOOLEAN
  /\ in_exception \in BOOLEAN
  /\ vector \in Seq(Nat)
  /\ commands \in [Pics -> Seq({"remap"})]
  /\ was_raised \in [Pics -> SUBSET Lines]
  /\ raises \in 0 .. MaxRaises

\* Whatever the threads do to the mask, no line comes up that no device raised.
NoPhantomLine == \A p \in Pics : raised[p] \subseteq was_raised[p]

\* A number the CPU dispatches is that of a line a device raised, of line 0
\* (between two rounds of the worker) or of the spurious line (before the first).
Reportable(p) == {0, SPURIOUS} \cup was_raised[p]
NumbersAreReportable ==
  \A i \in 1 .. Len(vector) : vector[i] - OFFSET \in Reportable(CpuPic)

\* The CPU takes no IRQ while it serves one.
NotNested == Len(vector) = IF in_irq THEN 1 ELSE 0

\* The invariant that is inductive. A phantom line can only come from a mask
\* that a thread has loaded, a wrong number only from the current line.
LoadedWereRaised ==
  /\ \A p \in Pics : loaded[p] \subseteq was_raised[p]
  /\ \A d \in Devices : loaded[d] \subseteq was_raised[DevicePic[d]]
CurrentIsReportable == \A p \in Pics : current[p] \in Reportable(p) /\ offset[p] = OFFSET
AsksOutsideIrq == cpu = "number" => ~in_irq /\ ~in_exception
IInv == /\ TypeOK
        /\ NoPhantomLine
        /\ LoadedWereRaised
        /\ CurrentIsReportable
        /\ NumbersAreReportable
        /\ AsksOutsideIrq
        /\ NotNested

\* A line that stays the lowest one raised is reported again and again.
IsLowest(p, n) == n \in raised[p] /\ \A m \in raised[p] : n <= m
LowestIsReported ==
  \A p \in Pics : \A n \in Lines :
    <>[]IsLowest(p, n) => []<>(current[p] = n)

\* A line that stays up at the CPU's controller interrupts the CPU, unless the
\* program halts or has entered the handler of an exception, which it cannot
\* leave: from there on cycle() takes no IRQ.
StandingIrqArrives ==
  <>[](raised[CpuPic] # {}) => <>(in_irq \/ in_exception \/ cpu = "halted")

-------------------------------------------------------------------------------
(* What comments and manuals say of the controller and the code does not do.  *)

\* eoi(), "Clear irq raised flag for specific device": a line that goes down is
\* the current one of its controller.
ClearsOnlyCurrent ==
  [][\A p \in Pics : raised[p] \ raised'[p] \subseteq {current[p]}]_vars
===============================================================================
