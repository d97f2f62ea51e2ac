-------------------------------- MODULE Machine --------------------------------
(***************************************************************************)
(* The emulated machine as a whole, from main() to main()'s end            *)
(* (emulator/main.cpp): devices are created and given to each other, the   *)
(* threads of all of them are started, the button is pressed, and when the *)
(* window is closed everything is destroyed again while the threads still  *)
(* run. PowerManagement says what main, the CPU thread and the PMI worker  *)
(* do in between; here are the buses they meet on (emulator/Cx16.h) and    *)
(* the life of the objects.                                                *)
(***************************************************************************)
EXTENDS PowerManagement, FiniteSets, SequencesExt

CONSTANT Numbers        \* device numbers the program uses

\* The members of CPUIOBus, then those of Cx16Bus, as they are destroyed.
MemberRank == [dma |-> 1, pic |-> 2, master |-> 3, switch_1 |-> 4, switch_2 |-> 5]

ASSUME NumbersAssumption == Numbers \cap DOMAIN MemberRank = {}

Make(owner, object) == [do |-> "make", to |-> owner, as |-> "local", object |-> object]
Give(holder, place, object) == [do |-> "give", to |-> holder, as |-> place, object |-> object]
Open(file) == [do |-> "open", to |-> "main", as |-> "local", object |-> file]

MakeMemory == <<Make("main", "memory")>>
MakeOthers ==
  << Make("main", "cpu"), Make("cpu", "rom"), Open("rom_img"),
     Make("main", "cpu_io_bus"), Make("main", "legacy_io_bus"), Make("main", "fast_io_bus"),
     Give("cpu_io_bus", "master", "cpu"),
     Give("cpu_io_bus", "switch_1", "legacy_io_bus"), Give("cpu_io_bus", "switch_2", "fast_io_bus"),
     Make("main", "dma"), Give("cpu_io_bus", "dma", "dma"),
     Make("main", "fast_pic"), Give("cpu_io_bus", "pic", "fast_pic"),
     Make("main", "legacy_pic"), Give("fast_pic", "irq_5", "legacy_pic"),
     Make("main", "pit"), Make("main", "pmi"), Make("main", "gfx"),
     Open("disk_img"), Make("main", "mass_storage"),
     Give("legacy_pic", "irq_0", "pit"), Give("legacy_pic", "irq_2", "pmi"), Give("legacy_pic", "irq_3", "mass_storage"),
     Give("fast_io_bus", "0x0C", "fast_pic"), Give("fast_io_bus", "0x0F", "gfx"),
     Give("legacy_io_bus", "0x00", "pit"), Give("legacy_io_bus", "0x02", "mass_storage"),
     Give("legacy_io_bus", "0x04", "legacy_pic"), Give("legacy_io_bus", "0x05", "pmi"),
     Give("dma", "channel_2", "mass_storage"), Give("dma", "channel_15", "gfx"),
     Give("pmi", "device_1", "gfx"), Give("pmi", "device_2", "mass_storage"), Give("pmi", "device_3", "memory"),
     Give("pmi", "device_4", "cpu") >>

\* Mutant: the memory is created last.
Assembly_memory_last == MakeOthers \o MakeMemory
\* What main() does before it starts the threads, in its order.
Assembly == MakeMemory \o MakeOthers

Objects == {entry.object : entry \in {e \in ToSet(Assembly) : e.do = "make"}}
\* Device::all_devices: in the order they were created.
all_devices ==
  LET made == SelectSeq(Assembly, LAMBDA entry : entry.do = "make")
  IN  [i \in DOMAIN made |-> made[i].object]

\* Devices with a worker that executes commands; the PMI controller's is that
\* of PowerManagement. Both PICs have a loop of their own, and the boot() of
\* buses, memories and the DMA controller returns at once.
Served == {"pit", "gfx", "mass_storage"}
Looping == Served \cup {"cpu", "pmi", "fast_pic", "legacy_pic"}

VARIABLES
  at,         \* position in Assembly
  powered,    \* how many of all_devices have a thread
  worker,     \* the thread of each: "none", "running", "busy" or "ended"
  held,       \* shared pointers: who holds which object, and where
  closing,    \* has main() left the display loop or returned early?
  stack,      \* objects in the middle of their destructors, innermost first
  flagged,    \* objects with m_device_destroyed set
  gone,       \* objects destroyed
  undefined   \* was something used that is destroyed?

lifevars == <<at, powered, worker, held, closing, stack, flagged, gone, undefined>>
machinevars == <<vars, lifevars>>

MachineInit ==
  /\ Init
  /\ at = 1
  /\ powered = 0
  /\ worker = [o \in Objects |-> "none"]
  /\ held = {}
  /\ closing = FALSE
  /\ stack = <<>>
  /\ flagged = {} /\ gone = {}
  /\ undefined = FALSE

Dead(o) == o \in gone \cup ToSet(stack)
Lives(o) == worker[o] \in {"running", "busy"} /\ ~undefined

-------------------------------------------------------------------------------
(* main() up to the button.                                                  *)

Assembled == at > Len(Assembly)

\* insert() leaves what a map has already.
Assemble ==
  /\ ~closing /\ ~Assembled
  /\ at' = at + 1
  /\ LET entry == Assembly[at]
     IN  held' = IF entry.do = "open" \/ \E h \in held : h.to = entry.to /\ h.as = entry.as /\ entry.do = "give"
                   THEN held ELSE held \cup {entry}
  /\ UNCHANGED <<vars, powered, worker, closing, stack, flagged, gone, undefined>>

\* return 1: an image is missing.
ImageMissing ==
  /\ ~closing /\ ~Assembled
  /\ Assembly[at].do = "open"
  /\ closing' = TRUE
  /\ UNCHANGED <<vars, at, powered, worker, held, stack, flagged, gone, undefined>>

PowerOn ==
  /\ ~closing /\ Assembled /\ powered < Len(all_devices)
  /\ powered' = powered + 1
  /\ worker' = [worker EXCEPT ![all_devices[powered + 1]] =
                  IF all_devices[powered + 1] \in Looping THEN "running" ELSE "ended"]
  /\ UNCHANGED <<vars, at, held, closing, stack, flagged, gone, undefined>>

Button ==
  /\ powered = Len(all_devices) /\ ~undefined
  /\ Main
  /\ UNCHANGED lifevars

\* The display loop ends and main() returns.
CloseWindow ==
  /\ main = "display" /\ ~closing
  /\ closing' = TRUE
  /\ UNCHANGED <<vars, at, powered, worker, held, stack, flagged, gone, undefined>>

-------------------------------------------------------------------------------
(* The CPU thread and the buses.                                             *)

\* What a bus holds under a number, if anything (Bus::find_device).
find_device(bus, id) == {h.object : h \in {g \in held : g.to = bus /\ g.as = id}}
Switches == <<"switch_1", "switch_2">>
SwitchWith(id) ==
  {i \in DOMAIN Switches :
    \E bus \in find_device("cpu_io_bus", Switches[i]) : find_device(bus, id) # {}}

\* Mutant: only the first switch is asked.
Route_one_switch(id) ==
  IF SwitchWith(id) = {} THEN {}
  ELSE UNION {find_device(bus, id) : bus \in find_device("cpu_io_bus", "switch_1")}

\* The device an access with this number reaches: one of the bus's own, or
\* one of the first switch that has it; switches of switches are not asked.
Route(id) ==
  IF find_device("cpu_io_bus", id) # {} THEN find_device("cpu_io_bus", id)
  ELSE IF SwitchWith(id) = {} THEN {}
  ELSE LET first == CHOOSE i \in SwitchWith(id) : \A j \in SwitchWith(id) : i <= j
       IN  UNION {find_device(bus, id) : bus \in find_device("cpu_io_bus", Switches[first])}

\* The last word of a command; for the PMI controller, one that it knows. The
\* controllers execute no commands.
Output(id) ==
  /\ Lives("cpu") /\ ~Dead("cpu_io_bus")
  /\ \/ /\ Route(id) = {"pmi"}
        /\ \E c \in {"reboot", "shutdown"} : SendCommand(c)
        /\ UNCHANGED lifevars
     \/ \E device \in Route(id) \cap Served :
          /\ cpu = "run" /\ ~halted
          /\ worker[device] = "running"
          /\ worker' = [worker EXCEPT ![device] = "busy"]
          /\ UNCHANGED <<vars, at, powered, held, closing, stack, flagged, gone, undefined>>

CpuThread ==
  /\ Lives("cpu")
  /\ \/ SeeReady \/ TakeReady \/ Wake
     \/ (EndSleep \/ LeaveLoop) /\ "cpu" \notin flagged
  /\ UNCHANGED lifevars

ProgramHalts ==
  /\ Lives("cpu")
  /\ Halt
  /\ UNCHANGED lifevars

Ends(o) ==
  /\ worker' = [worker EXCEPT ![o] = "ended"]
  /\ UNCHANGED <<vars, at, powered, held, closing, stack, flagged, gone, undefined>>

\* running() is tested behind the sleep and when the program has halted, and
\* never while the thread waits for m_ready.
CpuEnds ==
  /\ Lives("cpu") /\ "cpu" \in flagged
  /\ cpu = "sleep" \/ (cpu = "run" /\ halted)
  /\ Ends("cpu")

-------------------------------------------------------------------------------
(* The workers of the other devices.                                         *)

PmiWorker ==
  /\ Lives("pmi")
  /\ Pmi
  /\ UNCHANGED lifevars

\* The queue is empty again. A command may also take for ever (Graphics,
\* EveryCommandReturns).
FinishCommand(o) ==
  /\ Lives(o) /\ worker[o] = "busy"
  /\ worker' = [worker EXCEPT ![o] = "running"]
  /\ UNCHANGED <<vars, at, powered, held, closing, stack, flagged, gone, undefined>>

Busy(o) ==
  IF o = "pmi" THEN Lives(o) /\ (queue # <<>> \/ pmi # "idle")
  ELSE Lives(o) /\ worker[o] = "busy"

\* while(!m_device_destroyed.load())
WorkerEnds(o) ==
  /\ Lives(o) /\ ~Busy(o) /\ o \in flagged
  /\ Ends(o)

-------------------------------------------------------------------------------
(* The end: locals are destroyed in the reverse order, and an object with    *)
(* the last pointer to it, its members first.                                *)

\* The lower go first: the locals from the last to the first, the members of
\* CPUIOBus and then those of Cx16Bus. The order within a map or a vector is
\* the library's.
Rank == [entry \in ToSet(Assembly) |->
  IF entry.to = "main" THEN -(CHOOSE i \in DOMAIN Assembly : Assembly[i] = entry)
  ELSE IF entry.as \in DOMAIN MemberRank THEN MemberRank[entry.as] ELSE 0]

\* The pointers of a holder of which any may go next.
Pointers(holder) ==
  {g \in held : /\ g.to = holder
                /\ \A h \in held : h.to = holder => Rank[g] <= Rank[h]}

Teardown == closing /\ ~undefined
Holder == IF stack = <<>> THEN "main" ELSE Head(stack)

ReleasePointer ==
  /\ Teardown
  /\ Holder \notin flagged
  /\ \E h \in Pointers(Holder) :
       /\ held' = held \ {h}
       /\ stack' = IF \E g \in held' : g.object = h.object THEN stack
                   ELSE <<h.object>> \o stack
  /\ UNCHANGED <<vars, at, powered, worker, closing, flagged, gone, undefined>>

\* Mutant: the flag of devices with a queue is not set.
DestroyDevice_without_flag ==
  /\ Teardown /\ stack # <<>>
  /\ Pointers(Head(stack)) = {}
  /\ flagged' = flagged \cup ({Head(stack)} \ Served)
  /\ UNCHANGED <<vars, at, powered, worker, held, closing, stack, gone, undefined>>

\* ~Device, when the destructors of what is derived from it are done.
DestroyDevice ==
  /\ Teardown /\ stack # <<>>
  /\ Pointers(Head(stack)) = {}
  /\ flagged' = flagged \cup {Head(stack)}
  /\ UNCHANGED <<vars, at, powered, worker, held, closing, stack, gone, undefined>>

Join ==
  /\ Teardown /\ stack # <<>>
  /\ Head(stack) \in flagged
  /\ worker[Head(stack)] \in {"none", "ended"}
  /\ gone' = gone \cup {Head(stack)}
  /\ stack' = Tail(stack)
  /\ UNCHANGED <<vars, at, powered, worker, held, closing, flagged, undefined>>

\* The thread of an object goes on while its members are destroyed, the CPU's
\* when its bus is gone, the card's when the DMA controller is: from there on
\* anything may happen.
UseDestroyed ==
  /\ ~undefined
  /\ \/ Lives("cpu") /\ cpu = "run" /\ ~halted /\ (Dead("cpu_io_bus") \/ Dead("cpu"))
     \/ \E o \in Served \cup {"pmi"} : Busy(o) /\ Dead(o)
     \/ Busy("gfx") /\ Dead("dma")
  /\ undefined' = TRUE
  /\ UNCHANGED <<vars, at, powered, worker, held, closing, stack, flagged, gone>>

-------------------------------------------------------------------------------
MainThread == Assemble \/ ImageMissing \/ PowerOn \/ Button \/ ReleasePointer \/ DestroyDevice \/ Join
Workers(o) == FinishCommand(o) \/ WorkerEnds(o)

MachineNext ==
  \/ MainThread \/ CloseWindow
  \/ CpuThread \/ CpuEnds \/ ProgramHalts \/ \E id \in Numbers : Output(id)
  \/ PmiWorker \/ \E o \in Looping \ {"cpu"} : Workers(o)
  \/ UseDestroyed

\* Every thread runs; commands need not end and programs need not halt.
MachineFairness ==
  /\ WF_machinevars(MainThread)
  /\ WF_machinevars(CpuThread \/ CpuEnds)
  /\ WF_machinevars(PmiWorker)
  /\ \A o \in Looping \ {"cpu"} : WF_machinevars(WorkerEnds(o))

MachineSpec == MachineInit /\ [][MachineNext]_machinevars /\ MachineFairness

-------------------------------------------------------------------------------
\* From the start of the threads to the end, every device that main() gives a
\* number on the legacy or the fast bus is the one the CPU reaches under that
\* number, and under any other number it reaches none: no registration hides
\* another, on the same bus or behind another switch.
AccessReachesRegistered ==
  Assembled /\ ~closing =>
    \A id \in Numbers :
      Route(id) = {Assembly[i].object : i \in
                    {j \in DOMAIN Assembly : /\ Assembly[j].to \in {"legacy_io_bus", "fast_io_bus"}
                                             /\ Assembly[j].as = id}}

\* The memory outlives the threads that read it, the CPU's and the graphics
\* card's, though only the order of the locals of main() and the pointers of
\* the others keep it alive (main.cpp:25).
MemoryOutlivesReaders ==
  Dead("memory") => \A o \in {"cpu", "gfx"} : worker[o] \in {"none", "ended"}

Returned == closing /\ stack = <<>> /\ Pointers("main") = {}

\* The CPU executes a program.
ProgramRuns == cpu = "run" /\ ~halted

\* A boot signal is followed by a start of the CPU, unless the window is closed
\* before or the program runs on for ever.
SignalStartsOrCloses == (owed ~> ~owed \/ closing) \/ <>[]ProgramRuns

\* What main() may wait for in ~Device for ever: a thread in a command that does
\* not end, a program that does not halt, and a CPU thread that waits for a boot
\* signal, which nothing can give any more.
WaitsForThread ==
  /\ stack # <<>> /\ Holder \in flagged
  /\ \/ worker[Holder] = "busy"
     \/ Holder = "cpu" /\ ProgramRuns
     \/ Holder = "cpu" /\ cpu = "spin" /\ ~ready /\ Dead("pmi")

\* Destruction waits for ever for no other thread: the flag each of them tests
\* is set before it is joined.
DestructionEnds == (closing ~> Returned \/ undefined) \/ <>[]WaitsForThread
===============================================================================
