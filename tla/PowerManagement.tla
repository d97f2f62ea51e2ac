---------------------------- MODULE PowerManagement ----------------------------
(***************************************************************************)
(* How the emulated machine is switched on, rebooted and shut down: the    *)
(* PMI controller (emulator/PMI.cpp) signals its devices from the thread   *)
(* of main() (the power button) and from its own worker (the commands the  *)
(* CPU sends it); the CPU thread (emulator/CPU.cpp) waits for the signal   *)
(* in a busy loop on the plain flag m_ready, runs until HLT and waits      *)
(* again. Of the PMI devices only the CPU overrides the PMI hooks, and it  *)
(* overrides pmi_boot and pmi_reboot.                                      *)
(***************************************************************************)
EXTENDS Integers, Sequences

CONSTANT MaxCommands     \* bound: PMI commands the program sends

ASSUME PowerAssumption == MaxCommands \in Nat

VARIABLES
  ready,      \* CPU::m_ready
  halted,     \* ControlUnit::m_is_halted
  led,        \* PMIController::m_power_led_on
  main,       \* main(): "create", "button" (inside power_button), "display"
  cpu,        \* CPU::boot: "sleep", "spin", "seen" (past the spin), "wake", "run"
  pmi,        \* PMI worker: "idle", "reboot" (do_cmd entered), "signal" (all
              \* pmi_reboot sent)
  queue,      \* commands for the PMI worker
  sent,       \* number of commands the program has sent
  boots,      \* number of pmi_boot signals the CPU was given
  starts,     \* number of times the CPU thread took m_ready for a start
  owed        \* was there a pmi_boot since the last start?

vars == <<ready, halted, led, main, cpu, pmi, queue, sent, boots, starts, owed>>

Init ==
  /\ ready = FALSE
  /\ halted = FALSE
  /\ led = FALSE
  /\ main = "create"
  /\ cpu = "sleep"
  /\ pmi = "idle"
  /\ queue = <<>>
  /\ sent = 0
  /\ boots = 0
  /\ starts = 0
  /\ owed = FALSE

\* CPU::pmi_boot, called from power_button() and from reboot().
PmiBoot ==
  /\ ready' = TRUE
  /\ boots' = boots + 1
  /\ owed' = TRUE

-------------------------------------------------------------------------------
(* The thread of main(): the button is pressed once, after the threads of    *)
(* all devices were created; then main stays in the display loop.            *)

PressButton ==
  /\ main = "create"
  /\ led' = TRUE
  /\ main' = "button"
  /\ UNCHANGED <<ready, halted, cpu, pmi, queue, sent, boots, starts, owed>>

ButtonBoots ==
  /\ main = "button"
  /\ PmiBoot
  /\ main' = "display"
  /\ UNCHANGED <<halted, led, cpu, pmi, queue, sent, starts>>

-------------------------------------------------------------------------------
(* The CPU thread, CPU::boot.                                                *)

\* sleep(1): the other threads may or may not have got anywhere by its end.
EndSleep ==
  /\ cpu = "sleep"
  /\ cpu' = "spin"
  /\ UNCHANGED <<ready, halted, led, main, pmi, queue, sent, boots, starts, owed>>

\* while(!m_ready) ;
SeeReady ==
  /\ cpu = "spin"
  /\ ready
  /\ cpu' = "seen"
  /\ UNCHANGED <<ready, halted, led, main, pmi, queue, sent, boots, starts, owed>>

\* Mutant: the flag is not taken back.
TakeReady_keeps ==
  /\ cpu = "seen"
  /\ starts' = starts + 1
  /\ owed' = FALSE
  /\ cpu' = "wake"
  /\ UNCHANGED <<ready, halted, led, main, pmi, queue, sent, boots>>

\* m_ready = false, a separate access.
TakeReady ==
  /\ cpu = "seen"
  /\ ready' = FALSE
  /\ starts' = starts + 1
  /\ owed' = FALSE
  /\ cpu' = "wake"
  /\ UNCHANGED <<halted, led, main, pmi, queue, sent, boots>>

Wake ==
  /\ cpu = "wake"
  /\ halted' = FALSE
  /\ cpu' = "run"
  /\ UNCHANGED <<ready, led, main, pmi, queue, sent, boots, starts, owed>>

\* An instruction of the program completes a command for the PMI controller:
\* out16 has to wait while the worker executes, which keeps the queue locked.
SendCommand(c) ==
  /\ cpu = "run" /\ ~halted
  /\ pmi = "idle"
  /\ sent < MaxCommands
  /\ queue' = Append(queue, c)
  /\ sent' = sent + 1
  /\ UNCHANGED <<ready, halted, led, main, cpu, pmi, boots, starts, owed>>

\* HLT.
Halt ==
  /\ cpu = "run" /\ ~halted
  /\ halted' = TRUE
  /\ UNCHANGED <<ready, led, main, cpu, pmi, queue, sent, boots, starts, owed>>

\* Mutant: the flag is taken back after the execution loop as well.
LeaveLoop_clears ==
  /\ cpu = "run" /\ halted
  /\ cpu' = "spin"
  /\ ready' = FALSE
  /\ UNCHANGED <<halted, led, main, pmi, queue, sent, boots, starts, owed>>

\* The execution loop ends and the thread waits for the next signal.
LeaveLoop ==
  /\ cpu = "run" /\ halted
  /\ cpu' = "spin"
  /\ UNCHANGED <<ready, halted, led, main, pmi, queue, sent, boots, starts, owed>>

-------------------------------------------------------------------------------
(* The PMI worker: do_cmd of the oldest command.                             *)

BeginReboot ==
  /\ pmi = "idle" /\ queue # <<>> /\ Head(queue) = "reboot"
  /\ pmi' = "reboot"
  /\ queue' = Tail(queue)
  /\ UNCHANGED <<ready, halted, led, main, cpu, sent, boots, starts, owed>>

\* First loop of reboot(): pmi_reboot to every device.
RebootSignal ==
  /\ pmi = "reboot"
  /\ ready' = FALSE
  /\ pmi' = "signal"
  /\ UNCHANGED <<halted, led, main, cpu, queue, sent, boots, starts, owed>>

\* Second loop of reboot(): pmi_boot to every device.
RebootBoots ==
  /\ pmi = "signal"
  /\ PmiBoot
  /\ pmi' = "idle"
  /\ UNCHANGED <<halted, led, main, cpu, queue, sent, starts>>

\* shutdown(): pmi_shutdown has no effect on any device; the LED goes off.
Shutdown ==
  /\ pmi = "idle" /\ queue # <<>> /\ Head(queue) = "shutdown"
  /\ led' = FALSE
  /\ queue' = Tail(queue)
  /\ UNCHANGED <<ready, halted, main, cpu, pmi, sent, boots, starts, owed>>

-------------------------------------------------------------------------------
Main == PressButton \/ ButtonBoots
Cpu == EndSleep \/ SeeReady \/ TakeReady \/ Wake \/ LeaveLoop
Program == Halt \/ \E c \in {"reboot", "shutdown"} : SendCommand(c)
Pmi == BeginReboot \/ RebootSignal \/ RebootBoots \/ Shutdown

Next == Main \/ Cpu \/ Program \/ Pmi

Spec == Init /\ [][Next]_vars

-------------------------------------------------------------------------------
\* Every variable stays in its range.
TypeOK ==
  /\ ready \in BOOLEAN
  /\ halted \in BOOLEAN
  /\ led \in BOOLEAN
  /\ main \in {"create", "button", "display"}
  /\ cpu \in {"sleep", "spin", "seen", "wake", "run"}
  /\ pmi \in {"idle", "reboot", "signal"}
  /\ queue \in Seq({"reboot", "shutdown"})
  /\ sent \in 0 .. MaxCommands
  /\ boots \in Nat
  /\ starts \in Nat
  /\ owed \in BOOLEAN

\* m_ready is raised only by a signal, and one signal starts the CPU at most
\* once: the CPU was not started more often than it was told to boot, and it
\* is about to start only if one more signal was given.
StartsAreSignalled ==
  /\ starts <= boots
  /\ ready \/ cpu = "seen" => starts < boots

\* A boot signal that no start has followed is not lost between the threads:
\* m_ready is up, or a reboot between its two loops is about to raise it.
SignalKept == owed => ready \/ pmi = "signal"

\* Nothing runs before the power button.
OffUntilPowered ==
  main = "create" => boots = 0 /\ cpu \in {"sleep", "spin"} /\ queue = <<>> /\ pmi = "idle"

IInv == TypeOK /\ StartsAreSignalled /\ SignalKept /\ OffUntilPowered
===============================================================================
