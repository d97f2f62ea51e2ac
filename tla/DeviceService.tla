---------------------------- MODULE DeviceService ----------------------------
(***************************************************************************)
(* What a conventional Cx16 device promises to the rest of the machine,    *)
(* whatever the bus traffic that drives it looks like: whole commands are  *)
(* accepted into a queue, one worker executes them in the order they were  *)
(* accepted, each exactly once, and the only other things the device keeps *)
(* are its registers and one result word that IN16 returns.                *)
(*                                                                         *)
(* The state machine of Cx16ConventionalDevice (module ConventionalDevice) *)
(* is shown to implement this specification.                               *)
(***************************************************************************)
EXTENDS Integers, Sequences

CONSTANTS
  Commands,        \* command bytes
  Needed,          \* [Commands -> Nat]: argument words a command is queued with
  Values,          \* words that travel over the bus
  Regs,            \* register identifiers the device implements
  RegInit,         \* [Regs -> Values]: their power-on contents
  Results,         \* values a command may return
  InitialResults   \* contents of the result word at power-on

VARIABLES
  pending,         \* commands accepted and not yet executed, oldest first
  regs,            \* [Regs -> Values]
  result           \* the word IN16 returns

vars == <<pending, regs, result>>

Init ==
  /\ pending = <<>>
  /\ regs = RegInit
  /\ result \in InitialResults

\* A command with the argument words it is queued with.
IsQueueable(c) == c.cmd \in Commands /\ c.args \in [1 .. Needed[c.cmd] -> Values]

\* One such command joins the queue.
Accept ==
  /\ Len(pending') = Len(pending) + 1
  /\ pending' = Append(pending, pending'[Len(pending')])
  /\ IsQueueable(pending'[Len(pending')])
  /\ UNCHANGED <<regs, result>>

\* The oldest command is executed and leaves the queue.
Execute ==
  /\ pending # <<>>
  /\ pending' = Tail(pending)
  /\ result' \in Results
  /\ UNCHANGED regs

ReadRegister ==
  /\ \E r \in Regs : result' = regs[r]
  /\ UNCHANGED <<pending, regs>>

WriteRegister ==
  /\ \E r \in Regs : \E v \in Values : regs' = [regs EXCEPT ![r] = v]
  /\ UNCHANGED <<pending, result>>

Next == Accept \/ Execute \/ ReadRegister \/ WriteRegister

Spec == Init /\ [][Next]_vars
==============================================================================
