------------------------ MODULE MCInterruptController ------------------------
(***************************************************************************)
(* Controllers for TLC. "fast" is the controller of the CPU with two       *)
(* devices on lines 1 and 2 of three; the machine of main() adds the       *)
(* legacy controller, whose m_irqc is the fast one, with the disk on line  *)
(* 3 of four.                                                              *)
(***************************************************************************)
EXTENDS InterruptController, TLC

FastPics == {"fast"}
FastUpstream == [p \in FastPics |-> "none"]
FastDevices == {"gfx", "printer"}
FastDevicePic == [d \in FastDevices |-> "fast"]
FastDeviceLine == ("gfx" :> 2) @@ ("printer" :> 1)

BothPics == {"fast", "legacy"}
BothUpstream == ("fast" :> "none") @@ ("legacy" :> "fast")
DiskDevices == {"disk"}
DiskDevicePic == [d \in DiskDevices |-> "legacy"]
DiskDeviceLine == [d \in DiskDevices |-> 3]
==============================================================================
