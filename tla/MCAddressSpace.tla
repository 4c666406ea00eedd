--------------------------- MODULE MCAddressSpace ---------------------------
(* Devices for module AddressSpace, at physical page 20: a framebuffer of  *)
(* 22 pages that begins at the last byte of one and takes more than two    *)
(* tables of the MMIO window, and a small one; further devices of five     *)
(* pages by their size and by their offset, one of which fills the window  *)
(* to its limit.                                                           *)
EXTENDS AddressSpace

MCFramebuffers == {[addr |-> 83, size |-> 84], [addr |-> 80, size |-> 9]}

MCDevices == {[addr |-> 80, size |-> 17], [addr |-> 83, size |-> 14]}
=============================================================================
