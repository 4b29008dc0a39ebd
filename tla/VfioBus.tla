------------------------------ MODULE VfioBus ------------------------------
(***************************************************************************)
(* VGA arbitration (VfioVga) over the devices that VfioHotReset plugs and  *)
(* unplugs, next to the devices of the host, which stay.                   *)
(***************************************************************************)
EXTENDS VfioHotReset

CONSTANTS
  HostDevs,      \* the devices above the bus "top" and on other buses
  VgaDevs, TreeBusOf, TreeBridge, DomainOf, BusNr, MaxNr  \* see VfioVga

Vga == INSTANCE VfioVga WITH
  Devs <- Devs \union HostDevs, BusOf <- TreeBusOf, Bridge <- TreeBridge

ASSUME BusAssumption == Vga!Numbered

(* In every set of devices that plugging and unplugging brings about,      *)
(* vfio-pci gives up legacy VGA decoding exactly where the comment of      *)
(* vfio_pci.c:69-76 says it may.                                           *)
VgaDecodeRight == Vga!VgaDecodeRight(present \union HostDevs)
=============================================================================
