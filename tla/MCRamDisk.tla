------------------------------ MODULE MCRamDisk ------------------------------
(* Instance of DiskBoot for TLC, with one module of another kind and one of  *)
(* another version.                                                          *)
EXTENDS MCBuildRd, DiskBoot

TwoFiles == Layout(<<[name |-> kernel, data |-> new], [name |-> font, data |-> new]>>)
Others == {Module(FALSE, TRUE, TwoFiles), Module(TRUE, FALSE, TwoFiles)}
=============================================================================
