-------------------------- MODULE MCVirtualMemory --------------------------
(* Instances of VirtualMemory for TLC: three levels of tables with two      *)
(* entries each, so eight virtual pages and up to seven tables.             *)
EXTENDS VirtualMemory

Range(phys, virt, size) == [phys |-> phys, virt |-> virt, size |-> size]

(* A page mapped to itself and elsewhere, ranges that cross the tables of   *)
(* every level, a page mapped twice, an empty range.                        *)
RequestsMixed == {Range(1, 1, 1), Range(1, 6, 2), Range(2, 3, 2), Range(3, 5, 1), Range(0, 4, 0)}
=============================================================================
