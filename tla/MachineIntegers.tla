-------------------------- MODULE MachineIntegers --------------------------
(***************************************************************************)
(* The 32-bit integers of the code, of the range -Half .. Half - 1 when    *)
(* they are signed.                                                        *)
(***************************************************************************)
EXTENDS Integers

CONSTANT Half  \* one more than the greatest i32, 2^31

Int32  == -Half .. Half - 1
UInt32 == 0 .. 2 * Half - 1
=============================================================================
