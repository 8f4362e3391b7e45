------------------------------- MODULE MCIpam -------------------------------
(* Small address spaces for TLC: six bits, pools of four and eight addresses. *)
EXTENDS Ipam, TLC

MCPrefixes == {Width - 3, Width - 2}
MCUpper    == 2^(Width - 1) .. 2^Width - 1     \* at and above the sign bit
MCBases    == 0 .. 2^Width - 1
MCSymmetry == Permutations(Configs)

=============================================================================
