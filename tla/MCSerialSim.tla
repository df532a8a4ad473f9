---------------------------- MODULE MCSerialSim ----------------------------
(* Eleven digits of the git hash with a line end on either side: while     *)
(* this greeting is printed stdin is polled four times, and each poll      *)
(* finds a byte, for a FIFO of two.                                        *)
EXTENDS SerialSim

MCKeys == <<{85}, {CR}, {CR, NoKey}, {85}, {CR, NoKey}, {CR, NoKey}, {NoKey}>>
MCLogo1 == <<LF>>
MCLogo2 == <<LF>>
MCGitInfo == <<0, 1, 10, 15, 5, 2, 12, 9, 7, 8, 14>>
MCDirty == <<45>>
MCPaces == {37, 151}
=============================================================================
