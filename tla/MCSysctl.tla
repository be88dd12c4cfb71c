------------------------------ MODULE MCSysctl ------------------------------
(* With L = 4: names that fit, the one whose value wraps around the mask,  *)
(* one too big; contents from empty to too big.                            *)
EXTENDS Sysctl

MCNames == {<<1>>, <<1, 1>>, <<1, 1, 1>>, <<1, 1, 1, 1>>}
MCTexts == {<<>>, <<3, 3>>, <<3, 3, 3, 3>>}
Plain == [block_write_access |-> FALSE, block_read_access |-> FALSE, override |-> <<>>]
BlockWrite == [Plain EXCEPT !.block_write_access = TRUE]
BlockRead == [Plain EXCEPT !.block_read_access = TRUE]
Force == [Plain EXCEPT !.override = <<2>>]
BlockAndForce == [BlockWrite EXCEPT !.override = <<2>>]
Of(name, listed, default, act) == [list |-> name :> listed, default |-> default, action |-> act]
MCConfigs == {Of(<<1>>, BlockWrite, Plain, LOG), Of(<<1>>, Force, BlockRead, LOG),
              Of(<<1, 1, 1>>, BlockAndForce, Force, NOP), Of(<<1>>, Plain, BlockWrite, BLOCK)}
Symmetry == Permutations(Cpu)
MCPaddings == {<<>>, <<9>>}
=============================================================================
