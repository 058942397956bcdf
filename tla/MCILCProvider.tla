--------------------------- MODULE MCILCProvider ---------------------------
(* Numbers in eighths of an encoding unit; two programs. *)
EXTENDS ILCProvider

MCValue == {<<3>>, <<5, -12>>}

MCEncoding == {<<<<8>>, <<0>>, <<8>>, <<0>>, <<0>>, <<8>>>>,
               <<<<0>>, <<8>>, <<8>>, <<8>>, <<0>>, <<0>>>>}
=============================================================================
