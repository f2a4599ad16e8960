--------------------------- MODULE MCRecordBuffer ---------------------------
(* Small instances of RecordBuffer: blocks of 2 bytes, MACs of 1 byte.     *)
EXTENDS RecordBufferProps

mc_formats == {Aead(1, 1), Cbc(2, 1, TRUE), Cbc(2, 1, FALSE)}
mc_split_format == {Cbc(2, 1, FALSE)}

=============================================================================
