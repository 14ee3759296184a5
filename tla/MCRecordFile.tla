---------------------------- MODULE MCRecordFile ----------------------------
(***************************************************************************)
(* Records of three bytes, two to a chunk, of three hashes.  The bytes of  *)
(* the program's own records are checked along with it.                    *)
(***************************************************************************)
EXTENDS RecordFile, Encoding

MCRecords == {<<0, 7, 8>>, <<1, 7, 9>>, <<2, 8, 8>>}
=============================================================================
