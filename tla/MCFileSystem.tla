----------------------------- MODULE MCFileSystem -----------------------------
(* FileSystem for TLC. *)
EXTENDS FileSystem

MCFile == [under |-> {"/"}, len |-> 14, rest |-> "file"]
MCShort == [under |-> {"/"}, len |-> 2, rest |-> "file"]    \* matches every key
MCMissing == [under |-> {"/", "/dev/"}, len |-> 12, rest |-> "nothing"]
MCFuncRap == [under |-> {"/", "/krn/virt/"}, len |-> 18, rest |-> "func.rap"]

MCPaths == {DevStdin, MCMissing, MCShort, MCFuncRap, MCFile}
MCLoaderPaths == {MCFile}
MCDisks == {{}, {"fat32"}}
=============================================================================
