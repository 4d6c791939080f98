--------------------------- MODULE MCUploadRoutes ---------------------------
(* UploadRoutes with the file, the declarations and the chunks of          *)
(* MCUploadService: one client that sends one request after the other.     *)
EXTENDS UploadRoutes

File == <<"a", "b">>

MCDeclarations == {[size |-> n, sha256 |-> File] : n \in {0, 2, 3}}

Chunk(offset, data) == [offset |-> offset, data |-> data, checksum |-> data]

AnyChunks ==
  [s \in SessionIds |->
    {Chunk(0, <<"a">>), Chunk(1, <<"b">>), Chunk(0, <<"a", "b">>),
     Chunk(1, <<"b", "b">>), Chunk(1, <<>>),
     [offset |-> 0, data |-> <<"b">>, checksum |-> <<"a">>]}]
============================================================================
