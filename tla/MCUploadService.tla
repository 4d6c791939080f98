-------------------------- MODULE MCUploadService --------------------------
(***************************************************************************)
(* Instances of UploadService for TLC.  Files are two bytes long, "a" then *)
(* "b"; clients differ in how they cut and repeat them.                    *)
(***************************************************************************)
EXTENDS UploadService

File == <<"a", "b">>

\* The file, and requests whose size is refused.
MCDeclarations == {[size |-> n, sha256 |-> File] : n \in {0, 2, 3}}

Patch(offset, data) == [offset |-> offset, data |-> data, checksum |-> data]

\* A client that always cuts the file in the same two chunks.
FixedChunks == [s \in SessionIds |-> {Patch(0, <<"a">>), Patch(1, <<"b">>)}]

\* Clients that retry with other chunk sizes, overrun the file, send a
\* corrupted or an empty body.
AnyChunks ==
  [s \in SessionIds |->
    {Patch(0, <<"a">>), Patch(1, <<"b">>), Patch(0, <<"a", "b">>),
     Patch(1, <<"b", "b">>), Patch(1, <<>>),
     [offset |-> 0, data |-> <<"b">>, checksum |-> <<"a">>]}]
============================================================================
