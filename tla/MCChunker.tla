------------------------------ MODULE MCChunker ------------------------------
(***************************************************************************)
(* The smallest documents on which the pages of chunks can be checked: one *)
(* that is cut by the splitter alone and one with articles.                *)
(***************************************************************************)
EXTENDS Chunker

Documents == {<<"text", "text", "text", "dieu">>,
              <<"text", "dieu", "text", "text", "chuong", "dieu", "dieu">>}
=============================================================================
