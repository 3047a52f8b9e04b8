--------------------------- MODULE MCToolToggle ---------------------------
(***************************************************************************)
(* The tool toggle with two of the four tools of the code.                 *)
(***************************************************************************)
EXTENDS ToolToggle

TwoTools == <<"propose_tool", "fetch_docs">>
=============================================================================
