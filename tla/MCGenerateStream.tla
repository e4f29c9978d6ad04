-------------------------- MODULE MCGenerateStream --------------------------
(* Bounds: three attempts (the code's own limit) and at most MaxEvents      *)
(* lines in all, two of them in one chunk: enough for an event before a     *)
(* failure, a terminal event followed by another line in the same chunk,    *)
(* and a last line without a newline.                                       *)
EXTENDS GenerateStream

MCKinds == {"delta", "finish", "error"}
MCHttpErrors == {403, 503}
MCBodyStatuses == {429, 503}
=============================================================================
