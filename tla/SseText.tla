------------------------------ MODULE SseText ------------------------------
(***************************************************************************)
(* The alphabet of streamed responses.  Text is a sequence of tokens: line *)
(* ends, the field name "data:" with its colon, a space, and payloads told *)
(* apart by the model they name.  Any other text is some other string.     *)
(***************************************************************************)
CR == "\r"
LF == "\n"
DATA == "data:"
SP == " "
DONE == "[DONE]"

\* JSON objects that name OpenRouter's model or the alias of it, whole or with
\* a line break inside.
NATIVE == "{native}"
ALIAS == "{alias}"
NATIVEHEAD == "{native"
ALIASHEAD == "{alias"
TAIL == "}"
=============================================================================
