------------------------- MODULE MCHandleHTTPRequest -------------------------
(***************************************************************************)
(* HandleHTTPRequest with a call of a connector that retries twice and one *)
(* of a connector that, its MAX_RETRIES being negative, never enters the   *)
(* loop.                                                                   *)
(***************************************************************************)
EXTENDS HandleHTTPRequest

CONSTANTS twice, never

MCMaxRetries == [c \in Calls |-> CASE c = twice -> 2 [] c = never -> -1]

================================================================================
