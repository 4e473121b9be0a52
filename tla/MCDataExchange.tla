--------------------------- MODULE MCDataExchange ---------------------------
(* A small instance of DataExchange for TLC.                               *)
EXTENDS DataExchange

CONSTANTS ask, note, answer, back

(* The client streams, and asks in a thread or in a callback; the server   *)
(* asks back in a callback and answers in a thread, which may do so while  *)
(* the callback that was asked is still running.                           *)
AtEnd == [c \in Calls |-> IF c \in {answer, back} THEN "server" ELSE "client"]
KindOf ==
    [c \in Calls |-> CASE c = note -> "stream" [] c = answer -> "response"
                       [] OTHER -> "request"]
Makers ==
    [c \in Calls |-> CASE c = ask -> {"thread", "callback"}
                       [] c = back -> {"callback"}
                       [] OTHER -> {"thread"}]

(* With the stream message, which lets a callback run on the server from   *)
(* the start, the client asks in a callback only: so both receive threads  *)
(* may wait for each other.  Nobody is obliged to make a call, so this     *)
(* restricts the applications only.                                        *)
AskedInside == pc[note] # "idle" => pc[ask] = "idle" \/ ask \in inside

(* While an inner request waits, the link breaks only if the callback is   *)
(* that of the stream message.  Nothing obliges it to break.               *)
BrokenWithNote == linkUp \/ pc[note] # "idle" \/ pc[back] \in {"idle", "listed", "done"}
=============================================================================
