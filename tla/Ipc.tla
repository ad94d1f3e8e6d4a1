-------------------------------- MODULE Ipc --------------------------------
(***************************************************************************)
(* The ipc server (ipc/server.c, ipc/common.c) and cwctl (cwctl/main.c): a *)
(* chunk of Lua goes up a stream socket, the server evaluates it and sends *)
(* one answer, and cwctl waits until a message with the opcode of answers  *)
(* has come.  A stream has no messages: what was sent in one call may      *)
(* arrive in two reads and two calls in one.                               *)
(*                                                                         *)
(* Chunks are told apart by what becomes of them: "nothing" returns no     *)
(* value, "error" raises one, "mute" returns a value that cannot be        *)
(* converted, and the text of "value" fits a read, that of "long" may come *)
(* in two parts and that of "huge" exceeds the buffer.  Chunks themselves  *)
(* fit a read (a bound), and MaxQueue parts wait on a way before the next  *)
(* question (a bound).                                                     *)
(***************************************************************************)
EXTENDS Naturals, Sequences

CONSTANTS Ctl,       \* the processes of cwctl
          Chunk,     \* cwctl -> the kinds of chunks it sends
          MaxQueue,
          Nobody

VARIABLES server,  \* phase, and of the socket: open, file in place, path known
          conn,    \* the server's end: "none", "queued", "open", "shut"
          up,      \* chunks on their way to the server
          down,    \* parts of answers on their way back
          ctl,     \* cwctl: at, the chunk it asked, what it showed
          busy,    \* the evaluation: for whom, and the answer to be sent
          left,    \* results of earlier chunks are on the stack of Lua
          astray   \* cwctl -> an answer was lost, came in parts

ipcVars == <<server, conn, up, down, ctl, busy, left, astray>>

NotBusy == [to |-> Nobody, rest |-> <<>>]

Away == [at |-> "away", asked |-> "none", shown |-> "none"]

(* setup_ipc, which may fail before bind, after it, or not at all.         *)
SetupIpc ==
    /\ server.phase = "new"
    /\ \E s \in {<<FALSE, FALSE, FALSE>>, <<TRUE, FALSE, FALSE>>,
                 <<TRUE, TRUE, FALSE>>, <<TRUE, TRUE, TRUE>>} :
          server' = [phase |-> "up", open |-> s[1], file |-> s[2], path |-> s[3]]
    /\ UNCHANGED <<conn, up, down, ctl, busy, left, astray>>

Up == server.phase = "up"

Connect(c) ==
    /\ Up /\ server.path /\ ctl[c].at = "away" /\ conn[c] = "none"
    /\ conn' = [conn EXCEPT ![c] = "queued"]
    /\ ctl' = [ctl EXCEPT ![c].at = "prompt"]
    /\ astray' = [astray EXCEPT ![c] = FALSE]
    /\ UNCHANGED <<server, up, down, busy, left>>

(* ipc_handle_new_conn closes the connection when memory is short.         *)
OnNewConn(c) ==
    /\ Up /\ busy = NotBusy /\ conn[c] = "queued"
    /\ \E end \in {"open", "shut"} : conn' = [conn EXCEPT ![c] = end]
    /\ UNCHANGED <<server, up, down, ctl, busy, left, astray>>

(* repl sends; a connection that is shut ends cwctl by SIGPIPE.            *)
Ask(c, chunk) ==
    /\ ctl[c].at = "prompt"
    /\ Len(up[c]) + Len(down[c]) < MaxQueue
    /\ IF conn[c] = "shut"
       THEN ctl' = [ctl EXCEPT ![c] = Away] /\ UNCHANGED up
       ELSE /\ ctl' = [ctl EXCEPT ![c] = [at |-> "waiting", asked |-> chunk, shown |-> "none"]]
            /\ up' = [up EXCEPT ![c] = Append(@, chunk)]
    /\ UNCHANGED <<server, conn, down, busy, left, astray>>

(* The answers handle_eval_msg may send: nothing if tostring fails, and    *)
(* the buffer with the question in it if the answer is too long for it.    *)
Returns(chunk) == chunk \in {"value", "mute", "long", "huge"}

Answers(chunk) ==
    CASE chunk = "error" -> {<<"message">>}
      [] chunk = "mute" -> {<<>>}
      [] chunk = "long" -> {<<"head", "tail">>}
      [] chunk = "huge" -> {<<>>, <<"echo">>}
      [] OTHER -> {<<"text">>}

Response(chunk) ==
    IF chunk = "error" \/ Returns(chunk) THEN Answers(chunk) ELSE {<<"empty">>}

(* ipc_handle_client_msg: what has come is one chunk to it; with a second  *)
(* message in it that is no Lua.                                           *)
HandleEval(c) ==
    /\ Up /\ busy = NotBusy /\ conn[c] = "open" /\ ctl[c].at # "away" /\ up[c] # <<>>
    /\ LET chunk == IF Len(up[c]) = 1 THEN Head(up[c]) ELSE "error"
       IN /\ \E r \in Response(chunk) : busy' = [to |-> c, rest |-> r]
          /\ left' = (left \/ chunk = "error" \/ Returns(chunk))
          /\ astray' = [astray EXCEPT ![c] = @ \/ chunk \in {"mute", "long", "huge"}]
    /\ up' = [up EXCEPT ![c] = <<>>]
    /\ UNCHANGED <<server, conn, down, ctl>>

Crash ==
    /\ server' = [server EXCEPT !.phase = "crashed", !.open = FALSE]
    /\ conn' = [c \in Ctl |-> IF conn[c] = "none" THEN "none" ELSE "shut"]
    /\ busy' = NotBusy

(* send blocks until there is room, and is killed by SIGPIPE when cwctl    *)
(* went away meanwhile, unless a part is already out.                      *)
SendResponse ==
    LET c == busy.to
        more == Tail(busy.rest)
    IN /\ Up /\ busy # NotBusy
       /\ IF busy.rest = <<"tail">> /\ ctl[c].at = "away"
          THEN busy' = NotBusy /\ UNCHANGED <<server, conn, down>>
          ELSE IF ctl[c].at = "away"
          THEN Crash /\ UNCHANGED down
          ELSE IF busy.rest = <<>>
          THEN busy' = NotBusy /\ UNCHANGED <<server, conn, down>>
          ELSE /\ down' = [down EXCEPT ![c] = Append(@, Head(busy.rest))]
               /\ busy' = IF more = <<>> THEN NotBusy ELSE [busy EXCEPT !.rest = more]
               /\ UNCHANGED <<server, conn>>
       /\ UNCHANGED <<up, ctl, left, astray>>

(* recv returns what there is; the opcode is that of the first part.  A    *)
(* tail has none, and the variable is whatever it was.                     *)
Recv(c, n) ==
    LET got == SubSeq(down[c], 1, n)
        show(s) == ctl' = [ctl EXCEPT ![c].at = "prompt", ![c].shown = s]
    IN /\ ctl[c].at = "waiting" /\ down[c] # <<>>
       /\ down' = [down EXCEPT ![c] = SubSeq(@, n + 1, Len(@))]
       /\ \/ /\ Head(got) \in {"text", "message", "empty", "head"}
             /\ show(IF n = 1 THEN Head(got)
                     ELSE IF got = <<"head", "tail">> THEN "long" ELSE "mixed")
          \/ Head(got) = "tail" /\ show("garbled")
          \/ Head(got) \in {"echo", "tail"} /\ UNCHANGED ctl
       /\ UNCHANGED <<server, conn, up, busy, left, astray>>

(* The end of the stream is an empty read, and the buffer still holds the  *)
(* question: cwctl tries again for ever.                                   *)
RecvEnd(c) ==
    /\ ctl[c].at = "waiting" /\ conn[c] = "shut" /\ down[c] = <<>>
    /\ ctl' = [ctl EXCEPT ![c].at = "spinning"]
    /\ UNCHANGED <<server, conn, up, down, busy, left, astray>>

(* cwctl is done, or interrupted, at any moment.                           *)
Leave(c) ==
    /\ ctl[c].at # "away"
    /\ ctl' = [ctl EXCEPT ![c] = Away]
    /\ UNCHANGED <<server, conn, up, down, busy, left, astray>>

(* ipc_client_close, for a hangup; a shut connection is gone already.      *)
OnHangup(c) ==
    /\ ctl[c].at = "away"
    /\ conn[c] = "shut" \/ (Up /\ busy = NotBusy /\ conn[c] = "open")
    /\ conn' = [conn EXCEPT ![c] = "none"]
    /\ up' = [up EXCEPT ![c] = <<>>]
    /\ down' = [down EXCEPT ![c] = <<>>]
    /\ UNCHANGED <<server, ctl, busy, left, astray>>

(* cleanup_ipc walks the list while it frees it: the second step reads the *)
(* link that was removed, which is null.                                   *)
CleanupIpc ==
    /\ Up /\ busy = NotBusy
    /\ IF \E c \in Ctl : conn[c] = "open"
       THEN Crash
       ELSE /\ server' = [phase |-> "ended", open |-> FALSE, path |-> FALSE,
                          file |-> server.file /\ ~server.path]
            /\ conn' = [c \in Ctl |-> IF conn[c] = "none" THEN "none" ELSE "shut"]
            /\ UNCHANGED busy
    /\ UNCHANGED <<up, down, ctl, left, astray>>

IpcInit ==
    /\ server = [phase |-> "new", open |-> FALSE, file |-> FALSE, path |-> FALSE]
    /\ conn = [c \in Ctl |-> "none"]
    /\ up = [c \in Ctl |-> <<>>]
    /\ down = [c \in Ctl |-> <<>>]
    /\ ctl = [c \in Ctl |-> Away]
    /\ busy = NotBusy
    /\ left = FALSE
    /\ astray = [c \in Ctl |-> FALSE]

IpcNext ==
    \/ SetupIpc
    \/ SendResponse
    \/ CleanupIpc
    \/ \E c \in Ctl :
          \/ Connect(c) \/ OnNewConn(c) \/ HandleEval(c) \/ OnHangup(c)
          \/ RecvEnd(c) \/ Leave(c)
          \/ \E chunk \in Chunk[c] : Ask(c, chunk)
          \/ \E n \in 1 .. Len(down[c]) : Recv(c, n)

Expected(chunk) ==
    CASE chunk = "error" -> "message" [] chunk = "nothing" -> "empty" [] OTHER -> "text"

(* Whoever waits for an answer gets one while the server lives: question,  *)
(* evaluation or answer is on its way, unless one could not be converted   *)
(* or sent in one part.  And as long as none was, what cwctl shows is the  *)
(* answer to what it asked, whatever others asked before.                  *)
QuestionsAreAnswered ==
    \A c \in Ctl :
        /\ ctl[c].at = "waiting" /\ conn[c] # "shut" =>
              up[c] # <<>> \/ busy.to = c \/ down[c] # <<>> \/ astray[c]
        /\ ctl[c].shown # "none" /\ ~astray[c] => ctl[c].shown = Expected(ctl[c].asked)
============================================================================
