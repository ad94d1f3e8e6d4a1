----------------------------- MODULE Satellite -----------------------------
(***************************************************************************)
(* X11 clients without XWayland in the compositor (desktop/xwayland.c): it *)
(* owns the two listening sockets of an X11 display and watches them; when *)
(* a client connects it starts xwayland-satellite, which takes over, and   *)
(* watches its process instead, until that exits.                          *)
(*                                                                         *)
(* Every call of the kernel can fail where the code looks at the result.   *)
(* A satellite that cannot be executed is one that exits.  Nothing limits  *)
(* how often it is started: one that dies at once, while the client still  *)
(* waits, is started again and again.                                      *)
(***************************************************************************)
EXTENDS Naturals

CONSTANTS LastDisplay   \* the last number that is tried, 32

Display == 0..LastDisplay
Socket == {"unix", "abstract"}

VARIABLES lock,     \* display -> owner of /tmp/.X<n>-lock: "none", "other", "ours"
          file,     \* display -> owner of /tmp/.X11-unix/X<n>
          server,   \* the fields of struct cwc_server
          process   \* the satellite: "none", "running", "zombie", "reaped"

satelliteVars == <<lock, file, server, process>>

NoDisplay == LastDisplay + 1

Closed == [phase |-> "new", display |-> NoDisplay, sources |-> {}, pid |-> FALSE,
           exit |-> FALSE, failed |-> FALSE]

(* The displays whose lock and sockets can be had are those in good.  Of   *)
(* those tried before, the socket file is removed, kept if the lock could  *)
(* not be written, or ours if listen failed after bind.                    *)
Left(tried) ==
    {f \in [Display -> {"none", "other", "ours"}] :
        \A n \in Display : f[n] = file[n] \/ (n \in tried /\ f[n] # "other")}

OpenX11Sockets(good) ==
    LET free == {n \in Display : lock[n] = "none"}
        d == CHOOSE n \in good : \A e \in good : n <= e
    IN IF good = {}
       THEN /\ file' \in Left(free)
            /\ server' = [Closed EXCEPT !.phase = "up"]
            /\ UNCHANGED lock
       ELSE /\ \E left \in Left({n \in free : n < d}) : file' = [left EXCEPT ![d] = "ours"]
            /\ lock' = [lock EXCEPT ![d] = "ours"]
            /\ \E watched \in SUBSET Socket :
                  server' = [Closed EXCEPT !.phase = "up", !.display = d, !.sources = watched,
                                           !.failed = (watched # Socket)]

(* xwayland_satellite_init, without the program and with it.               *)
SkipIntegration ==
    /\ server.phase = "new"
    /\ server' = [Closed EXCEPT !.phase = "up"]
    /\ UNCHANGED <<lock, file, process>>

SatelliteStart ==
    /\ server.phase = "new"
    /\ \E good \in SUBSET {d \in Display : lock[d] = "none"} : OpenX11Sockets(good)
    /\ UNCHANGED process

(* on_x11_socket_fd, when fork succeeds: a pidfd that is not opened or not *)
(* watched ends the satellite, and nothing is watched any more.            *)
OnX11SocketFd ==
    /\ server.phase = "up" /\ server.sources # {} /\ ~server.pid
    /\ \/ /\ server' = [server EXCEPT !.sources = {}, !.pid = TRUE, !.exit = TRUE]
          /\ process' = "running"
       \/ /\ server' = [server EXCEPT !.sources = {}, !.failed = TRUE]
          /\ process' = "none"
    /\ UNCHANGED <<lock, file>>

Die ==
    /\ process = "running" /\ process' = "zombie"
    /\ UNCHANGED <<lock, file, server>>

(* on_sigchld of process.c waits for any child.                            *)
ReapedElsewhere ==
    /\ process = "zombie" /\ process' = "reaped"
    /\ UNCHANGED <<lock, file, server>>

(* on_xwayland_satellite_exit; a source that is not made is not tried again*)
OnExit ==
    /\ server.phase = "up" /\ server.exit /\ process \in {"zombie", "reaped"}
    /\ \E watched \in SUBSET Socket :
          server' = [server EXCEPT !.exit = FALSE, !.pid = FALSE, !.sources = watched,
                                   !.failed = @ \/ watched # Socket]
    /\ process' = "none"
    /\ UNCHANGED <<lock, file>>

(* xwayland_satellite_fini                                                 *)
SatelliteEnd ==
    /\ server.phase = "up"
    /\ server' = [Closed EXCEPT !.phase = "down"]
    /\ process' = IF server.pid THEN "none" ELSE process
    /\ IF server.display = NoDisplay THEN UNCHANGED <<lock, file>>
       ELSE /\ lock' = [lock EXCEPT ![server.display] = "none"]
            /\ file' = [file EXCEPT ![server.display] = "none"]

(* Another X server takes a display, removing what is left of the file, or *)
(* gives it up; one that was killed leaves the file.                       *)
Others(d) ==
    /\ \/ /\ lock[d] = "none"
          /\ lock' = [lock EXCEPT ![d] = "other"] /\ file' = [file EXCEPT ![d] = "other"]
       \/ /\ lock[d] = "other"
          /\ lock' = [lock EXCEPT ![d] = "none"]
          /\ file' \in {file, [file EXCEPT ![d] = "none"]}
    /\ UNCHANGED <<server, process>>

SatelliteInit ==
    /\ lock = [d \in Display |-> "none"] /\ file = [d \in Display |-> "none"]
    /\ server = Closed
    /\ process = "none"

SatelliteNext ==
    \/ SkipIntegration \/ SatelliteStart \/ OnX11SocketFd
    \/ Die \/ ReapedElsewhere \/ OnExit \/ SatelliteEnd
    \/ \E d \in Display : Others(d)

(***************************************************************************)
(* Properties                                                              *)
(***************************************************************************)

(* While a display is offered its lock and its socket are those of the     *)
(* compositor, no other display is locked by it, and either both sockets   *)
(* are watched and there is no satellite, or the sockets are left to one   *)
(* whose exit is watched; the exceptions are sources that could not be made*)
(* and a satellite whose process could not be watched, after which X11     *)
(* stays dead until a restart (xwayland.c:206).  Afterwards no process and *)
(* no lock is left, nor a file, unless listen had failed (xwayland.c:73).  *)
SatelliteIsWatched ==
    LET offered == server.display # NoDisplay
    IN /\ {d \in Display : lock[d] = "ours"} = {server.display} \cap Display
       /\ offered => file[server.display] = "ours"
       /\ offered /\ ~server.failed =>
             IF server.pid THEN server.exit /\ server.sources = {}
             ELSE ~server.exit /\ server.sources = Socket
       /\ (process # "none") = server.pid

============================================================================
