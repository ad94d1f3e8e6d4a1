------------------------------ MODULE Processes ------------------------------
(***************************************************************************)
(* Child processes (process.c).  The handlers of SIGCHLD and of SIGINT     *)
(* write a byte into a pipe of the compositor itself, whose event loop     *)
(* reads one byte at a time and, for SIGCHLD, waits for one child.  The    *)
(* kernel keeps at most one pending SIGCHLD.  A child that was spawned     *)
(* with callbacks has an object in the list of monitored children and a    *)
(* pipe for its output; one that was not is forked by a child of its own   *)
(* that exits at once, and which, having inherited handler and pipe, may   *)
(* itself write a byte when its child has died first.  The object is freed *)
(* with the exit although the source of its output may still be there:     *)
(* what the pipe would then do with freed memory is not followed.          *)
(***************************************************************************)
EXTENDS Naturals, Sequences, FiniteSets

CONSTANTS Child, MaxSpurious   \* bound: bytes that children write

VARIABLES
  child,      \* "unborn", "running", "zombie" or "reaped"
  monitored,  \* the children that have an object
  output,     \* of each child: "silent", "ready" to be read, or at its "end"
  exited,     \* the children whose exit callback was called
  signal,     \* pending: a SIGCHLD; merged: exits that found one pending
  bytes,      \* what is in the pipe
  spurious,   \* bytes written by children
  stopped     \* wl_display_terminate was called

processVars == <<child, monitored, output, exited, signal, bytes, spurious, stopped>>

Zombies == {c \in Child : child[c] = "zombie"}

(* _spawn and _spawn_easy_async, from an idle callback.                    *)
Spawn(c, withCallbacks) ==
    /\ child[c] = "unborn" /\ ~stopped
    /\ child' = [child EXCEPT ![c] = "running"]
    /\ monitored' = IF withCallbacks THEN monitored \cup {c} ELSE monitored
    /\ output' = [output EXCEPT ![c] = IF withCallbacks THEN "silent" ELSE "end"]
    /\ UNCHANGED <<exited, signal, bytes, spurious, stopped>>

Write(c) ==
    /\ child[c] = "running" /\ output[c] = "silent" /\ c \in monitored
    /\ output' = [output EXCEPT ![c] = "ready"]
    /\ UNCHANGED <<child, monitored, exited, signal, bytes, spurious, stopped>>

(* on_pipe_stdout and process_stdfd; nothing to read is the end of it.     *)
OnPipe(c) ==
    /\ c \in monitored
    /\ \/ /\ output[c] = "ready"
          /\ output' = [output EXCEPT ![c] = "silent"]
       \/ /\ output[c] = "silent" /\ child[c] = "zombie"
          /\ output' = [output EXCEPT ![c] = "end"]
    /\ UNCHANGED <<child, monitored, exited, signal, bytes, spurious, stopped>>

Exit(c) ==
    /\ child[c] = "running"
    /\ child' = [child EXCEPT ![c] = "zombie"]
    /\ signal' = IF signal.pending THEN [signal EXCEPT !.merged = @ + 1]
                 ELSE [signal EXCEPT !.pending = TRUE]
    /\ UNCHANGED <<monitored, output, exited, bytes, spurious, stopped>>

SigchldHandler ==
    /\ signal.pending
    /\ signal' = [signal EXCEPT !.pending = FALSE]
    /\ bytes' = Append(bytes, "sigchld")
    /\ UNCHANGED <<child, monitored, output, exited, spurious, stopped>>

ChildWrites ==
    /\ spurious < MaxSpurious
    /\ \E c \in Child \ monitored : child[c] = "running"
    /\ bytes' = Append(bytes, "sigchld") /\ spurious' = spurious + 1
    /\ UNCHANGED <<child, monitored, output, exited, signal, stopped>>

GracefulHandler ==
    /\ ~stopped /\ \A i \in DOMAIN bytes : bytes[i] # "graceful"
    /\ bytes' = Append(bytes, "graceful")
    /\ UNCHANGED <<child, monitored, output, exited, signal, spurious, stopped>>

(* A variant that waits for the children it has an object of only.         *)
DeadMonitored(c) == c \in Zombies \cap monitored

(* waitpid in process_dead_child finds any one child that is dead, or none. *)
Dead(c) == c \in Zombies

OnSigpfdReady ==
    /\ bytes # <<>> /\ ~stopped
    /\ bytes' = Tail(bytes)
    /\ stopped' = (Head(bytes) = "graceful")
    /\ \/ /\ Head(bytes) = "sigchld"
          /\ \E c \in Child :
               /\ Dead(c)
               /\ child' = [child EXCEPT ![c] = "reaped"]
               /\ monitored' = monitored \ {c}
               /\ exited' = IF c \in monitored THEN exited \cup {c} ELSE exited
       \/ /\ Head(bytes) = "sigchld" => \A c \in Child : ~Dead(c)
          /\ UNCHANGED <<child, monitored, exited>>
    /\ UNCHANGED <<output, signal, spurious>>

ProcessesInit ==
    /\ child = [c \in Child |-> "unborn"]
    /\ monitored = {} /\ exited = {}
    /\ output = [c \in Child |-> "end"]
    /\ signal = [pending |-> FALSE, merged |-> 0]
    /\ bytes = <<>> /\ spurious = 0 /\ stopped = FALSE

ProcessesNext ==
    \/ \E c \in Child : \/ \E m \in BOOLEAN : Spawn(c, m)
                        \/ Write(c) \/ OnPipe(c) \/ Exit(c)
    \/ SigchldHandler
    \/ ChildWrites
    \/ GracefulHandler
    \/ OnSigpfdReady

(***************************************************************************)
(* Properties                                                              *)
(***************************************************************************)

(* An exit is overlooked, its child left a zombie and its callback not     *)
(* called, only when its SIGCHLD was merged with another's: all other dead *)
(* children have a signal or a byte under way that will reap one, whoever  *)
(* wrote it and whichever child it finds (process.c process_dead_child).   *)
EveryExitIsAccounted ==
    /\ Cardinality(Zombies) <= signal.merged + (IF signal.pending THEN 1 ELSE 0)
                               + Cardinality({i \in DOMAIN bytes : bytes[i] = "sigchld"})
    /\ \A c \in monitored : child[c] \in {"running", "zombie"}

=============================================================================
