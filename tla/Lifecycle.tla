----------------------------- MODULE Lifecycle -----------------------------
(***************************************************************************)
(* The agent from one start of the device to the next: main()              *)
(* (src/src/SUTAgent.cpp) up to its loop, the rebt command that ends it,   *)
(* and the callback that rebt leaves in a file for the restarted agent to  *)
(* make.  The file survives restarts, which may also come unasked for, at  *)
(* any step.                                                               *)
(*                                                                         *)
(* What a session does besides rebt is in CommandSession; of that only cd  *)
(* matters here, because relative paths depend on it.                      *)
(***************************************************************************)
EXTENDS Integers, FiniteSets

CONSTANTS
  Dirs,       \* directories
  StartDir,   \* the working directory the agent is started in
  Here,       \* a relative test root, "."
  TestRoots,  \* what setTestRoot() may settle on: the option, or the default
              \* with and without an SD card
  PortArgs,   \* port numbers on the command line
  Addresses,  \* the callbacks that clients ask for
  Empty, NoFile, Garbage,
  MaxBoots    \* bound: starts of the device

Ports == 1 .. 65535  \* the port numbers there are
MaxPort == 32767     \* the largest that a PRInt16 holds

ASSUME LifecycleAssumption ==
  /\ IsFiniteSet(Dirs)
  /\ StartDir \in Dirs /\ Here \notin Dirs
  /\ TestRoots \subseteq Dirs \cup {Here}
  /\ PortArgs \subseteq Int
  /\ {Empty, NoFile, Garbage} \cap Addresses = {}
  /\ NoFile \notin {Empty, Garbage}
  /\ MaxBoots \in Nat

VARIABLES
  pc,        \* the step main() or rebt is at
  cwd,       \* the working directory of the process
  testRoot,  \* Config::mTestRoot
  args,      \* the ports asked for
  bound,     \* the ports listened on, 0 for none
  line,      \* what handle_reboot() has read
  rebtArg,   \* the address rebt is storing
  files,     \* REBOOT_FILE in each directory
  boots,
  \* history
  requests,  \* how often each callback was asked for
  pending,   \* callbacks stored and not yet tried
  strayed,   \* callbacks last stored while the test root led away from StartDir
  calls,     \* callbacks that reached their address
  queries,   \* registrations sent
  repeats,   \* callbacks sent whose file was not removed
  damaged    \* a file was opened and its address not written

network == <<args, bound>>
callback == <<requests, pending, strayed, calls, queries, repeats, damaged>>
vars == <<pc, cwd, testRoot, network, line, rebtArg, files, boots, callback>>

Kinds == {"command", "heartbeat"}
Steps == {"options", "testroot", "listen", "register", "callback", "send", "delete",
          "loop", "write", "stop", "reboot", "deaf", "exit"}

\* The whole part of a double assigned to a PRInt16: by way of a 32-bit register,
\* of which the lower half is kept.  One too large for that leaves 0 or -1 there,
\* according to the processor; neither is positive, and 0 stands for both.
Int32 == -2147483647 - 1 .. 2147483647
Signed(half) == IF half <= MaxPort THEN half ELSE half - 65536
ToInt16(v) == IF v \in Int32 THEN Signed(v % 65536) ELSE 0

Nowhere == [k \in Kinds |-> 0]
Serving == \A k \in Kinds : bound[k] # 0

\* Faulty variant: the name alone, as handle_reboot() has it.
ResolveName(dir) == cwd

Resolve(dir) == IF dir = Here THEN cwd ELSE dir

Starting ==
  /\ pc' = "options"
  /\ args' \in [Kinds -> PortArgs]
  /\ bound' = Nowhere
  /\ cwd' = StartDir
  /\ testRoot' = testRoot

Init ==
  /\ pc = "options" /\ cwd = StartDir
  /\ testRoot \in TestRoots
  /\ args \in [Kinds -> PortArgs] /\ bound = Nowhere
  /\ line = NoFile /\ rebtArg = NoFile
  /\ files = [d \in Dirs |-> NoFile]
  /\ boots = 1
  /\ requests = [a \in Addresses |-> 0]
  /\ calls = [a \in Addresses \cup {Garbage} |-> 0]
  /\ pending = {} /\ strayed = {} /\ queries = 0 /\ repeats = 0 /\ damaged = FALSE
-----------------------------------------------------------------------------
(***************************************************************************)
(* main() up to the loop.                                                  *)
(***************************************************************************)
\* A port that is not positive as a PRInt16 ends the agent with a message.
ParseOptions ==
  /\ pc = "options"
  /\ pc' = IF \A k \in Kinds : ToInt16(args[k]) > 0 THEN "testroot" ELSE "exit"
  /\ UNCHANGED <<cwd, testRoot, network, line, rebtArg, files, boots, callback>>

\* setTestRoot(): a directory that is missing is made; if it cannot be, or is
\* not one, the agent goes on all the same.  The default depends on whether an
\* SD card is mounted at this start.
SetTestRoot ==
  /\ pc = "testroot"
  /\ testRoot' \in TestRoots
  /\ pc' = "listen"
  /\ UNCHANGED <<cwd, network, line, rebtArg, files, boots, callback>>

\* Faulty variant: the server is told before the second port is open.
ListenAfterRegistering ==
  /\ pc = "listen"
  /\ LET k == IF bound["command"] = 0 THEN "command" ELSE "heartbeat"
         port == ToInt16(args[k])
     IN  \/ /\ \A other \in Kinds : bound[other] # port
            /\ bound' = [bound EXCEPT ![k] = port]
            /\ pc' = IF k = "command" THEN "register" ELSE "callback"
         \/ /\ bound' = Nowhere
            /\ pc' = "exit"
  /\ UNCHANGED <<cwd, testRoot, args, line, rebtArg, files, boots, callback>>

\* setUpAcceptor() for the command port, then for the heartbeat port; listen()
\* fails if the port is taken, and may fail otherwise.
Listen ==
  /\ pc = "listen"
  /\ LET k == IF bound["command"] = 0 THEN "command" ELSE "heartbeat"
         port == ToInt16(args[k])
     IN  \/ /\ \A other \in Kinds : bound[other] # port
            /\ bound' = [bound EXCEPT ![k] = port]
            /\ pc' = IF k = "command" THEN "listen" ELSE "register"
         \/ /\ bound' = Nowhere
            /\ pc' = "exit"
  /\ UNCHANGED <<cwd, testRoot, args, line, rebtArg, files, boots, callback>>

\* With an ini file the query is sent to the registration server, whatever
\* becomes of it.
Register ==
  /\ pc = "register"
  /\ queries' \in {queries, queries + 1}
  /\ pc' = "callback"
  /\ UNCHANGED <<cwd, testRoot, network, line, rebtArg, files, boots, requests, pending,
                 strayed, calls, repeats, damaged>>

\* handle_reboot(): the name of the file is relative.  The result of fgets() is
\* not looked at, so an empty file leaves the line uninitialised.
OpenCallback ==
  /\ pc = "callback"
  /\ IF files[cwd] = NoFile
       THEN pc' = "loop" /\ UNCHANGED line
       ELSE /\ pc' = "send"
            /\ line' = IF files[cwd] = Empty THEN Garbage ELSE files[cwd]
  /\ UNCHANGED <<cwd, testRoot, network, rebtArg, files, boots, callback>>

\* send_query() may fail to connect or to send.
SendCallback ==
  /\ pc = "send"
  /\ calls' \in {calls, [calls EXCEPT ![line] = @ + 1]}
  /\ pending' = pending \ {line}
  /\ pc' = "delete"
  /\ UNCHANGED <<cwd, testRoot, network, line, rebtArg, files, boots, requests, strayed,
                 queries, repeats, damaged>>

\* Faulty variant: the file is left for the next start.
KeepCallback ==
  /\ pc = "delete"
  /\ pc' = "loop"
  /\ UNCHANGED <<cwd, testRoot, network, line, rebtArg, files, boots, callback>>

\* The file is deleted whether or not the callback was made, if it can be.
DeleteCallback ==
  /\ pc = "delete"
  /\ \/ files' = [files EXCEPT ![cwd] = NoFile] /\ repeats' = repeats
     \/ files' = files /\ repeats' = repeats + 1
  /\ pc' = "loop"
  /\ UNCHANGED <<cwd, testRoot, network, line, rebtArg, boots, requests, pending, strayed,
                 calls, queries, damaged>>
-----------------------------------------------------------------------------
(***************************************************************************)
(* The commands cd and rebt.                                               *)
(***************************************************************************)
Cd ==
  /\ pc = "loop" /\ Serving
  /\ cwd' \in Dirs
  /\ UNCHANGED <<pc, testRoot, network, line, rebtArg, files, boots, callback>>

\* rebt without arguments.
RebtPlain ==
  /\ pc = "loop" /\ Serving
  /\ pc' = "stop"
  /\ UNCHANGED <<cwd, testRoot, network, line, rebtArg, files, boots, callback>>

\* rebt IP PORT: fopen() empties the file.  If it fails, rebt has warned and
\* nothing else has happened.
RebtOpen ==
  /\ pc = "loop" /\ Serving
  /\ rebtArg' \in Addresses
  /\ files' = [files EXCEPT ![Resolve(testRoot)] = Empty]
  /\ requests' = [requests EXCEPT ![rebtArg'] = @ + 1]
  /\ pc' = "write"
  /\ UNCHANGED <<cwd, testRoot, network, line, boots, pending, strayed, calls, queries,
                 repeats, damaged>>

\* The test root is not where the agent starts, or is relative, after a cd.
LeadsAway == testRoot # StartDir /\ ~(testRoot = Here /\ cwd = StartDir)

\* fprintf() and fclose(), the results of which are not looked at.
RebtWrite ==
  /\ pc = "write"
  /\ \/ /\ files' = [files EXCEPT ![Resolve(testRoot)] = rebtArg]
        /\ pending' = pending \cup {rebtArg}
        /\ strayed' = IF LeadsAway THEN strayed \cup {rebtArg} ELSE strayed \ {rebtArg}
        /\ damaged' = damaged
     \/ files' = files /\ UNCHANGED <<pending, strayed>> /\ damaged' = TRUE
  /\ pc' = "stop"
  /\ UNCHANGED <<cwd, testRoot, network, line, rebtArg, boots, requests, calls, queries,
                 repeats>>

\* Reactor::stop() closes and deletes every handler, the acceptors too.
StopReactor ==
  /\ pc = "stop"
  /\ bound' = Nowhere
  /\ pc' = "reboot"
  /\ UNCHANGED <<cwd, testRoot, args, line, rebtArg, files, boots, callback>>

\* The reboot program starts the device anew, or cannot; then the loop goes on
\* without handlers.
Reboot ==
  /\ pc = "reboot"
  /\ \/ /\ boots < MaxBoots
        /\ boots' = boots + 1
        /\ Starting
     \/ /\ pc' = "deaf"
        /\ UNCHANGED <<cwd, testRoot, network, boots>>
  /\ UNCHANGED <<line, rebtArg, files, callback>>

Signal ==
  /\ pc \in {"loop", "deaf"}
  /\ bound' = Nowhere
  /\ pc' = "exit"
  /\ UNCHANGED <<cwd, testRoot, args, line, rebtArg, files, boots, callback>>

\* The agent or the device goes down by itself, and the agent is started again.
Crash ==
  /\ boots < MaxBoots
  /\ boots' = boots + 1
  /\ Starting
  /\ damaged' = (damaged \/ pc = "write")
  /\ repeats' = IF pc = "delete" THEN repeats + 1 ELSE repeats
  /\ UNCHANGED <<line, rebtArg, files, requests, pending, strayed, calls, queries>>

Startup ==
  \/ ParseOptions \/ SetTestRoot \/ Listen \/ Register
  \/ OpenCallback \/ SendCallback \/ DeleteCallback

Next ==
  \/ Startup
  \/ Cd \/ RebtPlain \/ RebtOpen \/ RebtWrite \/ StopReactor \/ Reboot
  \/ Signal \/ Crash

Spec == Init /\ [][Next]_vars
-----------------------------------------------------------------------------
Contents == Addresses \cup {Empty, NoFile}

TypeOK ==
  /\ pc \in Steps /\ cwd \in Dirs /\ testRoot \in TestRoots
  /\ args \in [Kinds -> PortArgs] /\ bound \in [Kinds -> 0 .. MaxPort]
  /\ line \in Addresses \cup {Garbage, NoFile} /\ (pc \in {"send", "delete"} => line # NoFile)
  /\ rebtArg \in Addresses \cup {NoFile} /\ (pc = "write" => rebtArg # NoFile)
  /\ files \in [Dirs -> Contents] /\ boots \in Nat
  /\ requests \in [Addresses -> Nat]
  /\ pending \in SUBSET Addresses /\ strayed \in SUBSET Addresses
  /\ calls \in [Addresses \cup {Garbage} -> Nat]
  /\ queries \in Nat /\ repeats \in Nat /\ damaged \in BOOLEAN

\* Given port numbers, the agent listens on them or not at all: if the conversion
\* to PRInt16 changes one it is refused.  The two are different, whatever it was
\* given.
ListensWhereAsked ==
  /\ \A k \in Kinds : args[k] \in Ports => bound[k] \in {0, args[k]}
  /\ Serving => bound["command"] # bound["heartbeat"]

\* The registration server and the clients that wait for a callback learn of
\* the agent only when both ports are open, so that they can connect at once; and
\* a port that it was given, if it is one, is the port that is open.
ToldWhenServing ==
  [][queries' # queries \/ calls' # calls =>
       Serving /\ \A k \in Kinds : args[k] \in Ports => bound[k] = args[k]]_vars

\* A callback goes only to an address that a client gave to rebt, and once for
\* each rebt, however often the device goes down: unless it does so between the
\* call and the removal of the file, or the file cannot be removed.  An address
\* that nobody gave is called only after a file was opened and not written.
CallsAreRequested ==
  /\ \A a \in Addresses : calls[a] <= requests[a] + repeats
  /\ calls[Garbage] > 0 => damaged

\* handle_reboot() says "No reboot callback data." (SUTAgent.cpp:82) only if
\* none is stored, but for those that rebt has stored where handle_reboot() does
\* not look: while the test root was not the directory the agent starts in or,
\* being relative, led to where a cd had gone.
CallbackFound == [][pc = "callback" /\ pc' = "loop" => pending \subseteq strayed]_vars
=============================================================================
