-------------------------------- MODULE Mount -------------------------------
(***************************************************************************)
(* The life of a gocryptfs mount: doMount with its control socket, the     *)
(* SIGINT handler and the deferred clean-up, in the foreground or as the   *)
(* child of a process that waits to tell the user how it went.  Several    *)
(* processes may be given the same -ctlsock path; each has a mountpoint of *)
(* its own, and may be killed at any time.                                 *)
(***************************************************************************)
EXTENDS Naturals

CONSTANTS Procs, None

VARIABLES sockfile,       \* whose socket the -ctlsock path names, or None
          listener,       \* p -> "none", "bound" or "listening"
          mnt,            \* p -> "no", "yes", "lazy" (detached) or "dead" (no server)
          keys,           \* p -> "none", "live" or "wiped"
          main, sig,      \* program counters: of doMount, of the signal handler
          diedOf,         \* ghost: p -> how its last run ended
          parent,         \* p -> of the process that forked it: "none", "wait" or exit status
          usr1,           \* p -> SIGUSR1 is pending for the parent
          served          \* ghost: p -> its file system was mounted
forked == << parent, usr1, served >>
vars == << sockfile, listener, mnt, keys, main, sig, diedOf, forked >>

Init ==
    /\ sockfile = None
    /\ listener = [p \in Procs |-> "none"]
    /\ mnt = [p \in Procs |-> "no"]
    /\ keys = [p \in Procs |-> "none"]
    /\ main = [p \in Procs |-> "off"] /\ sig = [p \in Procs |-> "off"]
    /\ diedOf = [p \in Procs |-> "nothing"]
    /\ parent = [p \in Procs |-> "none"] /\ usr1 = [p \in Procs |-> FALSE]
    /\ served = [p \in Procs |-> FALSE]

Goto(p, label) == main' = [main EXCEPT ![p] = label]

\* The process is gone: descriptors are closed, files and a mount stay.
Gone(p, why) ==
    /\ Goto(p, "off") /\ sig' = [sig EXCEPT ![p] = "off"]
    /\ listener' = [listener EXCEPT ![p] = "none"]
    /\ keys' = [keys EXCEPT ![p] = "none"]
    /\ mnt' = [mnt EXCEPT ![p] = IF @ = "yes" THEN "dead" ELSE "no"]
    /\ diedOf' = [diedOf EXCEPT ![p] = why]

----------------------------------------------------------------------------
(* The parent                                                              *)

Started(p, status) ==
    /\ parent' = [parent EXCEPT ![p] = status] /\ usr1' = [usr1 EXCEPT ![p] = FALSE]
    /\ served' = [served EXCEPT ![p] = FALSE] /\ diedOf' = [diedOf EXCEPT ![p] = "nothing"]
    /\ UNCHANGED << sockfile, listener, mnt, keys, sig >>

\* A mount with -fg has no parent to tell; otherwise gocryptfs starts itself again.
doMount(p) ==
    /\ main[p] = "off" /\ mnt[p] = "no" /\ parent[p] # "wait"
    /\ Started(p, "none") /\ Goto(p, "start")
forkChild(p) ==
    /\ main[p] = "off" /\ mnt[p] = "no" /\ parent[p] # "wait"
    /\ \/ Started(p, "wait") /\ Goto(p, "start")
       \/ Started(p, "error") /\ UNCHANGED main       \* Start failed

ParentGone(p, status) ==
    /\ parent' = [parent EXCEPT ![p] = status]
    /\ UNCHANGED << sockfile, listener, mnt, keys, main, sig, diedOf, usr1, served >>

exitOnUsr1(p) == parent[p] = "wait" /\ usr1[p] /\ ParentGone(p, "0")

\* Mutant: the exit status of the child is lost.
WaitForChild_status(p) == parent[p] = "wait" /\ main[p] = "off" /\ ParentGone(p, "0")

\* The exit status of the child; -1 if a signal killed it.
WaitForChild(p) ==
    /\ parent[p] = "wait" /\ main[p] = "off"
    /\ ParentGone(p, IF diedOf[p] = "unmount" THEN "0" ELSE "error")

\* The user does not wait.
KillParent(p) == parent[p] = "wait" /\ ParentGone(p, "none")

----------------------------------------------------------------------------
(* Control socket                                                          *)

Refuses(p) == listener[p] # "listening"

\* doMount's checks of the mountpoint, and Stat and Dial of the socket.
cleanupOrphanedSocket(p) ==
    /\ main[p] = "start" /\ mnt[p] = "no"
    /\ Goto(p, IF sockfile # None /\ Refuses(sockfile) THEN "remove" ELSE "bind")
    /\ UNCHANGED << sockfile, listener, mnt, keys, sig, diedOf, forked >>

RemoveOrphan(p) ==
    /\ main[p] = "remove"
    /\ sockfile' = None /\ Goto(p, "bind")
    /\ UNCHANGED << listener, mnt, keys, sig, diedOf, forked >>

\* net.Listen: bind, then listen.
Bind(p) ==
    /\ main[p] = "bind"
    /\ \/ /\ sockfile = None /\ sockfile' = p
          /\ listener' = [listener EXCEPT ![p] = "bound"]
          /\ Goto(p, "listen")
          /\ UNCHANGED << mnt, keys, sig, diedOf >>
       \/ sockfile # None /\ Gone(p, "address in use") /\ UNCHANGED sockfile
    /\ UNCHANGED forked

Listen(p) ==
    /\ main[p] = "listen"
    /\ listener' = [listener EXCEPT ![p] = "listening"] /\ Goto(p, "load")
    /\ UNCHANGED << sockfile, mnt, keys, sig, diedOf, forked >>

----------------------------------------------------------------------------
(* doMount                                                                 *)

\* Closing the listener unlinks the path, whatever is there.
initFuseFrontend(p) ==
    /\ main[p] = "load"
    /\ \/ /\ keys' = [keys EXCEPT ![p] = "live"] /\ Goto(p, "mount")
          /\ UNCHANGED << sockfile, listener, mnt, sig, diedOf >>
       \/ Gone(p, "password") /\ sockfile' = None       \* loadConfig failed
       \/ Gone(p, "exit") /\ UNCHANGED sockfile         \* a later error
    /\ UNCHANGED forked

initGoFuse(p) ==
    /\ main[p] = "mount"
    /\ \/ /\ mnt' = [mnt EXCEPT ![p] = "yes"] /\ served' = [served EXCEPT ![p] = TRUE]
          /\ Goto(p, "mounted")
          /\ UNCHANGED << listener, keys, sig, diedOf >>
       \/ Gone(p, "exit") /\ UNCHANGED served
    /\ UNCHANGED << sockfile, parent, usr1 >>

\* With -notifypid; a parent that is gone gets no signal.
sendUsr1(p) ==
    /\ main[p] = "mounted" /\ Goto(p, "notified")
    /\ usr1' = [usr1 EXCEPT ![p] = parent[p] = "wait"]
    /\ UNCHANGED << sockfile, listener, mnt, keys, sig, diedOf, parent, served >>

handleSigint(p) ==
    /\ main[p] = "notified"
    /\ sig' = [sig EXCEPT ![p] = "wait"] /\ Goto(p, "wait")
    /\ UNCHANGED << sockfile, listener, mnt, keys, diedOf, forked >>

\* Mutant: the keys are wiped without waiting for the unmount.
Wait_not(p) ==
    /\ main[p] = "wait" /\ Goto(p, "wipe")
    /\ UNCHANGED << sockfile, listener, mnt, keys, sig, diedOf, forked >>

\* srv.Wait, and AfterUnmount.
Wait(p) ==
    /\ main[p] = "wait" /\ mnt[p] = "no" /\ Goto(p, "wipe")
    /\ UNCHANGED << sockfile, listener, mnt, keys, sig, diedOf, forked >>

wipeKeys(p) ==
    /\ main[p] = "wipe"
    /\ keys' = [keys EXCEPT ![p] = "wiped"] /\ Goto(p, "close")
    /\ UNCHANGED << sockfile, listener, mnt, sig, diedOf, forked >>

CloseSocket(p) ==
    /\ main[p] = "close"
    /\ sockfile' = None /\ Gone(p, "unmount") /\ UNCHANGED forked

\* The user, or the idle monitor, unmounts; a detached mount is no longer in use;
\* the user removes a mount without server.
Unmounted(p) ==
    /\ mnt[p] # "no" /\ mnt' = [mnt EXCEPT ![p] = "no"]
    /\ UNCHANGED << sockfile, listener, keys, main, sig, diedOf, forked >>

----------------------------------------------------------------------------
(* Signals                                                                 *)

\* Before handleSigint, SIGINT has its default effect.
Sigint(p) ==
    /\ main[p] # "off"
    /\ \/ sig[p] = "off" /\ Gone(p, "default SIGINT")
       \/ /\ sig[p] = "wait" /\ sig' = [sig EXCEPT ![p] = "unmount"]
          /\ UNCHANGED << listener, mnt, keys, main, diedOf >>
    /\ UNCHANGED << sockfile, forked >>

\* srv.Unmount; if it fails and this is Linux, "fusermount -u -z", whose failure nobody
\* looks at.
unmount(p) ==
    /\ sig[p] = "unmount"
    /\ \/ mnt' = [mnt EXCEPT ![p] = "no"] /\ sig' = [sig EXCEPT ![p] = "exit"]
       \/ \E next \in {"fusermount", "failed"} : sig' = [sig EXCEPT ![p] = next] /\ UNCHANGED mnt
    /\ UNCHANGED << sockfile, listener, keys, main, diedOf, forked >>
LazyUnmount(p) ==
    /\ sig[p] = "fusermount"
    /\ \/ /\ mnt[p] # "no" /\ mnt' = [mnt EXCEPT ![p] = "lazy"]
          /\ sig' = [sig EXCEPT ![p] = "exit"]
       \/ sig' = [sig EXCEPT ![p] = "failed"] /\ UNCHANGED mnt
    /\ UNCHANGED << sockfile, listener, keys, main, diedOf, forked >>

\* os.Exit: no deferred function runs; doMount may be anywhere behind Wait by now.
SigExit(p) ==
    /\ \/ sig[p] = "exit" /\ Gone(p, "SIGINT")
       \/ sig[p] = "failed" /\ Gone(p, "failed unmount")
    /\ UNCHANGED << sockfile, forked >>

Kill(p) == main[p] # "off" /\ Gone(p, "SIGKILL") /\ UNCHANGED << sockfile, forked >>

Next ==
    \E p \in Procs :
        \/ doMount(p) \/ forkChild(p) \/ exitOnUsr1(p) \/ WaitForChild(p) \/ KillParent(p)
        \/ sendUsr1(p) \/ cleanupOrphanedSocket(p) \/ RemoveOrphan(p) \/ Bind(p) \/ Listen(p)
        \/ initFuseFrontend(p) \/ initGoFuse(p) \/ handleSigint(p)
        \/ Wait(p) \/ wipeKeys(p) \/ CloseSocket(p) \/ Unmounted(p)
        \/ Sigint(p) \/ unmount(p) \/ LazyUnmount(p) \/ SigExit(p) \/ Kill(p)

Spec == Init /\ [][Next]_vars

----------------------------------------------------------------------------
(* Properties                                                              *)

KeysOutliveRequests ==
    \A p \in Procs : main[p] # "off" /\ mnt[p] \in {"yes", "lazy"} => keys[p] = "live"
HandlerUnmounts == \A p \in Procs : mnt[p] = "dead" => diedOf[p] # "SIGINT"

\* A mount has its server: the keys are there as long as the kernel may send requests
\* (the deferred wipeKeys runs after srv.Wait); and once the handler is installed, SIGINT
\* leaves no mount behind that nobody serves, not even a busy one, unless the lazy unmount
\* fails as well as the first one, or is not tried (handleSigint, unmount).
MountIsServed == KeysOutliveRequests /\ HandlerUnmounts

\* The exit status of "gocryptfs CIPHERDIR MOUNTPOINT" says how it went: 0 only if the file
\* system was mounted, an error only if no process is left that could still mount it;
\* whether SIGUSR1 or the end of the child comes first (forkChild, exitOnUsr1).
ParentTellsOutcome ==
    \A p \in Procs : /\ parent[p] = "0" => served[p]
                     /\ parent[p] = "error" => main[p] = "off"
=============================================================================
