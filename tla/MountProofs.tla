---------------------------- MODULE MountProofs -----------------------------
(***************************************************************************)
(* Proofs about Mount and ConfigFile, for any number of gocryptfs          *)
(* processes. MountInv says how far a process and its parent have come in  *)
(* terms of its socket, mount and keys; ConfInv relates what a process is  *)
(* about to write to the config file and its backup.                       *)
(***************************************************************************)
EXTENDS MountParts, Naturals, TLAPS

----------------------------------------------------------------------------
(* Mount                                                                   *)

Ends == {"address in use", "password", "exit", "unmount", "default SIGINT", "SIGINT",
         "failed unmount", "SIGKILL"}
MountTypeOK ==
    /\ listener \in [Procs -> {"none", "bound", "listening"}]
    /\ mnt \in [Procs -> {"no", "yes", "lazy", "dead"}]
    /\ keys \in [Procs -> {"none", "live", "wiped"}]
    /\ main \in [Procs -> {"off", "start", "remove", "bind", "listen", "load", "mount", "mounted",
                           "notified", "wait", "wipe", "close"}]
    /\ sig \in [Procs -> {"off", "wait", "unmount", "fusermount", "failed", "exit"}]
    /\ diedOf \in [Procs -> Ends \union {"nothing"}]
    /\ parent \in [Procs -> {"none", "wait", "0", "error"}]
    /\ usr1 \in [Procs -> BOOLEAN] /\ served \in [Procs -> BOOLEAN]

\* A mount is there, or was, from initGoFuse to srv.Wait; doMount holds the keys for it.
ProcOK(p) ==
    /\ mnt[p] \in {"yes", "lazy"} => main[p] \in {"mounted", "notified", "wait"}
    /\ main[p] \in {"mount", "mounted", "notified", "wait"} => keys[p] = "live"
    /\ sig[p] # "off" => main[p] \in {"wait", "wipe", "close"}
    /\ sig[p] = "exit" => mnt[p] # "yes"
    /\ main[p] # "off" => mnt[p] # "dead"
    /\ mnt[p] = "dead" => diedOf[p] # "SIGINT"

\* SIGUSR1 and exit status 0 come from a child that has mounted.
ParentOK(p) ==
    /\ main[p] \in {"mounted", "notified", "wait", "wipe", "close"} => served[p]
    /\ usr1[p] => served[p]
    /\ diedOf[p] = "unmount" => served[p]
    /\ parent[p] = "0" => served[p]
    /\ parent[p] = "error" => main[p] = "off"

MountInv == MountTypeOK /\ \A p \in Procs : ProcOK(p) /\ ParentOK(p)

LEMMA MountInitOK == M!Init => MountInv
BY DEF M!Init, MountInv, MountTypeOK, ProcOK, ParentOK

\* A step of one process leaves the others alone.
OthersKept(p) ==
    \A q \in Procs \ {p} :
        /\ listener'[q] = listener[q] /\ mnt'[q] = mnt[q] /\ keys'[q] = keys[q]
        /\ main'[q] = main[q] /\ sig'[q] = sig[q] /\ diedOf'[q] = diedOf[q]
        /\ parent'[q] = parent[q] /\ usr1'[q] = usr1[q] /\ served'[q] = served[q]

LEMMA OfOneProcess ==
    ASSUME MountInv, NEW p \in Procs, MountTypeOK', ProcOK(p)', ParentOK(p)', OthersKept(p)
    PROVE  MountInv'
BY DEF MountInv, ProcOK, ParentOK, OthersKept

\* The process is gone: after the handler there was no mount in use any more, and
\* CloseSocket comes after a mount.
LEMMA GoneOK ==
    ASSUME MountInv, NEW p \in Procs, NEW why \in Ends, M!Gone(p, why), UNCHANGED M!forked,
           why = "SIGINT" => mnt[p] # "yes", why = "unmount" => served[p]
    PROVE  MountInv'
<1>p. ProcOK(p) /\ ParentOK(p) /\ MountTypeOK BY DEF MountInv
<1>1. /\ main'[p] = "off" /\ sig'[p] = "off" /\ diedOf'[p] = why
      /\ mnt'[p] = IF mnt[p] = "yes" THEN "dead" ELSE "no"
  BY <1>p DEF MountTypeOK, M!Gone, M!Goto, M!forked
<1>2. MountTypeOK' BY Zenon, <1>p DEF Ends, MountTypeOK, M!Gone, M!Goto, M!forked
<1>3. ProcOK(p)' BY <1>p, <1>1 DEF ProcOK, M!Gone, M!forked
<1>4. ParentOK(p)' BY <1>p, <1>1 DEF ParentOK, M!Gone, M!forked
<1>5. OthersKept(p) BY <1>p DEF OthersKept, MountTypeOK, M!Gone, M!Goto, M!forked
<1> QED BY <1>2, <1>3, <1>4, <1>5, OfOneProcess

LEMMA StartedOK ==
    ASSUME MountInv, NEW p \in Procs, main[p] = "off", mnt[p] = "no",
           NEW status \in {"none", "wait", "error"}, M!Started(p, status),
           (M!Goto(p, "start") /\ status # "error") \/ UNCHANGED main
    PROVE  MountInv'
<1>p. ProcOK(p) /\ ParentOK(p) /\ MountTypeOK BY DEF MountInv
<1>1. /\ main'[p] \in {"off", "start"} /\ (status = "error" => main'[p] = "off")
      /\ parent'[p] = status /\ usr1'[p] = FALSE /\ diedOf'[p] = "nothing"
      /\ mnt'[p] = "no" /\ sig'[p] = sig[p]
  BY <1>p DEF MountTypeOK, M!Started, M!Goto
<1>2. MountTypeOK' BY <1>p DEF MountTypeOK, M!Started, M!Goto
<1>3. ProcOK(p)' BY <1>p, <1>1 DEF ProcOK, M!Started
<1>4. ParentOK(p)' BY <1>p, <1>1 DEF ParentOK, M!Started
<1>5. OthersKept(p) BY <1>p DEF OthersKept, MountTypeOK, M!Started, M!Goto
<1> QED BY <1>2, <1>3, <1>4, <1>5, OfOneProcess

\* The parent is gone, with a status that is true.
LEMMA ParentGoneOK ==
    ASSUME MountInv, NEW p \in Procs, NEW status \in {"none", "0", "error"}, M!ParentGone(p,
    status),
           status = "0" => served[p], status = "error" => main[p] = "off"
    PROVE  MountInv'
<1>p. ProcOK(p) /\ ParentOK(p) /\ MountTypeOK BY DEF MountInv
<1>1. parent'[p] = status BY <1>p DEF MountTypeOK, M!ParentGone
<1>2. MountTypeOK' BY <1>p DEF MountTypeOK, M!ParentGone
<1>3. ProcOK(p)' BY <1>p DEF ProcOK, M!ParentGone
<1>4. ParentOK(p)' BY <1>p, <1>1 DEF ParentOK, M!ParentGone
<1>5. OthersKept(p) BY <1>p DEF OthersKept, MountTypeOK, M!ParentGone
<1> QED BY <1>2, <1>3, <1>4, <1>5, OfOneProcess

LEMMA ParentStepOK ==
    ASSUME MountInv, NEW p \in Procs,
           M!doMount(p) \/ M!forkChild(p) \/ M!exitOnUsr1(p) \/ M!WaitForChild(p) \/ M!KillParent(p)
    PROVE  MountInv'
<1>1. CASE M!doMount(p) BY <1>1, StartedOK DEF M!doMount
<1>2. CASE M!forkChild(p) BY <1>2, StartedOK DEF M!forkChild
<1>3. CASE M!exitOnUsr1(p)
  <2>1. served[p] BY <1>3 DEF M!exitOnUsr1, MountInv, ParentOK
  <2> QED BY <1>3, <2>1, ParentGoneOK DEF M!exitOnUsr1
<1>4. CASE M!WaitForChild(p)
  <2>1. diedOf[p] = "unmount" => served[p] BY DEF MountInv, ParentOK
  <2> QED BY <1>4, <2>1, ParentGoneOK DEF M!WaitForChild
<1>5. CASE M!KillParent(p) BY <1>5, ParentGoneOK DEF M!KillParent
<1> QED BY <1>1, <1>2, <1>3, <1>4, <1>5

\* The steps that neither start nor end a process.
LEMMA QuietStepOK ==
    ASSUME MountInv, NEW p \in Procs,
           \/ M!cleanupOrphanedSocket(p) \/ M!RemoveOrphan(p) \/ M!Listen(p)
           \/ M!sendUsr1(p) \/ M!handleSigint(p) \/ M!Wait(p) \/ M!wipeKeys(p)
           \/ M!Unmounted(p) \/ M!unmount(p) \/ M!LazyUnmount(p)
    PROVE  MountInv'
<1>p. ProcOK(p) /\ ParentOK(p) /\ MountTypeOK BY DEF MountInv
<1>1. CASE M!cleanupOrphanedSocket(p)
  <2>1. main'[p] \in {"remove", "bind"}
    BY <1>p, <1>1 DEF MountTypeOK, M!Goto, M!forked, M!cleanupOrphanedSocket
  <2>2. MountTypeOK' BY <1>p, <1>1 DEF MountTypeOK, M!Goto, M!forked, M!cleanupOrphanedSocket
  <2>3. ProcOK(p)' BY <1>p, <2>1, <1>1 DEF ProcOK, M!forked, M!cleanupOrphanedSocket
  <2>4. ParentOK(p)' BY <1>p, <2>1, <1>1 DEF ParentOK, M!forked, M!cleanupOrphanedSocket
  <2>5. OthersKept(p)
    BY <1>p, <1>1 DEF OthersKept, MountTypeOK, M!Goto, M!forked, M!cleanupOrphanedSocket
  <2> QED BY <2>2, <2>3, <2>4, <2>5, OfOneProcess
<1>2. CASE M!RemoveOrphan(p)
  <2>1. main'[p] = "bind" BY <1>p, <1>2 DEF MountTypeOK, M!Goto, M!forked, M!RemoveOrphan
  <2>2. MountTypeOK' BY <1>p, <1>2 DEF MountTypeOK, M!Goto, M!forked, M!RemoveOrphan
  <2>3. ProcOK(p)' BY <1>p, <2>1, <1>2 DEF ProcOK, M!forked, M!RemoveOrphan
  <2>4. ParentOK(p)' BY <1>p, <2>1, <1>2 DEF ParentOK, M!forked, M!RemoveOrphan
  <2>5. OthersKept(p) BY <1>p, <1>2 DEF OthersKept, MountTypeOK, M!Goto, M!forked, M!RemoveOrphan
  <2> QED BY <2>2, <2>3, <2>4, <2>5, OfOneProcess
<1>3. CASE M!Listen(p)
  <2>1. main'[p] = "load" BY <1>p, <1>3 DEF MountTypeOK, M!Goto, M!forked, M!Listen
  <2>2. MountTypeOK' BY <1>p, <1>3 DEF MountTypeOK, M!Goto, M!forked, M!Listen
  <2>3. ProcOK(p)' BY <1>p, <2>1, <1>3 DEF ProcOK, M!forked, M!Listen
  <2>4. ParentOK(p)' BY <1>p, <2>1, <1>3 DEF ParentOK, M!forked, M!Listen
  <2>5. OthersKept(p) BY <1>p, <1>3 DEF OthersKept, MountTypeOK, M!Goto, M!forked, M!Listen
  <2> QED BY <2>2, <2>3, <2>4, <2>5, OfOneProcess
<1>4. CASE M!sendUsr1(p)
  <2>1. main'[p] = "notified" /\ main[p] = "mounted" /\ served'[p] = served[p]
    BY <1>p, <1>4 DEF MountTypeOK, M!Goto, M!forked, M!sendUsr1
  <2>2. MountTypeOK' BY <1>p, <1>4 DEF MountTypeOK, M!Goto, M!forked, M!sendUsr1
  <2>3. ProcOK(p)' BY <1>p, <2>1, <1>4 DEF ProcOK, M!forked, M!sendUsr1
  <2>4. ParentOK(p)' BY <1>p, <2>1, <1>4 DEF ParentOK, M!forked, M!sendUsr1
  <2>5. OthersKept(p) BY <1>p, <1>4 DEF OthersKept, MountTypeOK, M!Goto, M!forked, M!sendUsr1
  <2> QED BY <2>2, <2>3, <2>4, <2>5, OfOneProcess
<1>5. CASE M!handleSigint(p)
  <2>1. main'[p] = "wait" /\ main[p] = "notified" /\ sig'[p] = "wait"
    BY <1>p, <1>5 DEF MountTypeOK, M!Goto, M!forked, M!handleSigint
  <2>2. MountTypeOK' BY <1>p, <1>5 DEF MountTypeOK, M!Goto, M!forked, M!handleSigint
  <2>3. ProcOK(p)' BY <1>p, <2>1, <1>5 DEF ProcOK, M!forked, M!handleSigint
  <2>4. ParentOK(p)' BY <1>p, <2>1, <1>5 DEF ParentOK, M!forked, M!handleSigint
  <2>5. OthersKept(p) BY <1>p, <1>5 DEF OthersKept, MountTypeOK, M!Goto, M!forked, M!handleSigint
  <2> QED BY <2>2, <2>3, <2>4, <2>5, OfOneProcess
<1>6. CASE M!Wait(p)
  <2>1. main'[p] = "wipe" /\ main[p] = "wait" /\ mnt[p] = "no"
    BY <1>p, <1>6 DEF MountTypeOK, M!Goto, M!forked, M!Wait
  <2>2. MountTypeOK' BY <1>p, <1>6 DEF MountTypeOK, M!Goto, M!forked, M!Wait
  <2>3. ProcOK(p)' BY <1>p, <2>1, <1>6 DEF ProcOK, M!forked, M!Wait
  <2>4. ParentOK(p)' BY <1>p, <2>1, <1>6 DEF ParentOK, M!forked, M!Wait
  <2>5. OthersKept(p) BY <1>p, <1>6 DEF OthersKept, MountTypeOK, M!Goto, M!forked, M!Wait
  <2> QED BY <2>2, <2>3, <2>4, <2>5, OfOneProcess
<1>7. CASE M!wipeKeys(p)
  <2>1. main'[p] = "close" /\ main[p] = "wipe"
    BY <1>p, <1>7 DEF MountTypeOK, M!Goto, M!forked, M!wipeKeys
  <2>2. MountTypeOK' BY <1>p, <1>7 DEF MountTypeOK, M!Goto, M!forked, M!wipeKeys
  <2>3. ProcOK(p)' BY <1>p, <2>1, <1>7 DEF ProcOK, M!forked, M!wipeKeys
  <2>4. ParentOK(p)' BY <1>p, <2>1, <1>7 DEF ParentOK, M!forked, M!wipeKeys
  <2>5. OthersKept(p) BY <1>p, <1>7 DEF OthersKept, MountTypeOK, M!Goto, M!forked, M!wipeKeys
  <2> QED BY <2>2, <2>3, <2>4, <2>5, OfOneProcess
<1>8. CASE M!Unmounted(p)
  <2>1. mnt'[p] = "no" BY <1>p, <1>8 DEF MountTypeOK, M!Goto, M!forked, M!Unmounted
  <2>2. MountTypeOK' BY <1>p, <1>8 DEF MountTypeOK, M!Goto, M!forked, M!Unmounted
  <2>3. ProcOK(p)' BY <1>p, <2>1, <1>8 DEF ProcOK, M!forked, M!Unmounted
  <2>4. ParentOK(p)' BY <1>p, <2>1, <1>8 DEF ParentOK, M!forked, M!Unmounted
  <2>5. OthersKept(p) BY <1>p, <1>8 DEF OthersKept, MountTypeOK, M!Goto, M!forked, M!Unmounted
  <2> QED BY <2>2, <2>3, <2>4, <2>5, OfOneProcess
<1>9. CASE M!unmount(p)
  <2>1. /\ sig[p] = "unmount" /\ sig'[p] \in {"exit", "fusermount", "failed"}
        /\ mnt'[p] \in {"no", mnt[p]} /\ (sig'[p] = "exit" => mnt'[p] = "no")
    BY <1>p, <1>9 DEF MountTypeOK, M!Goto, M!forked, M!unmount
  <2>2. MountTypeOK' BY <1>p, <1>9 DEF MountTypeOK, M!Goto, M!forked, M!unmount
  <2>3. ProcOK(p)' BY <1>p, <2>1, <1>9 DEF ProcOK, M!forked, M!unmount
  <2>4. ParentOK(p)' BY <1>p, <2>1, <1>9 DEF ParentOK, M!forked, M!unmount
  <2>5. OthersKept(p) BY <1>p, <1>9 DEF OthersKept, MountTypeOK, M!Goto, M!forked, M!unmount
  <2> QED BY <2>2, <2>3, <2>4, <2>5, OfOneProcess
<1>10. CASE M!LazyUnmount(p)
  <2>1. /\ sig[p] = "fusermount"
        /\ \/ sig'[p] = "exit" /\ mnt'[p] = "lazy" /\ mnt[p] # "no"
           \/ sig'[p] = "failed" /\ mnt'[p] = mnt[p]
    BY <1>p, <1>10 DEF MountTypeOK, M!Goto, M!forked, M!LazyUnmount
  <2>2. MountTypeOK' BY <1>p, <1>10 DEF MountTypeOK, M!Goto, M!forked, M!LazyUnmount
  <2>3. ProcOK(p)'
    <3>1. mnt[p] \in {"no", "yes", "lazy", "dead"} BY <1>p DEF MountTypeOK
    <3> QED BY <1>p, <2>1, <3>1, <1>10 DEF ProcOK, M!forked, M!LazyUnmount
  <2>4. ParentOK(p)' BY <1>p, <2>1, <1>10 DEF ParentOK, M!forked, M!LazyUnmount
  <2>5. OthersKept(p) BY <1>p, <1>10 DEF OthersKept, MountTypeOK, M!Goto, M!forked, M!LazyUnmount
  <2> QED BY <2>2, <2>3, <2>4, <2>5, OfOneProcess
<1> QED BY <1>1, <1>2, <1>3, <1>4, <1>5, <1>6, <1>7, <1>8, <1>9, <1>10

\* Those that may end it: Bind, initFuseFrontend, initGoFuse, and the signals.
LEMMA EndingStepOK ==
    ASSUME MountInv, NEW p \in Procs,
           \/ M!Bind(p) \/ M!initFuseFrontend(p) \/ M!initGoFuse(p) \/ M!CloseSocket(p)
           \/ M!Sigint(p) \/ M!SigExit(p) \/ M!Kill(p)
    PROVE  MountInv'
<1>p. ProcOK(p) /\ ParentOK(p) /\ MountTypeOK BY DEF MountInv
<1>0. ASSUME NEW why \in Ends \ {"SIGINT", "unmount"}, M!Gone(p, why), UNCHANGED M!forked
      PROVE  MountInv'
  BY <1>0, GoneOK
<1>1. CASE M!Bind(p)
  <2> SUFFICES ASSUME /\ main[p] = "bind" /\ listener' = [listener EXCEPT ![p] = "bound"]
                      /\ M!Goto(p, "listen") /\ UNCHANGED << mnt, keys, sig, diedOf, M!forked >>
               PROVE  MountInv'
    BY Zenon, <1>0, <1>1 DEF M!Bind, Ends
  <2>1. main'[p] = "listen" BY <1>p DEF MountTypeOK, M!Goto, M!forked
  <2>2. MountTypeOK' BY <1>p DEF MountTypeOK, M!Goto, M!forked
  <2>3. ProcOK(p)' BY <1>p, <2>1 DEF ProcOK, M!forked
  <2>4. ParentOK(p)' BY <1>p, <2>1 DEF ParentOK, M!forked
  <2>5. OthersKept(p) BY <1>p DEF OthersKept, MountTypeOK, M!Goto, M!forked
  <2> QED BY <2>2, <2>3, <2>4, <2>5, OfOneProcess
<1>2. CASE M!initFuseFrontend(p)
  <2> SUFFICES ASSUME /\ main[p] = "load" /\ keys' = [keys EXCEPT ![p] = "live"]
                      /\ M!Goto(p, "mount") /\ UNCHANGED << listener, mnt, sig, diedOf, M!forked >>
               PROVE  MountInv'
    BY Zenon, <1>0, <1>2 DEF M!initFuseFrontend, Ends
  <2>1. main'[p] = "mount" /\ keys'[p] = "live" BY <1>p DEF MountTypeOK, M!Goto, M!forked
  <2>2. MountTypeOK' BY <1>p DEF MountTypeOK, M!Goto, M!forked
  <2>3. ProcOK(p)' BY <1>p, <2>1 DEF ProcOK, M!forked
  <2>4. ParentOK(p)' BY <1>p, <2>1 DEF ParentOK, M!forked
  <2>5. OthersKept(p) BY <1>p DEF OthersKept, MountTypeOK, M!Goto, M!forked
  <2> QED BY <2>2, <2>3, <2>4, <2>5, OfOneProcess
<1>3. CASE M!initGoFuse(p)
  <2> SUFFICES ASSUME /\ main[p] = "mount" /\ mnt' = [mnt EXCEPT ![p] = "yes"]
                      /\ served' = [served EXCEPT ![p] = TRUE] /\ M!Goto(p, "mounted")
                      /\ UNCHANGED << listener, keys, sig, diedOf, parent, usr1 >>
               PROVE  MountInv'
    BY Zenon, <1>0, <1>3 DEF M!initGoFuse, M!forked, Ends
  <2>1. main'[p] = "mounted" /\ mnt'[p] = "yes" /\ served'[p] = TRUE BY <1>p DEF MountTypeOK, M!Goto
  <2>2. MountTypeOK' BY <1>p DEF MountTypeOK, M!Goto
  <2>3. ProcOK(p)' BY <1>p, <2>1 DEF ProcOK
  <2>4. ParentOK(p)' BY <1>p, <2>1 DEF ParentOK
  <2>5. OthersKept(p) BY <1>p DEF OthersKept, MountTypeOK, M!Goto
  <2> QED BY <2>2, <2>3, <2>4, <2>5, OfOneProcess
<1>4. CASE M!CloseSocket(p)
  <2>1. served[p] BY <1>p, <1>4 DEF M!CloseSocket, ParentOK
  <2> QED BY Zenon, <1>4, <2>1, GoneOK DEF M!CloseSocket, Ends
<1>5. CASE M!Sigint(p)
  <2> SUFFICES ASSUME /\ sig[p] = "wait" /\ sig' = [sig EXCEPT ![p] = "unmount"]
                      /\ UNCHANGED << listener, mnt, keys, main, diedOf, M!forked >>
               PROVE  MountInv'
    BY Zenon, <1>0, <1>5 DEF M!Sigint, Ends
  <2>1. sig'[p] = "unmount" BY <1>p DEF MountTypeOK, M!forked
  <2>2. MountTypeOK' BY <1>p DEF MountTypeOK, M!forked
  <2>3. ProcOK(p)' BY <1>p, <2>1 DEF ProcOK, M!forked
  <2>4. ParentOK(p)' BY <1>p, <2>1 DEF ParentOK, M!forked
  <2>5. OthersKept(p) BY <1>p DEF OthersKept, MountTypeOK, M!forked
  <2> QED BY <2>2, <2>3, <2>4, <2>5, OfOneProcess
<1>6. CASE M!SigExit(p)
  <2>1. sig[p] = "exit" => mnt[p] # "yes" BY <1>p DEF ProcOK
  <2> QED BY Zenon, <1>0, <1>6, <2>1, GoneOK DEF M!SigExit, Ends
<1>7. CASE M!Kill(p) BY Zenon, <1>0, <1>7 DEF M!Kill, Ends
<1> QED BY <1>1, <1>2, <1>3, <1>4, <1>5, <1>6, <1>7

LEMMA MountNextOK == MountInv /\ [M!Next]_(M!vars) => MountInv'
<1> SUFFICES ASSUME MountInv, [M!Next]_(M!vars) PROVE MountInv' OBVIOUS
<1>1. CASE UNCHANGED M!vars
  BY <1>1 DEF M!vars, M!forked, MountInv, MountTypeOK, ProcOK, ParentOK
<1>2. CASE M!Next BY <1>2, ParentStepOK, QuietStepOK, EndingStepOK DEF M!Next
<1> QED BY <1>1, <1>2

LEMMA MountInvariant == M!Spec => []MountInv
BY MountInitOK, MountNextOK, PTL DEF M!Spec

\* For any number of mounts: the keys are there while the kernel may send requests, and
\* SIGINT leaves no mount without server unless the lazy unmount fails, too, or is not
\* tried (wipeKeys after srv.Wait; handleSigint, unmount).
THEOREM MountsAreServed == M!Spec => []MountIsServed
<1>1. MountInv => MountIsServed
  BY DEF MountInv, MountTypeOK, ProcOK, MountIsServed, M!MountIsServed, M!KeysOutliveRequests,
     M!HandlerUnmounts
<1> QED BY <1>1, MountInvariant, PTL

\* The exit status of "gocryptfs CIPHERDIR MOUNTPOINT" is true, in whichever order the
\* signal and the end of the child arrive (forkChild, exitOnUsr1).
THEOREM ParentTellsTheTruth == M!Spec => []ParentTellsOutcome
<1>1. MountInv => ParentTellsOutcome
  BY Zenon DEF MountInv, ParentOK, ParentTellsOutcome, M!ParentTellsOutcome
<1> QED BY <1>1, MountInvariant, PTL

----------------------------------------------------------------------------
(* ConfigFile                                                              *)

Replacing == {"link", "open", "write", "rename"}
ConfJobs == [cf : C!ConfFile \union {Missing}, diriv : BOOLEAN, init : BOOLEAN, zero : BOOLEAN]
ConfTypeOK ==
    /\ conf \in C!ConfFile \union {Missing} /\ bak \in C!ConfFile \union {Missing}
    /\ tmp \in C!ConfFile \union {Missing, Partial}
    /\ ready \in BOOLEAN /\ raced \in BOOLEAN /\ zeroed \in BOOLEAN
    /\ confPc \in [Commands -> Replacing \union {"off", "diriv", "dirivWrite"}]
    /\ job \in [Commands -> ConfJobs]

Backed == bak # Missing /\ bak.key = MasterKey
ConfOK ==
    conf # Missing =>
        C!Validate(conf) /\ (~raced /\ ~zeroed => conf.key = MasterKey \/ Backed)
ReadyOK == ready /\ ~raced => conf # Missing /\ ("DirIV" \in conf.flags => diriv = "full")

\* What a process is about to write can replace what is there: it is valid, has the
\* flags of the file system, and the master key unless the backup has it or the user
\* wants the zero key.
JobOK(p) ==
    LET j == job[p] IN
    /\ confPc[p] \in Replacing =>
          /\ j.cf \in C!ConfFile /\ C!Validate(j.cf)
          /\ j.init => confPc[p] # "link"
          /\ ~j.init => conf # Missing /\ ~j.diriv
    /\ confPc[p] = "write" => tmp = Partial
    /\ confPc[p] = "rename" => tmp = j.cf
    /\ confPc[p] \in {"diriv", "dirivWrite"} => j.init /\ conf # Missing
    /\ confPc[p] = "off" => ~j.init
    /\ ~raced /\ confPc[p] \in Replacing =>
          /\ j.init => conf = Missing /\ (j.diriv <=> "DirIV" \in j.cf.flags)
          /\ ~j.init => j.cf.flags = conf.flags
          /\ ~zeroed => j.zero \/ j.cf.key = MasterKey \/ confPc[p] = "link" \/ Backed
    /\ ~raced /\ confPc[p] \in {"diriv", "dirivWrite"} => ~ready

\* The .tmp file has one writer, and -init the directory for itself.
PairOK(p, q) ==
    /\ ~(confPc[p] \in {"write", "rename"} /\ confPc[q] \in {"write", "rename"})
    /\ ~raced /\ job[p].init => ~job[q].init
    /\ ~raced /\ job[p].init /\ confPc[p] \in Replacing => confPc[q] = "off"

ConfInv ==
    /\ C!ConfigFileAssumption /\ ConfTypeOK /\ ConfOK /\ ReadyOK
    /\ \A p \in Commands : JobOK(p)
    /\ \A p, q \in Commands : p # q => PairOK(p, q)

LEMMA NoJobOK == C!NoJob \in ConfJobs /\ ~C!NoJob.init
BY Zenon DEF C!NoJob, ConfJobs

LEMMA ConfInitOK == C!ConfigFileAssumption /\ C!Init => ConfInv
<1> SUFFICES ASSUME C!ConfigFileAssumption, C!Init PROVE ConfInv OBVIOUS
<1>1. C!NoJob \in ConfJobs BY NoJobOK
<1>2. ConfTypeOK BY <1>1 DEF C!Init, ConfTypeOK
<1>3. \A p \in Commands : JobOK(p) BY Zenon DEF C!Init, C!NoJob, JobOK, Replacing
<1>4. \A p, q \in Commands : PairOK(p, q) BY DEF C!Init, C!NoJob, PairOK, Replacing
<1> QED BY Zenon, <1>2, <1>3, <1>4 DEF C!Init, ConfInv, ConfOK, ReadyOK

\* A change of the password or of the key: the rest of the config is kept.
LEMMA ChangedConf ==
    ASSUME NEW cf \in C!ConfFile, NEW new \in Passwords, NEW k \in {MasterKey, WrongKey}
    PROVE  /\ [cf EXCEPT !.password = new] \in C!ConfFile
           /\ [cf EXCEPT !.password = new].key = cf.key
           /\ [cf EXCEPT !.password = new].flags = cf.flags
           /\ [cf EXCEPT !.password = new].LongNameMax = cf.LongNameMax
           /\ [cf EXCEPT !.password = new, !.key = k] \in C!ConfFile
           /\ [cf EXCEPT !.password = new, !.key = k].flags = cf.flags
           /\ [cf EXCEPT !.password = new, !.key = k].LongNameMax = cf.LongNameMax
BY Zenon DEF C!ConfFile

LEMMA SameFlagsValid ==
    ASSUME NEW cf, NEW other, cf.flags = other.flags, cf.LongNameMax = other.LongNameMax,
           C!Validate(cf)
    PROVE  C!Validate(other)
BY DEF C!Validate

\* What -init writes.
LEMMA CreatedConf ==
    ASSUME NEW a \in C!Args, NEW new \in Passwords, NEW k \in {MasterKey, WrongKey}
    PROVE  /\ C!Create(a, new, k) \in C!ConfFile /\ C!Create(a, new, k).key = k
           /\ C!NeedsDirIV(a) <=> "DirIV" \in C!Create(a, new, k).flags
<1>1. C!FeatureFlags(a) \subseteq C!Flags BY DEF C!FeatureFlags, C!Flags
<1>2. (IF C!LongNameMaxSaved(a) THEN a.longnamemax ELSE 0) \in 0 .. 255 BY DEF C!Args
<1>3. C!NeedsDirIV(a) <=> "DirIV" \in C!FeatureFlags(a)
  BY DEF C!NeedsDirIV, C!FeatureFlags
<1> QED BY <1>1, <1>2, <1>3 DEF C!Create, C!ConfFile

\* The other processes see a step of p in the files only.
LEMMA OfOneRun ==
    ASSUME ConfInv, NEW p \in Commands, NEW label, C!Goto(p, label),
           \A q \in Commands \ {p} : job'[q] = job[q], raced => raced',
           ConfTypeOK', ConfOK', ReadyOK', JobOK(p)',
           \A q \in Commands \ {p} : JobOK(q)' /\ PairOK(p, q)' /\ PairOK(q, p)'
    PROVE  ConfInv'
<1>1. \A q \in Commands \ {p} : confPc'[q] = confPc[q] BY DEF ConfInv, ConfTypeOK, C!Goto
<1>2. \A q, r \in Commands \ {p} : q # r => PairOK(q, r)'
  BY <1>1 DEF ConfInv, PairOK
<1> QED BY <1>2 DEF ConfInv, C!ConfigFileAssumption

LEMMA OtherJobKept ==
    ASSUME ConfInv, NEW q \in Commands, confPc'[q] = confPc[q], job'[q] = job[q],
           conf' = conf, raced' = raced, zeroed' = zeroed, Backed => Backed',
           tmp' = tmp \/ confPc[q] \notin {"write", "rename"},
           raced \/ ready' = ready \/ confPc[q] \notin {"diriv", "dirivWrite"}
    PROVE  JobOK(q)'
BY SMTT(30) DEF ConfInv, JobOK

\* A process ends, by an error or a crash, and leaves the files as they are.
LEMMA ExitOK ==
    ASSUME ConfInv, NEW p \in Commands, C!Exit(p),
           UNCHANGED << conf, tmp, bak, ready, raced, zeroed >>,
           ready /\ ~raced => diriv' = diriv
    PROVE  ConfInv'
<1>1. /\ C!Goto(p, "off") /\ confPc'[p] = "off" /\ job'[p] = C!NoJob
      /\ \A q \in Commands \ {p} : confPc'[q] = confPc[q] /\ job'[q] = job[q]
  BY DEF C!Exit, C!Goto, ConfInv, ConfTypeOK
<1>2. ConfTypeOK' BY NoJobOK DEF ConfInv, ConfTypeOK, C!Exit, C!Goto
<1>3. ConfOK' /\ ReadyOK' /\ Backed' = Backed BY DEF ConfInv, ConfOK, ReadyOK, Backed
<1>4. JobOK(p)' BY <1>1 DEF JobOK, Replacing, C!NoJob
<1>5. ASSUME NEW q \in Commands \ {p} PROVE JobOK(q)' /\ PairOK(p, q)' /\ PairOK(q, p)'
  <2>1. JobOK(q)' BY <1>1, <1>3, OtherJobKept
  <2>2. PairOK(p, q)' /\ PairOK(q, p)' BY <1>1 DEF PairOK, Replacing, C!NoJob
  <2> QED BY <2>1, <2>2
<1> QED BY <1>1, <1>2, <1>3, <1>4, <1>5, OfOneRun

\* A process goes on.
LEMMA GoesOn ==
    ASSUME ConfInv, NEW p \in Commands, NEW label \in Replacing \union {"diriv", "dirivWrite"},
           C!Goto(p, label), UNCHANGED job
    PROVE  /\ confPc' \in [Commands -> Replacing \union {"off", "diriv", "dirivWrite"}]
           /\ job' \in [Commands -> ConfJobs]
           /\ confPc'[p] = label
           /\ \A q \in Commands \ {p} : confPc'[q] = confPc[q] /\ job'[q] = job[q]
BY DEF C!Goto, ConfInv, ConfTypeOK

LEMMA LinkOK == ASSUME ConfInv, NEW p \in Commands, C!LinkBackup(p) PROVE ConfInv'
<1>1. CASE C!Exit(p) /\ UNCHANGED bak BY <1>1, ExitOK DEF C!LinkBackup
<1>2. CASE bak = Missing /\ bak' = conf /\ C!Goto(p, "open") /\ UNCHANGED job
  <2>1. JobOK(p) /\ confPc[p] = "link" BY DEF ConfInv, C!LinkBackup
  <2>2. ~job[p].init /\ conf # Missing /\ ConfTypeOK /\ ConfOK
    BY <2>1 DEF JobOK, Replacing, ConfInv
  <2>3. ~raced /\ ~zeroed => conf.key = MasterKey BY <1>2, <2>2 DEF ConfOK, Backed
  <2>4. (~raced /\ ~zeroed => Backed') /\ ~Backed BY <1>2, <2>2, <2>3 DEF Backed
  <2>5. /\ confPc' \in [Commands -> Replacing \union {"off", "diriv", "dirivWrite"}]
        /\ job' \in [Commands -> ConfJobs]
        /\ confPc'[p] = "open"
        /\ \A q \in Commands \ {p} : confPc'[q] = confPc[q] /\ job'[q] = job[q]
    BY <1>2, GoesOn DEF Replacing
  <2>6. UNCHANGED << conf, tmp, diriv, ready, raced, zeroed >> BY DEF C!LinkBackup
  <2>7. ConfTypeOK' BY <1>2, <2>2, <2>5, <2>6 DEF ConfTypeOK
  <2>8. ConfOK' /\ ReadyOK' BY <2>4, <2>6 DEF ConfInv, ConfOK, ReadyOK
  <2>9. JobOK(p)' BY <1>2, <2>1, <2>2, <2>4, <2>5, <2>6 DEF JobOK, Replacing
  <2>10. ASSUME NEW q \in Commands \ {p} PROVE JobOK(q)' /\ PairOK(p, q)' /\ PairOK(q, p)'
    <3>1. JobOK(q)' BY Zenon, <2>4, <2>5, <2>6, OtherJobKept
    <3>2. PairOK(p, q)' /\ PairOK(q, p)'
      BY <1>2, <2>1, <2>2, <2>5, <2>6 DEF ConfInv, PairOK, Replacing
    <3> QED BY <3>1, <3>2
  <2> QED BY <1>2, <2>5, <2>6, <2>7, <2>8, <2>9, <2>10, OfOneRun
<1> QED BY <1>1, <1>2 DEF C!LinkBackup

LEMMA OpenTmpOK == ASSUME ConfInv, NEW p \in Commands, C!OpenTmp(p) PROVE ConfInv'
<1>1. CASE C!Exit(p) /\ UNCHANGED tmp BY <1>1, ExitOK DEF C!OpenTmp
<1>2. CASE tmp = Missing /\ tmp' = Partial /\ C!Goto(p, "write") /\ UNCHANGED job
  <2>1. JobOK(p) /\ confPc[p] = "open" BY DEF ConfInv, C!OpenTmp
  <2>2. /\ confPc' \in [Commands -> Replacing \union {"off", "diriv", "dirivWrite"}]
        /\ job' \in [Commands -> ConfJobs]
        /\ confPc'[p] = "write"
        /\ \A q \in Commands \ {p} : confPc'[q] = confPc[q] /\ job'[q] = job[q]
    BY <1>2, GoesOn DEF Replacing
  <2>3. UNCHANGED << conf, bak, diriv, ready, raced, zeroed >> BY DEF C!OpenTmp
  <2>4. ConfTypeOK' BY <1>2, <2>2, <2>3 DEF ConfInv, ConfTypeOK
  <2>5. ConfOK' /\ ReadyOK' /\ Backed' = Backed
    BY <2>3 DEF ConfInv, ConfOK, ReadyOK, Backed
  <2>6. JobOK(p)' BY <1>2, <2>1, <2>2, <2>3, <2>5 DEF JobOK, Replacing
  <2>7. ASSUME NEW q \in Commands \ {p} PROVE JobOK(q)' /\ PairOK(p, q)' /\ PairOK(q, p)'
    \* There is no .tmp file, so nobody is writing it.
    <3>1. confPc[q] \notin {"write", "rename"}
      <4>1. JobOK(q) BY DEF ConfInv
      <4>2. Missing # Partial /\ Missing \notin C!ConfFile
        BY DEF ConfInv, C!ConfigFileAssumption
      <4> QED BY <1>2, <4>1, <4>2 DEF JobOK, Replacing
    <3>2. JobOK(q)' BY Zenon, <2>2, <2>3, <2>5, <3>1, OtherJobKept
    <3>3. PairOK(p, q)' /\ PairOK(q, p)'
      BY <1>2, <2>1, <2>2, <2>3, <3>1 DEF ConfInv, PairOK, Replacing
    <3> QED BY <3>2, <3>3
  <2> QED BY <1>2, <2>2, <2>3, <2>4, <2>5, <2>6, <2>7, OfOneRun
<1> QED BY <1>1, <1>2 DEF C!OpenTmp

LEMMA WriteTmpOK == ASSUME ConfInv, NEW p \in Commands, C!WriteTmp(p) PROVE ConfInv'
<1>1. CASE C!Exit(p) /\ UNCHANGED tmp BY <1>1, ExitOK DEF C!WriteTmp
<1>2. CASE tmp' = job[p].cf /\ C!Goto(p, "rename") /\ UNCHANGED job
  <2>1. JobOK(p) /\ confPc[p] = "write" BY DEF ConfInv, C!WriteTmp
  <2>2. /\ confPc' \in [Commands -> Replacing \union {"off", "diriv", "dirivWrite"}]
        /\ job' \in [Commands -> ConfJobs]
        /\ confPc'[p] = "rename"
        /\ \A q \in Commands \ {p} : confPc'[q] = confPc[q] /\ job'[q] = job[q]
    BY <1>2, GoesOn DEF Replacing
  <2>3. UNCHANGED << conf, bak, diriv, ready, raced, zeroed >> BY DEF C!WriteTmp
  <2>4. job[p].cf \in C!ConfFile BY <2>1 DEF JobOK, Replacing
  <2>5. ConfTypeOK' BY <1>2, <2>2, <2>3, <2>4 DEF ConfInv, ConfTypeOK
  <2>6. ConfOK' /\ ReadyOK' /\ Backed' = Backed BY <2>3 DEF ConfInv, ConfOK, ReadyOK, Backed
  <2>7. JobOK(p)' BY <1>2, <2>1, <2>2, <2>3, <2>6 DEF JobOK, Replacing
  <2>8. ASSUME NEW q \in Commands \ {p} PROVE JobOK(q)' /\ PairOK(p, q)' /\ PairOK(q, p)'
    <3>1. PairOK(p, q) /\ PairOK(q, p) BY DEF ConfInv
    <3>2. confPc[q] \notin {"write", "rename"} BY <2>1, <3>1 DEF PairOK
    <3>3. JobOK(q)' BY <2>2, <2>3, <2>6, <3>2, OtherJobKept
    <3>4. PairOK(p, q)' /\ PairOK(q, p)'
      BY <1>2, <2>1, <2>2, <2>3, <3>1, <3>2 DEF PairOK, Replacing
    <3> QED BY <3>3, <3>4
  <2> QED BY <1>2, <2>2, <2>3, <2>5, <2>6, <2>7, <2>8, OfOneRun
<1> QED BY <1>1, <1>2 DEF C!WriteTmp

\* The new config file has the flags of the old one, so that -init stays done.
LEMMA RenameTmpOK == ASSUME ConfInv, NEW p \in Commands, C!RenameTmp(p) PROVE ConfInv'
<1>1. CASE C!Exit(p) /\ UNCHANGED << conf, tmp, ready, zeroed >>
  BY <1>1, ExitOK DEF C!RenameTmp
<1>2. CASE tmp # Missing /\ conf' = tmp /\ tmp' = Missing /\ zeroed' = (zeroed \/ job[p].zero)
           /\ IF job[p].diriv THEN C!Goto(p, "diriv") /\ UNCHANGED << ready, job >>
              ELSE C!Exit(p) /\ ready' = (ready \/ job[p].init)
  <2>1. JobOK(p) /\ confPc[p] = "rename" BY DEF ConfInv, C!RenameTmp
  <2>2. UNCHANGED << bak, diriv, raced >> /\ Backed' = Backed BY DEF C!RenameTmp, Backed
  <2>3. /\ conf' = job[p].cf /\ conf' \in C!ConfFile /\ conf' # Missing /\ C!Validate(conf')
        /\ ~raced /\ ~zeroed /\ ~job[p].zero => conf'.key = MasterKey \/ Backed
    BY <1>2, <2>1 DEF JobOK, Replacing
  <2>4. job \in [Commands -> ConfJobs] /\ ready \in BOOLEAN /\ zeroed \in BOOLEAN
    BY DEF ConfInv, ConfTypeOK
  <2>5. job[p].init \in BOOLEAN /\ job[p].diriv \in BOOLEAN /\ job[p].zero \in BOOLEAN
    BY <2>4 DEF ConfJobs
  <2>6. zeroed' \in BOOLEAN /\ (~zeroed' => ~zeroed /\ ~job[p].zero) BY Zenon, <1>2, <2>4, <2>5
  <2>7. ConfOK' BY <2>2, <2>3, <2>6 DEF ConfOK, C!Validate
  <2>8. ~raced =>
           /\ job[p].init => conf = Missing /\ (job[p].diriv <=> "DirIV" \in conf'.flags)
           /\ ~job[p].init => conf # Missing /\ conf'.flags = conf.flags /\ ~job[p].diriv
    BY <2>1, <2>3 DEF JobOK, Replacing
  <2>9. ready /\ ~raced => conf # Missing /\ ("DirIV" \in conf.flags => diriv = "full")
    BY DEF ConfInv, ReadyOK
  <2>10. ASSUME NEW q \in Commands \ {p}, confPc'[q] = confPc[q], job'[q] = job[q],
                (ready' = ready) \/ job[p].init
         PROVE  JobOK(q)'
    <3>1. PairOK(p, q) /\ PairOK(q, p) /\ JobOK(q) BY DEF ConfInv
    <3>2. confPc[q] \notin {"write", "rename"} BY <2>1, <3>1 DEF PairOK
    <3>3. CASE raced BY <2>2, <2>3, <2>10, <3>1, <3>2, <3>3 DEF JobOK
    <3>4. CASE ~raced /\ job[p].init
      <4>1. confPc[q] = "off" BY <2>1, <3>1, <3>4 DEF PairOK, Replacing
      <4> QED BY <2>10, <3>1, <4>1 DEF JobOK, Replacing
    <3>5. CASE ~raced /\ ~job[p].init
      <4>1. confPc[q] \in Replacing => ~job[q].init
        BY <3>1, <2>1, <2>8, <3>5 DEF PairOK, Replacing, JobOK
      <4>2. ready' = ready BY <2>10, <3>5
      <4> QED BY <2>2, <2>3, <2>6, <2>8, <2>10, <3>1, <3>2, <3>5, <4>1, <4>2 DEF JobOK
    <3> QED BY <3>3, <3>4, <3>5
  <2>11. CASE job[p].diriv
    <3>1. C!Goto(p, "diriv") /\ UNCHANGED << ready, job >> BY <1>2, <2>11
    <3>2. ~raced => job[p].init /\ ~ready BY <2>5, <2>8, <2>9, <2>11
    <3>3. /\ confPc' \in [Commands -> Replacing \union {"off", "diriv", "dirivWrite"}]
          /\ job' \in [Commands -> ConfJobs]
          /\ confPc'[p] = "diriv"
          /\ \A q \in Commands \ {p} : confPc'[q] = confPc[q] /\ job'[q] = job[q]
      BY <3>1, GoesOn
    <3>4. ConfTypeOK' BY <1>2, <2>2, <2>3, <2>6, <3>1, <3>3 DEF ConfInv, ConfTypeOK
    <3>5. ReadyOK' BY <2>2, <3>1, <3>2 DEF ReadyOK
    <3>6. job[p].init BY <2>1, <2>11 DEF JobOK, Replacing
    <3>7. JobOK(p)' BY <2>2, <2>3, <3>1, <3>2, <3>3, <3>6 DEF JobOK, Replacing
    <3>8. ASSUME NEW q \in Commands \ {p} PROVE JobOK(q)' /\ PairOK(p, q)' /\ PairOK(q, p)'
      <4>1. PairOK(p, q) /\ PairOK(q, p) /\ JobOK(q) BY DEF ConfInv
      <4>2. JobOK(q)' BY <2>10, <3>1, <3>3
      <4>3. ~raced => confPc[q] = "off" /\ ~job[q].init
        BY <2>1, <3>2, <4>1 DEF PairOK, Replacing
      <4>4. PairOK(p, q)' /\ PairOK(q, p)' BY <2>2, <3>1, <3>3, <4>1, <4>3 DEF PairOK, Replacing
      <4> QED BY <4>2, <4>4
    <3> QED BY <2>2, <2>7, <3>1, <3>3, <3>4, <3>5, <3>7, <3>8, OfOneRun
  <2>12. CASE ~job[p].diriv
    <3>1. C!Exit(p) /\ ready' = (ready \/ job[p].init) BY <1>2, <2>12
    <3>2. /\ C!Goto(p, "off") /\ confPc'[p] = "off" /\ job'[p] = C!NoJob
          /\ \A q \in Commands \ {p} : confPc'[q] = confPc[q] /\ job'[q] = job[q]
      BY <3>1 DEF C!Exit, C!Goto, ConfInv, ConfTypeOK
    <3>3. ConfTypeOK'
      <4>1. ready' \in BOOLEAN BY Zenon, <2>4, <2>5, <3>1
      <4> QED BY <1>2, <2>2, <2>3, <2>6, <3>1, <4>1, NoJobOK
              DEF ConfInv, ConfTypeOK, C!Exit, C!Goto
    <3>4. ReadyOK'
      <4>1. CASE job[p].init BY <2>2, <2>3, <2>8, <2>12, <4>1 DEF ReadyOK
      <4>2. CASE ~job[p].init BY Zenon, <2>2, <2>3, <2>8, <2>9, <3>1, <4>2 DEF ReadyOK
      <4> QED BY <4>1, <4>2
    <3>5. JobOK(p)' BY <3>2 DEF JobOK, Replacing, C!NoJob
    <3>6. ASSUME NEW q \in Commands \ {p} PROVE JobOK(q)' /\ PairOK(p, q)' /\ PairOK(q, p)'
      <4>1. (ready' = ready) \/ job[p].init
        <5>1. CASE job[p].init BY <5>1
        <5>2. CASE ~job[p].init BY <2>4, <3>1, <5>2
        <5> QED BY <5>1, <5>2
      <4>2. JobOK(q)' BY <2>10, <3>2, <4>1
      <4>3. PairOK(p, q)' /\ PairOK(q, p)' BY <3>2 DEF PairOK, Replacing, C!NoJob
      <4> QED BY <4>2, <4>3
    <3> QED BY <2>2, <2>7, <3>2, <3>3, <3>4, <3>5, <3>6, OfOneRun
  <2> QED BY <2>11, <2>12
<1> QED BY <1>1, <1>2 DEF C!RenameTmp

LEMMA WriteDirIVOK == ASSUME ConfInv, NEW p \in Commands, C!WriteDirIV(p) PROVE ConfInv'
<1>1. CASE C!Exit(p) /\ UNCHANGED diriv BY <1>1, ExitOK DEF C!WriteDirIV
<1>2. CASE diriv' = Partial /\ C!Goto(p, "dirivWrite") /\ UNCHANGED job
  <2>1. JobOK(p) /\ confPc[p] = "diriv" BY DEF ConfInv, C!WriteDirIV
  <2>2. job[p].init /\ (~raced => ~ready) /\ conf # Missing BY <2>1 DEF JobOK
  <2>3. /\ confPc' \in [Commands -> Replacing \union {"off", "diriv", "dirivWrite"}]
        /\ job' \in [Commands -> ConfJobs]
        /\ confPc'[p] = "dirivWrite"
        /\ \A q \in Commands \ {p} : confPc'[q] = confPc[q] /\ job'[q] = job[q]
    BY <1>2, GoesOn
  <2>4. UNCHANGED << conf, tmp, bak, ready, raced, zeroed >> BY DEF C!WriteDirIV
  <2>5. ConfTypeOK' BY <2>3, <2>4 DEF ConfInv, ConfTypeOK
  <2>6. ConfOK' /\ ReadyOK' /\ Backed' = Backed
    BY Zenon, <2>2, <2>4 DEF ConfInv, ConfOK, ReadyOK, Backed
  <2>7. JobOK(p)'
    <3>1. job'[p] = job[p] /\ (~raced' => ~ready') /\ conf' # Missing BY Zenon, <1>2, <2>2, <2>4
    <3>2. confPc'[p] \notin Replacing BY Zenon, <2>3 DEF Replacing
    <3>3. confPc'[p] # "write" /\ confPc'[p] # "rename" /\ confPc'[p] # "off" BY Zenon, <2>3
    <3> QED BY Zenon, <2>2, <3>1, <3>2, <3>3 DEF JobOK
  <2>8. ASSUME NEW q \in Commands \ {p} PROVE JobOK(q)' /\ PairOK(p, q)' /\ PairOK(q, p)'
    <3>1. JobOK(q)' BY Zenon, <2>3, <2>4, <2>6, OtherJobKept
    <3>2. PairOK(p, q)' /\ PairOK(q, p)'
      BY <1>2, <2>1, <2>2, <2>3, <2>4 DEF ConfInv, PairOK, Replacing
    <3> QED BY <3>1, <3>2
  <2> QED BY <1>2, <2>3, <2>4, <2>5, <2>6, <2>7, <2>8, OfOneRun
<1> QED BY <1>1, <1>2 DEF C!WriteDirIV

LEMMA WriteDirIVDataOK == ASSUME ConfInv, NEW p \in Commands, C!WriteDirIVData(p) PROVE ConfInv'
<1>1. JobOK(p) /\ confPc[p] = "dirivWrite" BY DEF ConfInv, C!WriteDirIVData
<1>2. job[p].init /\ (~raced => ~ready) /\ conf # Missing BY <1>1 DEF JobOK
<1>3. CASE diriv' = Missing /\ UNCHANGED ready BY <1>2, <1>3, ExitOK DEF C!WriteDirIVData
<1>4. CASE diriv' = "full" /\ ready' = TRUE
  <2>1. /\ C!Goto(p, "off") /\ confPc'[p] = "off" /\ job'[p] = C!NoJob
        /\ \A q \in Commands \ {p} : confPc'[q] = confPc[q] /\ job'[q] = job[q]
    BY DEF C!WriteDirIVData, C!Exit, C!Goto, ConfInv, ConfTypeOK
  <2>2. UNCHANGED << conf, tmp, bak, raced, zeroed >> BY DEF C!WriteDirIVData
  <2>3. ConfTypeOK'
    BY <1>4, <2>2, NoJobOK DEF ConfInv, ConfTypeOK, C!WriteDirIVData, C!Exit, C!Goto
  <2>4. ConfOK' /\ ReadyOK' /\ Backed' = Backed
    BY <1>2, <1>4, <2>2 DEF ConfInv, ConfOK, ReadyOK, Backed
  <2>5. JobOK(p)' BY <2>1 DEF JobOK, Replacing, C!NoJob
  <2>6. ASSUME NEW q \in Commands \ {p} PROVE JobOK(q)' /\ PairOK(p, q)' /\ PairOK(q, p)'
    <3>1. ~raced => ~job[q].init BY <1>2 DEF ConfInv, PairOK
    <3>2. raced \/ confPc[q] \notin {"diriv", "dirivWrite"} BY <3>1 DEF ConfInv, JobOK
    <3>3. JobOK(q)' BY <2>1, <2>2, <2>4, <3>2, OtherJobKept
    <3>4. PairOK(p, q)' /\ PairOK(q, p)' BY <2>1 DEF PairOK, Replacing, C!NoJob
    <3> QED BY <3>3, <3>4
  <2> QED BY <2>1, <2>2, <2>3, <2>4, <2>5, <2>6, OfOneRun
<1> QED BY Zenon, <1>3, <1>4 DEF C!WriteDirIVData

LEMMA InitDirOK == ASSUME ConfInv, NEW p \in Commands, C!initDir(p) PROVE ConfInv'
<1> DEFINE k == IF C!Inits = {} THEN MasterKey ELSE WrongKey
<1>1. PICK a \in Options, new \in Passwords :
          /\ C!Validate(C!Create(a, new, k))
          /\ job' = [job EXCEPT ![p] = [cf |-> C!Create(a, new, k), init |-> TRUE,
                  diriv |-> C!NeedsDirIV(a), zero |-> FALSE]]
  BY Zenon DEF C!initDir
<1>2. a \in C!Args /\ k \in {MasterKey, WrongKey} BY DEF ConfInv, C!ConfigFileAssumption
<1>k. C!Inits = {} => k = MasterKey OBVIOUS
<1> HIDE DEF k
<1> DEFINE j == [cf |-> C!Create(a, new, k), init |-> TRUE, diriv |-> C!NeedsDirIV(a),
                 zero |-> FALSE]
<1>3. /\ j.cf \in C!ConfFile /\ j.cf.key = k /\ C!Validate(j.cf)
      /\ j.diriv <=> "DirIV" \in j.cf.flags
      /\ j.init = TRUE
  BY <1>1, <1>2, CreatedConf
<1>4. j \in ConfJobs
  BY <1>2, CreatedConf DEF C!NeedsDirIV, C!Args, ConfJobs
<1> HIDE DEF j
<1>5. /\ conf = Missing
      /\ \A q \in Commands : C!Inits = {} => confPc[q] = "off"
  <2>1. conf = Missing BY DEF C!initDir, C!isEmptyDir
  <2>2. ASSUME NEW q \in Commands, C!Inits = {} PROVE confPc[q] = "off"
    <3>1. JobOK(q) /\ ~job[q].init BY <2>2 DEF C!Inits, ConfInv
    <3>2. confPc[q] \in Replacing \union {"off", "diriv", "dirivWrite"} BY DEF ConfInv, ConfTypeOK
    <3> QED BY <2>1, <3>1, <3>2 DEF JobOK
  <2> QED BY <2>1, <2>2
<1>6. /\ confPc'[p] = "open" /\ job'[p] = j /\ C!Goto(p, "open")
      /\ \A q \in Commands \ {p} : confPc'[q] = confPc[q] /\ job'[q] = job[q]
  BY Zenon, <1>1 DEF j, C!initDir, C!Goto, ConfInv, ConfTypeOK
<1>7. /\ UNCHANGED << conf, tmp, bak, diriv, ready, zeroed >>
      /\ raced' \in BOOLEAN /\ (~raced' => ~raced /\ C!Inits = {})
  <2>1. raced' = (raced \/ C!Inits # {}) BY DEF C!initDir
  <2>2. raced' \in BOOLEAN /\ (~raced' => ~raced /\ C!Inits = {})
    BY Zenon, <2>1 DEF ConfInv, ConfTypeOK
  <2> QED BY <2>2 DEF C!initDir, C!files
<1>8. ConfTypeOK'
  BY Zenon, <1>1, <1>4, <1>7 DEF j, ConfInv, ConfTypeOK, Replacing, C!initDir, C!Goto
<1>9. ConfOK' /\ ReadyOK' BY <1>7 DEF ConfInv, ConfOK, ReadyOK, Backed
<1>10. JobOK(p)' BY <1>3, <1>k, <1>5, <1>6, <1>7 DEF JobOK, Replacing, C!Validate
<1>11. ASSUME NEW q \in Commands \ {p} PROVE JobOK(q)' /\ PairOK(p, q)' /\ PairOK(q, p)'
  <2>1. JobOK(q) /\ PairOK(p, q) /\ PairOK(q, p) /\ (~raced' => confPc[q] = "off")
    BY <1>5, <1>7 DEF ConfInv
  <2>2. ~raced' => ~job[q].init BY <2>1 DEF JobOK
  <2>3. JobOK(q)' BY <1>6, <1>7, <2>1, <2>2 DEF JobOK, Replacing
  <2>4. PairOK(p, q)' /\ PairOK(q, p)' BY <1>6, <2>1, <2>2 DEF PairOK, Replacing
  <2> QED BY <2>3, <2>4
<1> QED BY <1>6, <1>7, <1>8, <1>9, <1>10, <1>11, OfOneRun

LEMMA ChangePasswordOK == ASSUME ConfInv, NEW p \in Commands, C!changePassword(p) PROVE ConfInv'
<1>1. conf \in C!ConfFile /\ conf # Missing /\ C!Validate(conf) /\ confPc[p] = "off"
  BY DEF C!changePassword, C!Started, ConfInv, ConfTypeOK
<1>2. UNCHANGED << conf, tmp, bak, diriv, ready, raced, zeroed >> BY DEF C!changePassword, C!files
<1>3. ASSUME NEW j \in ConfJobs, NEW label \in {"link", "open"},
             j.cf \in C!ConfFile, ~j.diriv, ~j.init,
             j.cf.flags = conf.flags, j.cf.LongNameMax = conf.LongNameMax,
             label = "link" \/ j.zero \/ j.cf.key = conf.key,
             job' = [job EXCEPT ![p] = j], C!Goto(p, label)
      PROVE  ConfInv'
  <2>1. /\ confPc'[p] = label /\ job'[p] = j
        /\ \A q \in Commands \ {p} : confPc'[q] = confPc[q] /\ job'[q] = job[q]
    BY <1>3 DEF C!Goto, ConfInv, ConfTypeOK
  <2>2. ConfTypeOK' BY <1>2, <1>3 DEF ConfInv, ConfTypeOK, Replacing, C!Goto
  <2>3. ConfOK' /\ ReadyOK' /\ Backed' = Backed BY <1>2 DEF ConfInv, ConfOK, ReadyOK, Backed
  <2>4. C!Validate(j.cf) BY <1>1, <1>3, SameFlagsValid
  <2>5. ~raced /\ ~zeroed => label = "link" \/ j.zero \/ j.cf.key = MasterKey \/ Backed
    BY <1>1, <1>3 DEF ConfInv, ConfOK
  <2>6. JobOK(p)'
    BY <1>1, <1>2, <1>3, <2>1, <2>3, <2>4, <2>5 DEF JobOK, Replacing, C!Validate
  <2>7. ASSUME NEW q \in Commands \ {p} PROVE JobOK(q)' /\ PairOK(p, q)' /\ PairOK(q, p)'
    <3>1. JobOK(q)' BY <1>2, <2>1, <2>3, OtherJobKept
    <3>2. ~raced => ~(job[q].init /\ confPc[q] \in Replacing) BY <1>1 DEF ConfInv, JobOK
    <3>3. PairOK(p, q)' /\ PairOK(q, p)' BY <1>2, <1>3, <2>1, <3>2 DEF PairOK
    <3> QED BY <3>1, <3>3
  <2> QED BY <1>2, <1>3, <2>1, <2>2, <2>3, <2>6, <2>7, OfOneRun
<1>4. ASSUME NEW cf \in C!ConfFile
      PROVE  LET j == [C!NoJob EXCEPT !.cf = cf]
                 z == [C!NoJob EXCEPT !.cf = cf, !.zero = TRUE]
             IN  /\ j \in ConfJobs /\ j.cf = cf /\ ~j.diriv /\ ~j.init
                 /\ z \in ConfJobs /\ z.cf = cf /\ ~z.diriv /\ ~z.init /\ z.zero
  BY DEF C!NoJob, ConfJobs
<1>5. ASSUME NEW new \in Passwords,
             job' = [job EXCEPT ![p] = [C!NoJob EXCEPT !.cf = [conf EXCEPT !.password = new]]],
             C!Goto(p, "open")
      PROVE  ConfInv'
  <2> DEFINE cf == [conf EXCEPT !.password = new]
             j == [C!NoJob EXCEPT !.cf = cf]
  <2>1. cf \in C!ConfFile /\ cf.key = conf.key /\ cf.flags = conf.flags /\ cf.LongNameMax = conf.LongNameMax
    BY Zenon, <1>1, ChangedConf
  <2>2. job' = [job EXCEPT ![p] = j] BY <1>5
  <2> HIDE DEF cf
  <2>3. j \in ConfJobs /\ j.cf = cf /\ ~j.diriv /\ ~j.init BY <1>4, <2>1
  <2> HIDE DEF j
  <2> QED BY <1>3, <1>5, <2>1, <2>2, <2>3
<1>6. ASSUME NEW new \in Passwords, NEW k \in {MasterKey, WrongKey},
             \/ /\ job' = [job EXCEPT ![p] =
                        [C!NoJob EXCEPT !.cf = [conf EXCEPT !.password = new, !.key = k]]]
                /\ C!Goto(p, "link")
             \/ /\ job' = [job EXCEPT ![p] =
                        [C!NoJob EXCEPT !.cf = [conf EXCEPT !.password = new, !.key = k],
                                        !.zero = TRUE]]
                /\ C!Goto(p, "open")
      PROVE  ConfInv'
  <2> DEFINE cf == [conf EXCEPT !.password = new, !.key = k]
             j == [C!NoJob EXCEPT !.cf = cf]
             z == [C!NoJob EXCEPT !.cf = cf, !.zero = TRUE]
  <2>1. cf \in C!ConfFile /\ cf.flags = conf.flags /\ cf.LongNameMax = conf.LongNameMax
    BY Zenon, <1>1, ChangedConf
  <2>2. \/ job' = [job EXCEPT ![p] = j] /\ C!Goto(p, "link")
        \/ job' = [job EXCEPT ![p] = z] /\ C!Goto(p, "open")
    BY <1>6
  <2> HIDE DEF cf
  <2>3. /\ j \in ConfJobs /\ j.cf = cf /\ ~j.diriv /\ ~j.init
        /\ z \in ConfJobs /\ z.cf = cf /\ ~z.diriv /\ ~z.init /\ z.zero
    BY <1>4, <2>1
  <2> HIDE DEF j, z
  <2>4. CASE job' = [job EXCEPT ![p] = j] /\ C!Goto(p, "link") BY <1>3, <2>1, <2>3, <2>4
  <2>5. CASE job' = [job EXCEPT ![p] = z] /\ C!Goto(p, "open") BY <1>3, <2>1, <2>3, <2>5
  <2> QED BY <2>2, <2>4, <2>5
<1> QED BY Zenon, <1>5, <1>6 DEF C!changePassword

\* While no process runs, the user may tidy up.
LEMMA TidyOK == ASSUME ConfInv, C!RemoveTmp \/ C!RemoveBackup \/ C!StartOver PROVE ConfInv'
<1>1. UNCHANGED << confPc, job, ready >> /\ \A p \in Commands : confPc[p] = "off"
  BY DEF C!RemoveTmp, C!RemoveBackup, C!StartOver, C!Off
<1>2. ConfTypeOK'
  BY <1>1 DEF ConfInv, ConfTypeOK, C!RemoveTmp, C!RemoveBackup, C!StartOver
<1>3. ASSUME NEW p \in Commands PROVE JobOK(p)'
  <2>1. JobOK(p) /\ confPc[p] = "off" /\ confPc'[p] = "off" /\ job'[p] = job[p]
    BY Zenon, <1>1 DEF ConfInv
  <2>2. confPc'[p] \notin Replacing /\ confPc'[p] # "write" /\ confPc'[p] # "rename"
    BY Zenon, <2>1 DEF Replacing
  <2>3. confPc'[p] # "diriv" /\ confPc'[p] # "dirivWrite" BY Zenon, <2>1
  <2>4. ~job'[p].init BY Zenon, <2>1 DEF JobOK
  <2> QED BY Zenon, <2>2, <2>3, <2>4 DEF JobOK
<1>4. \A p, q \in Commands : p # q => PairOK(p, q)' BY <1>1 DEF ConfInv, JobOK, PairOK
<1>5. ConfOK'
  BY DEF ConfInv, ConfOK, Backed, C!RemoveTmp, C!RemoveBackup, C!StartOver
<1>6. ReadyOK'
  BY Zenon DEF ConfInv, ReadyOK, C!RemoveTmp, C!RemoveBackup, C!StartOver
<1> QED BY <1>2, <1>3, <1>4, <1>5, <1>6 DEF ConfInv, C!ConfigFileAssumption

LEMMA ConfStutterOK == ConfInv /\ UNCHANGED C!vars => ConfInv'
<1> SUFFICES ASSUME ConfInv, UNCHANGED C!vars PROVE ConfInv' OBVIOUS
<1>1. UNCHANGED << conf, bak, tmp, diriv, ready, raced, zeroed, confPc, job >>
  BY Zenon DEF C!vars
<1>2. ConfTypeOK' /\ ConfOK' /\ ReadyOK'
  BY Zenon, <1>1 DEF ConfInv, ConfTypeOK, ConfOK, ReadyOK, Backed
<1>3. \A p \in Commands : JobOK(p)' BY Zenon, <1>1 DEF ConfInv, JobOK, Backed
<1>4. \A p, q \in Commands : p # q => PairOK(p, q)' BY Zenon, <1>1 DEF ConfInv, PairOK
<1> QED BY Zenon, <1>2, <1>3, <1>4 DEF ConfInv, C!ConfigFileAssumption

LEMMA ConfNextOK == ConfInv /\ [C!Next]_C!vars => ConfInv'
<1>1. ASSUME ConfInv, NEW p \in Commands, C!Crash(p) PROVE ConfInv'
  BY <1>1, ExitOK DEF C!Crash, C!files
<1> QED BY <1>1, InitDirOK, ChangePasswordOK, LinkOK, OpenTmpOK, WriteTmpOK, RenameTmpOK,
           WriteDirIVOK, WriteDirIVDataOK, TidyOK, ConfStutterOK
    DEF C!Next

\* For any number of gocryptfs processes, whichever system call fails and whoever dies
\* where: gocryptfs.conf can be loaded; unless two -init overlapped, a file system that
\* -init has reported has its config and its gocryptfs.diriv, and until a -passwd -zerokey
\* replaces it the master key is in the config or in its backup (initDir, changePassword,
\* WriteFile).
THEOREM ConfigFileIsKept == C!ConfigFileAssumption /\ C!Spec => []MasterKeySurvives
<1>1. ConfInv => MasterKeySurvives
  BY Zenon DEF ConfInv, ConfTypeOK, ConfOK, ReadyOK, Backed, MasterKeySurvives, C!MasterKeySurvives,
         C!ConfigFileAssumption
<1> QED BY <1>1, ConfInitOK, ConfNextOK, PTL DEF C!Spec

=============================================================================
